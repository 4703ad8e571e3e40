--------------------------- MODULE SysInfoServer ----------------------------
(***************************************************************************)
(* The server behind its io_service: the service thread, the acceptor of   *)
(* sys_info_server, the sessions of sys_info_server_session, and the       *)
(* INSERTs that std::async threads execute through pg_db_adapter.          *)
(***************************************************************************)
EXTENDS TcpPeers

CONSTANTS
    NoConn,      \* no connection
    ConfigFiles, \* server_config.xml: the files it may be, as sequences of elements
    Junk,        \* what a read past the end of the parsed vector may give
    MaxLength    \* the size of data_ in tokens (max_length)

ASSUME ServerAssumption ==
    /\ NoConn \notin Conns
    /\ MaxLength \in Nat \ {0}

VARIABLES
    svc,          \* service_thread: "none", "run" (in io_service.run), "exited",
                  \* or "crashed", which ends the process
    stopped,      \* io_service.stop() was called
    cur,          \* the session whose read handler is inside write_to_db
    c_detail,     \* the report that handler parsed
    accepting,    \* an async_accept is outstanding
    ops,          \* the sessions' outstanding operations
    authorized_clients,
    acks,         \* per connection, READ_SUCCESS replies handed to async_write
    txns,         \* the INSERTs in execution
    table,        \* CLIENT_INFO in insertion order, each row with its connection
    lost          \* per connection, INSERTs that threw or never ran

asioVars == <<svc, stopped, cur, c_detail, accepting, ops>>
dbVars   == <<txns, table, lost>>
srvVars  == <<asioVars, authorized_clients, acks, dbVars>>

\* Mutant of NOT_AUTHORIZED: a reply the client does not know.
UnknownReply == "3"

\* Mutant of NOT_AUTHORIZED: the value of READ_FAILURE.
SameAsFailure == "1"

\* The three replies.
READ_SUCCESS   == "0"
READ_FAILURE   == "1"
NOT_AUTHORIZED == "2"

NoDetail == << >>

ServerInit ==
    /\ svc = "none" /\ stopped = FALSE
    /\ cur = NoConn /\ c_detail = NoDetail
    /\ accepting = FALSE /\ ops = {}
    /\ authorized_clients = << >> /\ acks = [c \in Conns |-> 0]
    /\ txns = {} /\ table = << >> /\ lost = [c \in Conns |-> 0]

Operations == Conns \X {"read", "written", "broken"}

ServerTypeOK ==
    /\ svc \in {"none", "run", "exited", "crashed"} /\ stopped \in BOOLEAN
    /\ cur \in Conns \cup {NoConn}
    /\ accepting \in BOOLEAN
    /\ ops \subseteq Operations
    /\ acks \in [Conns -> Nat]
    /\ \A t \in txns : t.conn \in Conns
    /\ \A i \in DOMAIN table : table[i].conn \in Conns
    /\ lost \in [Conns -> Nat]

-----------------------------------------------------------------------------
(* The service thread runs one handler at a time, and none after stop().   *)

Reading(c) == <<c, "read">>
Written(c) == <<c, "written">>
Broken(c)  == <<c, "broken">>

\* The operations that hold a shared_ptr to the session of c.
OpsOf(c) == ops \cap {Reading(c), Written(c), Broken(c)}

MayRun == svc = "run" /\ cur = NoConn /\ ~ stopped

\* The accepted connection gets a session, whose first operation is do_read.
HandleAccept(c) ==
    /\ MayRun
    /\ accepting /\ c \in backlog
    /\ backlog' = backlog \ {c}
    /\ ops' = ops \cup {Reading(c)}
    /\ accepting' = TRUE
    /\ UNCHANGED <<svc, stopped, cur, c_detail, authorized_clients, acks, dbVars,
                   conn, inbox, outbox, rst, sent>>

\* Mutant of HandleAcceptError: do_accept() only in the branch without error.
AcceptErrorEndsLoop ==
    /\ "accept" \in Faults
    /\ MayRun
    /\ accepting /\ backlog # {}
    /\ accepting' = FALSE
    /\ UNCHANGED <<svc, stopped, cur, c_detail, ops, authorized_clients, acks,
                   dbVars, tcpVars>>

HandleAcceptError ==
    /\ "accept" \in Faults
    /\ MayRun
    /\ accepting /\ backlog # {}
    /\ accepting' = TRUE
    /\ UNCHANGED <<svc, stopped, cur, c_detail, ops, authorized_clients, acks,
                   dbVars, tcpVars>>

\* pending: the operations left when that of the running handler is gone.
do_write(c, reply, pending) ==
    /\ ops' = pending \cup {IF WriteFails(c) THEN Broken(c) ELSE Written(c)}
    /\ Transmit(c, reply)

\* Mutant of ReadSome: the data stays in the socket (MSG_PEEK).
PeekSome(c, n) ==
    /\ MayRun
    /\ Reading(c) \in ops
    /\ inbox[c] # << >> /\ UNCHANGED inbox

\* The read handler begins with n tokens in data_; what it does with them
\* follows, in the same step.
ReadSome(c, n) ==
    /\ MayRun
    /\ Reading(c) \in ops
    /\ Receive(c, n)

data_copy(c, n) == SubSeq(inbox[c], 1, n)

\* What the parser may return.
Parsed(c, n) == {parse_to_client_detail(data_copy(c, n), junk) : junk \in Junk}

\* Mutant of RefuseReport: the limits are looked up before the key is checked.
RefuseAfterLookup(c, d) ==
    /\ ~ is_client_authorized(authorized_clients, d.client_key)
    /\ do_write(c, NOT_AUTHORIZED, ops \ {Reading(c)})
    /\ authorized_clients' = Subscripted(authorized_clients, d.client_key)
    /\ UNCHANGED <<svc, stopped, cur, c_detail, accepting, acks, dbVars,
                   conn, backlog, sent>>

\* Mutant of RefuseReport: reads on without a reply.
RefuseSilently(c, d) ==
    /\ ~ is_client_authorized(authorized_clients, d.client_key)
    /\ UNCHANGED <<asioVars, authorized_clients, acks, dbVars,
                   conn, backlog, outbox, rst, sent>>

\* d: the struct the parser returned.
RefuseReport(c, d) ==
    /\ ~ is_client_authorized(authorized_clients, d.client_key)
    /\ do_write(c, NOT_AUTHORIZED, ops \ {Reading(c)})
    /\ UNCHANGED <<svc, stopped, cur, c_detail, accepting, authorized_clients,
                   acks, dbVars, conn, backlog, sent>>

\* std::async: its thread executes the INSERT; a deferred call would run in
\* get(), which nobody calls.
write_to_db(c, row) ==
    \/ /\ txns' = txns \cup {[conn |-> c, row |-> row]}
       /\ UNCHANGED lost
    \/ /\ "deferred" \in Faults
       /\ lost' = [lost EXCEPT ![c] = @ + 1]
       /\ UNCHANGED txns

\* Mutant of AdmitReport: the next read is started before the report is stored.
AdmitWhileReading(c, d) ==
    /\ is_client_authorized(authorized_clients, d.client_key)
    /\ cur' = c /\ c_detail' = d
    /\ write_to_db(c, generate_insert_str_for(d))
    /\ UNCHANGED <<svc, stopped, accepting, ops, authorized_clients, acks, table,
                   conn, backlog, outbox, rst, sent>>

\* The handler up to the destructor of the future that std::async returned.
AdmitReport(c, d) ==
    /\ is_client_authorized(authorized_clients, d.client_key)
    /\ cur' = c /\ c_detail' = d
    /\ ops' = ops \ {Reading(c)}
    /\ write_to_db(c, generate_insert_str_for(d))
    /\ UNCHANGED <<svc, stopped, accepting, authorized_clients, acks, table,
                   conn, backlog, outbox, rst, sent>>

\* Indexing past the end of the parsed vector may also end the process.
ParseCrashes(c, n) ==
    /\ IsShort(data_copy(c, n))
    /\ svc' = "crashed"
    /\ UNCHANGED <<stopped, cur, c_detail, accepting, ops, authorized_clients,
                   acks, dbVars, conn, backlog, outbox, rst, sent>>

\* Mutant of FinishReport: the future is kept, and nobody waits for the INSERT.
FinishWithoutWaiting ==
    /\ cur # NoConn
    /\ authorized_clients' = Subscripted(authorized_clients, c_detail.client_key)
    /\ do_write(cur, READ_SUCCESS, ops)
    /\ acks' = [acks EXCEPT ![cur] = @ + 1]
    /\ cur' = NoConn /\ c_detail' = NoDetail
    /\ UNCHANGED <<svc, stopped, accepting, dbVars, conn, backlog, inbox, sent>>

\* Mutant of FinishReport: the handler gives up when the service is stopped.
FinishUnlessStopped ==
    /\ cur # NoConn /\ ~ stopped
    /\ \A t \in txns : t.conn # cur
    /\ authorized_clients' = Subscripted(authorized_clients, c_detail.client_key)
    /\ do_write(cur, READ_SUCCESS, ops)
    /\ acks' = [acks EXCEPT ![cur] = @ + 1]
    /\ cur' = NoConn /\ c_detail' = NoDetail
    /\ UNCHANGED <<svc, stopped, accepting, dbVars, conn, backlog, inbox, sent>>

\* The rest of the handler, once that destructor has waited for the thread.  The
\* limits are looked up with operator[]; send_email only prints.
FinishReport ==
    /\ cur # NoConn
    /\ \A t \in txns : t.conn # cur
    /\ authorized_clients' = Subscripted(authorized_clients, c_detail.client_key)
    /\ do_write(cur, READ_SUCCESS, ops)
    /\ acks' = [acks EXCEPT ![cur] = @ + 1]
    /\ cur' = NoConn /\ c_detail' = NoDetail
    /\ UNCHANGED <<svc, stopped, accepting, dbVars, conn, backlog, inbox, sent>>

HandleReadError(c) ==
    /\ MayRun
    /\ Reading(c) \in ops /\ ReadFails(c)
    /\ do_write(c, READ_FAILURE, ops \ {Reading(c)})
    /\ UNCHANGED <<svc, stopped, cur, c_detail, accepting, authorized_clients,
                   acks, dbVars, conn, backlog, inbox, sent>>

\* Mutant of HandleWrite: reads again after an error too.
ReadAfterError(c) ==
    /\ MayRun
    /\ {Written(c), Broken(c)} \cap ops # {}
    /\ ops' = (ops \ {Written(c), Broken(c)}) \cup {Reading(c)}
    /\ UNCHANGED <<svc, stopped, cur, c_detail, accepting, authorized_clients,
                   acks, dbVars, tcpVars>>

\* A completed write: read again, or drop the last reference to the session.
HandleWrite(c) ==
    /\ MayRun
    /\ \/ /\ Written(c) \in ops
          /\ ops' = (ops \ {Written(c)}) \cup {Reading(c)}
       \/ /\ Broken(c) \in ops
          /\ ops' = ops \ {Broken(c)}
    /\ UNCHANGED <<svc, stopped, cur, c_detail, accepting, authorized_clients,
                   acks, dbVars, tcpVars>>

\* io_service.run() returns between two handlers.
ServiceReturns ==
    /\ stopped /\ svc = "run" /\ cur = NoConn
    /\ svc' = "exited"
    /\ UNCHANGED <<stopped, cur, c_detail, accepting, ops, authorized_clients,
                   acks, dbVars, tcpVars>>

\* Mutant of Execute: an INSERT that was executed may be tried again.
ExecuteMayRepeat(t) ==
    /\ t \in txns
    /\ txns' \in {txns, txns \ {t}}
    /\ table' = Append(table, t)
    /\ UNCHANGED <<lost, asioVars, authorized_clients, acks, tcpVars>>

\* A std::async thread: execute() inserts the row, or it throws and the
\* exception is caught and printed.
Execute(t) ==
    /\ t \in txns
    /\ txns' = txns \ {t}
    /\ \/ /\ FitsColumns(t.row)
          /\ table' = Append(table, t)
          /\ UNCHANGED lost
       \/ /\ "dberror" \in Faults \/ ~ FitsColumns(t.row)
          /\ lost' = [lost EXCEPT ![t.conn] = @ + 1]
          /\ UNCHANGED table
    /\ UNCHANGED <<asioVars, authorized_clients, acks, tcpVars>>

-----------------------------------------------------------------------------
HandleRead(c) ==
    \/ \E n \in ReadSizes(c, MaxLength) :
          /\ ReadSome(c, n)
          /\ \/ \E d \in Parsed(c, n) : RefuseReport(c, d) \/ AdmitReport(c, d)
             \/ ParseCrashes(c, n)
    \/ HandleReadError(c)

\* The handlers of connection c, of which one at a time has something to do.
HandlerOf(c) == HandleAccept(c) \/ HandleRead(c) \/ HandleWrite(c)

ServiceNext ==
    \/ \E c \in Conns : HandlerOf(c)
    \/ HandleAcceptError
    \/ FinishReport
    \/ ServiceReturns

DbNext == \E t \in txns : Execute(t)
=============================================================================
