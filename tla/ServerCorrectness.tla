-------------------------- MODULE ServerCorrectness -------------------------
(***************************************************************************)
(* What makes the server process of ServerMain correct.                    *)
(***************************************************************************)
EXTENDS ServerMain

ConfiguredKeys ==
    UNION {{xml[i].key : i \in {j \in DOMAIN xml : xml[j].name = "client"}} :
           xml \in ConfigFiles}

RowsOf(c) == {i \in DOMAIN table : table[i].conn = c}

\* Every variable has its type: the threads, operations, handles and
\* connections of the server are in states the code knows.
TypeOK ==
    /\ main \in {"start", "db", "service", "server", "waiting", "spinning",
                 "joining", "joined", "deleted", "done"}
    /\ outcome \in {"running", "exit0", "exit1", "terminated"}
    /\ db_handle \in {"none", "open", "deleted"}
    /\ ServerTypeOK
    /\ TcpTypeOK

\* The main thread deletes db_handle and destroys the server only when no
\* handler and no INSERT is left that uses them: stop() leaves the running
\* handler alone, and join() waits for it and so for its std::async thread.
SafeLifetimes ==
    cur # NoConn \/ txns # {} =>
        db_handle = "open" /\ svc = "run" /\ Listening

\* pqxx allows one transaction at a time on a connection: the INSERTs of all
\* sessions share pg_connection, and two of them never overlap.
SingleTransaction == \A t, u \in txns : t = u

\* A session has one outstanding operation at a time, and none while its read
\* handler runs: data_ is not overwritten under the parser, and two async_write
\* calls never interleave on a socket.
OneOperation ==
    \A c \in Conns :
        /\ \A p, q \in OpsOf(c) : p = q
        /\ OpsOf(c) # {} => c # cur /\ c \notin backlog

\* A success reply stands for exactly one INSERT that write_to_db finished
\* (with a row, or with a lost one), also when stop() arrives in between.
AcksMatchInserts ==
    \A c \in Conns :
        LET finished == c = cur /\ \A t \in txns : t.conn # c
        IN  Cardinality(RowsOf(c)) + lost[c]
              = acks[c] + (IF finished THEN 1 ELSE 0)

\* A line that arrives whole is stored at most once, whatever becomes of its
\* connection, its reply and the server.  (Of a line that TCP cuts, two pieces may
\* begin with an authorized key.)
StoredAtMostOnce ==
    \A c \in Conns : Cardinality(RowsOf(c)) + lost[c] <= sent[c]

\* Only reports with a key of server_config.xml reach the table, however often
\* an unknown key is reported: operator[] in should_send_email never enters a
\* key in the map that all sessions share.
OnlyConfiguredStored ==
    /\ DOMAIN authorized_clients \subseteq ConfiguredKeys
    /\ \A i \in DOMAIN table : table[i].row.CLIENT_KEY \in ConfiguredKeys

\* The row of a report.
ReportedRow(r) ==
    [ CLIENT_KEY |-> r.key, MEMORY_PCT |-> r.memory, CPU_PCT |-> r.cpu,
      NO_PROCESSES |-> r.processes, DT_TIME |-> <<Word(r.time)>> ]

\* What is stored is what a peer reported, number for number, after the line
\* was formatted, split, converted through atoi and size_t and inserted.
RowsAreReports ==
    \A i \in DOMAIN table : \E r \in Reports : table[i].row = ReportedRow(r)

\* A complete line never makes the parser index past its vector: the process
\* terminates only when the acceptor could not be constructed.
NoCrashWhileServing == svc # "crashed"

\* After finish_work_before_quiting returns nothing is stored, nothing is sent
\* and no handler starts.
QuietAfterJoin ==
    [][(main \in {"joined", "deleted", "done"}) =>
          UNCHANGED <<dbVars, acks, outbox, cur>>]_vars

\* A server that could not start, because of its arguments, its files, the
\* database or the port, never served anybody: no peer found it listening and
\* nothing was stored.
FailedStartServesNobody ==
    outcome \in {"exit1", "terminated"} =>
        /\ \A c \in Conns : conn[c] = "idle"
        /\ table = << >> /\ ops = {} /\ ~ accepting

-----------------------------------------------------------------------------
(* The server implements Collector.  The report in hand is that of the     *)
(* handler inside write_to_db, done when its INSERT has ended; the         *)
(* collector is closed when service_thread was joined or the process       *)
(* ended without that.                                                     *)

Abstract == INSTANCE Collector WITH
    Keys  <- ConfiguredKeys,
    phase <- IF main \in {"joined", "deleted", "done"} \/ svc = "crashed"
             THEN "closed" ELSE "open",
    job   <- IF cur = NoConn THEN << >>
             ELSE [conn |-> cur, row |-> generate_insert_str_for(c_detail),
                   done |-> txns = {}]

\* Every step of every thread is a step of Collector or changes nothing there.
ImplementsCollector == Abstract!Spec

\* And a report in hand is acknowledged, whatever main does meanwhile.
ImplementsFairCollector == Abstract!FairSpec

-----------------------------------------------------------------------------
(* The invariant that the safety properties above follow from by           *)
(* induction.  Its parts add what each of them needs of its neighbours.    *)

\* The only INSERT in execution is that of the handler that waits for it; the
\* database handle is there while main starts, serves and joins; service_thread
\* has left run() once it was joined; sessions and the accept loop exist only
\* together with the acceptor.
LifetimeInv ==
    /\ SafeLifetimes /\ SingleTransaction
    /\ \A t \in txns : t.conn = cur
    /\ main \in {"service", "server", "waiting", "spinning", "joining", "joined"}
          => db_handle = "open"
    /\ main \in {"joined", "deleted"} => svc = "exited"
    /\ main = "done" => outcome # "running"
    /\ ops # {} \/ accepting => Listening

\* A connection that waits in the backlog, or that no peer has opened, has no
\* session.
SessionInv ==
    /\ OneOperation
    /\ cur \notin backlog
    /\ \A c \in Conns :
          conn[c] = "idle" => c \notin backlog /\ c # cur /\ OpsOf(c) = {}

\* The key of the report in the running handler was found in the map, so that
\* operator[] finds it too.
ConfigInv ==
    /\ OnlyConfiguredStored
    /\ cur # NoConn => c_detail.client_key \in DOMAIN authorized_clients
    /\ \A t \in txns : t.row.CLIENT_KEY \in ConfiguredKeys

\* The three parts together: main, service thread, INSERT threads and peers may
\* interleave in any order without leaving it.
SafetyInv == LifetimeInv /\ SessionInv /\ ConfigInv

\* Before the acceptor exists, and when it never came to exist, nobody is
\* connected and the service thread has nothing to do.
StartInv ==
    /\ outcome # "running" => main = "done"
    /\ main \in {"start", "db", "service", "server"}
          \/ outcome \in {"exit1", "terminated"} =>
       /\ \A c \in Conns : conn[c] = "idle"
       /\ table = << >> /\ txns = {} /\ cur = NoConn /\ ops = {} /\ ~ accepting

\* READ_FAILURE is written only to connections whose peer is gone, and a success
\* that a peer receives was counted.
ReplyInv ==
    \A c \in Conns : \A i \in DOMAIN outbox[c] :
        /\ outbox[c][i] # READ_FAILURE
        /\ outbox[c][i] = READ_SUCCESS => acks[c] >= 1

\* The INSERT in execution stores the report that the handler waits with.
JobInv == \A t \in txns : t.row = generate_insert_str_for(c_detail)

(* Where lines arrive whole, the data that waits on a connection is one    *)
(* line, and a line is waiting, in hand, or answered: each of them once.   *)

\* A read gives what was sent, and data_ has room for every line.
WholeLines ==
    /\ "split" \notin Faults
    /\ \A r \in Reports : Len(LineOf(r)) <= MaxLength

\* The lines carry what they are made for: keys without the delimiter, and ints.
CleanReports ==
    \A r \in Reports :
        /\ ~ Contains(r.key, Bar)
        /\ {r.memory, r.cpu, r.processes} \subseteq (-(IntMax + 1))..IntMax

\* The lines of a connection that wait to be read, and those in the handler.
Waiting(c) == IF inbox[c] = << >> THEN 0 ELSE 1
InHand(c)  == IF c = cur THEN 1 ELSE 0

LineInv ==
    \A c \in Conns :
        /\ inbox[c] # << >> => \E r \in Reports : inbox[c] = LineOf(r)
        /\ Len(outbox[c]) + Waiting(c) + InHand(c) <= sent[c]
        /\ acks[c] + Waiting(c) + InHand(c) <= sent[c]

\* The row of the INSERT in execution is that of a report, or it is refused.
ContentInv ==
    /\ RowsAreReports
    /\ \A t \in txns :
          FitsColumns(t.row) => \E r \in Reports : t.row = ReportedRow(r)

-----------------------------------------------------------------------------
\* Entering quit ends the process once the running handler and its INSERT end.
ShutdownCompletes == main = "joining" ~> ~ Running

\* A report is answered while the server runs and the peer waits.
ReportsAnswered ==
    \A c \in Conns :
        sent[c] > Len(outbox[c]) /\ conn[c] = "open"
            ~> Len(outbox[c]) >= sent[c] \/ conn[c] # "open" \/ stopped \/ ~ Running

\* The session of a peer that closed its socket ends: the failure replies it
\* writes to that peer come to an error.
SessionsEnd ==
    \A c \in Conns :
        conn[c] = "closed"
            ~> (c \notin backlog /\ c # cur /\ OpsOf(c) = {}) \/ stopped \/ ~ Running

\* server_main.cpp: "Each client connection is designed to run on a separate
\* thread."  Data that waits on one connection is read whatever the others do.
ConnectionsIndependent ==
    \A c \in Conns :
        Reading(c) \in ops /\ inbox[c] # << >>
            ~> Reading(c) \notin ops \/ stopped \/ ~ Running

\* sys_info_server_session.cpp: "If authorized, insert into DB".  An accepted
\* report is in the table when its reply is written.
AckedIsStored ==
    \A c \in Conns : acks[c] <= Cardinality(RowsOf(c))
=============================================================================
