------------------------------ MODULE TcpPeers ------------------------------
(***************************************************************************)
(* External: the TCP connections as the server's sockets show them, and    *)
(* the peers at their other end.  A peer behaves as sys_info_client and    *)
(* the integration test do: it sends a line and waits for a reply byte     *)
(* before the next one.  It may close its socket, or die, at any time.     *)
(***************************************************************************)
EXTENDS SysInfoUtils

CONSTANTS
    Conns,       \* connections, each established at most once
    Reports,     \* what the peers report: [key, memory, cpu, processes, time]
    MaxSends,    \* bound: lines a peer sends on one connection
    Faults       \* which of AllFaults may happen

AllFaults == {"args",      \* wrong arguments or an unreadable server_config.xml
              "dbdown",    \* bad db_settings.xml or no connection to the database
              "bind",      \* the acceptor cannot be constructed
              "accept",    \* async_accept completes with an error
              "split",     \* TCP delivers part of what was sent
              "dberror",   \* execute() throws
              "deferred",  \* std::async chooses launch::deferred
              "eof"}       \* the console reaches end of file

ASSUME PeersAssumption ==
    /\ MaxSends \in Nat
    /\ Faults \subseteq AllFaults
    /\ \A r \in Reports : r.key \in Seq(Range(r.key))

LineOf(r) ==
    generate_random_sys_info_data(r.key, r.memory, r.cpu, r.processes, r.time)

\* What the peers' lines consist of.
Tokens == UNION {Range(LineOf(r)) : r \in Reports}

\* READ_SUCCESS, READ_FAILURE and NOT_AUTHORIZED of the sessions.
Replies == {"0", "1", "2"}

VARIABLES
    conn,     \* per connection, the peer's side: "idle", "open", "closed", "reset"
    backlog,  \* connections established and not yet accepted
    inbox,    \* per connection, the tokens sent and not yet read
    outbox,   \* per connection, the replies that reach the peer
    rst,      \* closed peers that were written to and will answer with RST
    sent      \* per connection, the number of lines sent

tcpVars == <<conn, backlog, inbox, outbox, rst, sent>>

TcpInit ==
    /\ conn = [c \in Conns |-> "idle"] /\ backlog = {}
    /\ inbox = [c \in Conns |-> << >>] /\ outbox = [c \in Conns |-> << >>]
    /\ rst = {} /\ sent = [c \in Conns |-> 0]

TcpTypeOK ==
    /\ conn \in [Conns -> {"idle", "open", "closed", "reset"}]
    /\ backlog \subseteq Conns /\ rst \subseteq Conns
    /\ inbox \in [Conns -> Seq(Tokens)] /\ outbox \in [Conns -> Seq(Replies)]
    /\ sent \in [Conns -> Nat]

PeerConnect(c) ==
    /\ conn[c] = "idle"
    /\ conn' = [conn EXCEPT ![c] = "open"]
    /\ backlog' = backlog \cup {c}
    /\ UNCHANGED <<inbox, outbox, rst, sent>>

\* The next line goes out when every earlier one has its reply.
PeerSend(c, r) ==
    /\ conn[c] = "open"
    /\ sent[c] < MaxSends /\ Len(outbox[c]) >= sent[c]
    /\ inbox' = [inbox EXCEPT ![c] = @ \o LineOf(r)]
    /\ sent' = [sent EXCEPT ![c] = @ + 1]
    /\ UNCHANGED <<conn, backlog, outbox, rst>>

PeerClose(c) ==
    /\ conn[c] = "open"
    /\ conn' = [conn EXCEPT ![c] = "closed"]
    /\ UNCHANGED <<backlog, inbox, outbox, rst, sent>>

ResetArrives(c) ==
    /\ conn[c] = "closed" /\ c \in rst
    /\ conn' = [conn EXCEPT ![c] = "reset"]
    /\ rst' = rst \ {c}
    /\ UNCHANGED <<backlog, inbox, outbox, sent>>

-----------------------------------------------------------------------------
(* What the server's socket calls do.  What was received stays readable    *)
(* after the peer closed; then a read fails.  One byte is sent at once; it *)
(* fails on a reset connection, and a peer that closed answers with RST.   *)

ReadSizes(c, length) ==
    LET most == Min({Len(inbox[c]), length})
    IN  IF "split" \in Faults THEN 1..most ELSE {most}

Receive(c, n) ==
    /\ inbox[c] # << >>
    /\ inbox' = [inbox EXCEPT ![c] = SubSeq(@, n + 1, Len(@))]

ReadFails(c) == inbox[c] = << >> /\ conn[c] \in {"closed", "reset"}

WriteFails(c) == conn[c] = "reset"

Transmit(c, reply) ==
    /\ outbox' = IF conn[c] = "open"
                 THEN [outbox EXCEPT ![c] = Append(@, reply)] ELSE outbox
    /\ rst' = IF conn[c] = "closed" THEN rst \cup {c} ELSE rst
=============================================================================
