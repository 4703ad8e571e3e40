--------------------------- MODULE SysInfoSystem ----------------------------
(***************************************************************************)
(* A client process and the server process, joined at the socket: what the *)
(* client connects, writes and closes is what the server accepts and       *)
(* reads, and the byte the client reads is the one the server wrote.       *)
(* Every report has a connection of its own, so that the session of one    *)
(* report may still be winding down while the next one is served.          *)
(***************************************************************************)
EXTENDS ServerCorrectness

CONSTANTS
    ClientKeys,    \* the keys it may be started with
    ClientFaults,  \* what may go wrong in it besides its sockets
    Interval, MaxLag

VARIABLES
    cmain, coutcome, task, call, socket, reply,  \* see SysInfoClient
    timer, stop, due, beat, owed, late,          \* see RepeatTimer
    client_key,  \* the client's key, from its command line
    link         \* the connection of the present or last request, or NoConn

Client == INSTANCE SysInfoClient WITH
    main <- cmain, outcome <- coutcome, Faults <- ClientFaults

\* What the client process assumes of its constants.
ASSUME SystemAssumption ==
    /\ Interval \in Nat \ {0}
    /\ MaxLag \in Nat
    /\ ClientFaults \subseteq Client!AllFaults

clientSide == <<cmain, coutcome, task, call, socket, reply,
                timer, stop, due, beat, owed, late, client_key, link>>
sysVars    == <<vars, clientSide>>

SysInit ==
    /\ Init /\ Client!Init
    /\ client_key \in ClientKeys /\ link = NoConn

-----------------------------------------------------------------------------
(* The calls on the socket.  The end of the server process closes its      *)
(* sockets and refuses connections.                                        *)

serverSide == <<mainVars, srvVars>>

Connect(c) ==
    /\ Client!connect
    /\ Running /\ Listening /\ PeerConnect(c)
    /\ link' = c
    /\ UNCHANGED <<serverSide, client_key>>

Write ==
    /\ Client!write
    /\ \E r \in Reports : r.key = client_key /\ PeerSend(link, r)
    /\ UNCHANGED <<serverSide, client_key, link>>

\* The reply is the first byte of the connection; the closure then closes it.
Read ==
    /\ Client!read
    /\ outbox[link] # << >> /\ reply' = Head(outbox[link])
    /\ PeerClose(link)
    /\ UNCHANGED <<serverSide, client_key, link>>

\* connect throws when nobody listens or Conns is used up (a bound), write and
\* read when the server process is gone and left no reply.  The closure closes
\* the socket.
Throw ==
    /\ Client!RequestThrows
    /\ \/ /\ call = "connect"
          /\ ~ (Running /\ Listening) \/ \A c \in Conns : conn[c] # "idle"
          /\ UNCHANGED tcpVars
       \/ /\ call \in {"write", "read"} /\ ~ Running /\ outbox[link] = << >>
          /\ PeerClose(link)
    /\ UNCHANGED <<serverSide, client_key, link>>

\* The steps of the client's task that leave the socket alone.
TaskAlone ==
    /\ Client!BeginTask \/ Client!BeginRequest \/ Client!RepeatOrEnd
    /\ UNCHANGED <<vars, client_key, link>>

ClientTask == (\E c \in Conns : Connect(c)) \/ Write \/ Read \/ Throw \/ TaskAlone

ClientMain == Client!MainNext /\ UNCHANGED <<vars, client_key, link>>

ClientConsole == Client!Console /\ UNCHANGED <<vars, client_key, link>>

ClientClock == Client!Clock /\ UNCHANGED <<vars, client_key, link>>

-----------------------------------------------------------------------------
ServerStep(A) == A /\ UNCHANGED clientSide

\* Both processes have come to rest.
Rest ==
    /\ ~ Running \/ main \in {"waiting", "spinning"}
    /\ \/ cmain \in {"done", "spinning"}
       \/ cmain = "waiting" /\ task \in {"returned", "threw", "deferred"}
    /\ UNCHANGED sysVars

SysNext ==
    \/ ClientTask \/ ClientMain \/ ClientConsole \/ ClientClock
    \/ ServerStep(MainNext \/ Console)
    \/ ServerStep(Thread(ServiceNext) \/ Thread(DbNext) \/ NetNext)
    \/ Rest

SysSpec == SysInit /\ [][SysNext]_sysVars

(***************************************************************************)
(* The fairness of both processes.  Nothing is assumed of the client's     *)
(* socket calls: that they end follows from the server.                    *)
(***************************************************************************)
SysFairSpec ==
    /\ SysSpec
    /\ WF_sysVars(ServerStep(MainNext))
    /\ WF_sysVars(ServerStep(Thread(FinishReport \/ ServiceReturns)))
    /\ \A c \in Conns : SF_sysVars(ServerStep(Thread(HandlerOf(c))))
    /\ WF_sysVars(ServerStep(NetNext)) /\ WF_sysVars(ServerStep(Thread(DbNext)))
    /\ WF_sysVars(ClientTask) /\ WF_sysVars(ClientMain) /\ WF_sysVars(ClientClock)

-----------------------------------------------------------------------------
\* The client is between the reply to a report and the next report.
Answered == timer = "worked"

\* A report the client takes for delivered was handed to the database exactly
\* once, under the client's key.  (It may be lost there, see AckedIsStored.)
DeliveredOnce ==
    Answered /\ reply = READ_SUCCESS =>
        /\ Cardinality(RowsOf(link)) + lost[link] = 1
        /\ \A i \in RowsOf(link) : table[i].row.CLIENT_KEY = client_key

\* A client whose report was refused left nothing in the table, and a client that
\* is configured is never refused.
RefusedLeavesNothing ==
    Answered /\ reply = NOT_AUTHORIZED =>
        /\ \A i \in DOMAIN table : table[i].row.CLIENT_KEY # client_key
        /\ client_key \notin ConfiguredKeys

\* READ_FAILURE never reaches the client: the server writes it only to peers that
\* are gone, so the client's branch for a failed read is never taken.
FailureIsNeverSeen == reply # READ_FAILURE

\* A report leaves at most one row, and rows are in the order of the reports,
\* whether or not the client lived to read the replies: it sends a report only
\* when the one before was answered, and a report that threw is not repeated.
RowsInOrder ==
    /\ \A i \in DOMAIN table : table[i].conn = link => i = Len(table)
    /\ \A c \in Conns : Cardinality(RowsOf(c)) <= 1

-----------------------------------------------------------------------------
(* The invariant that the properties above follow from by induction, with  *)
(* those of the server: LineInv where lines arrive whole.                  *)

\* The process reads one configuration file.
OneFile == \E xml : ConfigFiles = {xml}

\* A connection is the client's for one report.  It is left behind only when its
\* report was answered, unless the client ends, and what the client takes for the
\* reply is the first byte that the server wrote to it.
LinkInv ==
    /\ call \in {"none", "connect", "write", "read"}
    /\ call # "none" => timer = "working"
    /\ link \in Conns \cup {NoConn}
    /\ call \in {"write", "read"} => link # NoConn
    /\ link # NoConn => conn[link] # "idle"
    /\ call = "write" => sent[link] = 0
    /\ \A c \in Conns :
          /\ sent[c] <= 1
          /\ conn[c] = "idle" => sent[c] = 0
          /\ c # link => sent[c] = 0 \/ outbox[c] # << >>
    /\ call \in {"none", "connect"} /\ timer # "done" /\ link # NoConn
          => outbox[link] # << >>
    /\ Answered => link # NoConn /\ reply = outbox[link][1]

\* All there is, on its way or stored, was reported by the client.
KeyInv ==
    /\ \A c \in Conns :
          inbox[c] # << >> =>
              \E r \in Reports : r.key = client_key /\ inbox[c] = LineOf(r)
    /\ \A t \in txns : t.row.CLIENT_KEY = client_key
    /\ \A i \in DOMAIN table : table[i].row.CLIENT_KEY = client_key

\* From the start of the server its map has the keys of the file, and a client is
\* refused only when it is not among them.
RefusalInv ==
    /\ main \notin {"start", "done"} => DOMAIN authorized_clients = ConfiguredKeys
    /\ \A c \in Conns : \A i \in DOMAIN outbox[c] :
          outbox[c][i] = NOT_AUTHORIZED => client_key \notin ConfiguredKeys

-----------------------------------------------------------------------------
\* Entering quit at the client ends it although its calls have no timeout: the
\* server answers, or its end breaks the connection, whatever it was doing.
QuitEndsClientOfServer == cmain = "getting" ~> coutcome # "running"

\* The session of every report ends, although nobody ever closes it in the code:
\* the client closes, and the failure replies to it run into a reset.
SessionsOfReportsEnd ==
    \A c \in Conns :
        Reading(c) \in ops ~> (OpsOf(c) = {} /\ cur # c) \/ stopped \/ ~ Running
=============================================================================
