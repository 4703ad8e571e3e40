----------------------------- MODULE ServerMain -----------------------------
(***************************************************************************)
(* The server process: the main thread of server_main.cpp with             *)
(* server_service, composed with the threads of SysInfoServer and with     *)
(* the peers of TcpPeers.                                                  *)
(***************************************************************************)
EXTENDS SysInfoServer

VARIABLES
    main,       \* the next step of the main thread
    outcome,    \* "running", or how the main thread ended the process
    db_handle   \* "none", "open" or "deleted"

mainVars == <<main, outcome, db_handle>>
vars     == <<mainVars, srvVars, tcpVars>>

Init ==
    /\ main = "start" /\ outcome = "running" /\ db_handle = "none"
    /\ ServerInit
    /\ TcpInit

\* The process exists.
Running == outcome = "running" /\ svc # "crashed"

\* Mutant of Listening: the acceptor is constructed before the service starts.
ListenEarly == main \in {"service", "server", "waiting", "spinning", "joining",
                         "joined", "deleted"}

\* The acceptor exists, so the kernel completes connections.
Listening == main \in {"waiting", "spinning", "joining", "joined", "deleted"}

-----------------------------------------------------------------------------
MainStep(from, to) == main = from /\ main' = to

LoadConfig ==
    /\ MainStep("start", "db")
    /\ \E xml \in ConfigFiles :
          /\ ~ ConfigThrows(xml)
          /\ authorized_clients' = get_authorized_clients_and_details(xml)
    /\ UNCHANGED <<outcome, db_handle, asioVars, acks, dbVars, tcpVars>>

ConnectDb ==
    /\ MainStep("db", "service")
    /\ db_handle' = "open"
    /\ UNCHANGED <<outcome, srvVars, tcpVars>>

\* An early return, or an exception caught in main; no thread was started yet.
StartupFails ==
    /\ \/ MainStep("start", "done") /\ "args" \in Faults
       \/ MainStep("start", "done") /\ \E xml \in ConfigFiles : ConfigThrows(xml)
       \/ MainStep("db", "done") /\ "dbdown" \in Faults
    /\ outcome' = "exit1"
    /\ UNCHANGED <<db_handle, srvVars, tcpVars>>

start ==
    /\ MainStep("service", "server")
    /\ svc' = "run"
    /\ UNCHANGED <<outcome, db_handle, stopped, cur, c_detail, accepting, ops,
                   authorized_clients, acks, dbVars, tcpVars>>

start_server ==
    /\ MainStep("server", "waiting")
    /\ accepting' = TRUE
    /\ UNCHANGED <<outcome, db_handle, svc, stopped, cur, c_detail, ops,
                   authorized_clients, acks, dbVars, tcpVars>>

\* The unwinding destroys the joinable service_thread: std::terminate.
StartServerThrows ==
    /\ "bind" \in Faults
    /\ MainStep("server", "done")
    /\ outcome' = "terminated"
    /\ UNCHANGED <<db_handle, srvVars, tcpVars>>

\* Mutant of UserQuits: stop() is not called.
QuitWithoutStop ==
    /\ MainStep("waiting", "joining")
    /\ UNCHANGED <<outcome, db_handle, srvVars, tcpVars>>

\* The user enters quit, and stop() stops the io_service.
UserQuits ==
    /\ MainStep("waiting", "joining")
    /\ stopped' = TRUE
    /\ UNCHANGED <<outcome, db_handle, svc, cur, c_detail, accepting, ops,
                   authorized_clients, acks, dbVars, tcpVars>>

\* At end of file getline leaves user_input empty and the loop never ends.
ConsoleEof ==
    /\ "eof" \in Faults
    /\ MainStep("waiting", "spinning")
    /\ UNCHANGED <<outcome, db_handle, srvVars, tcpVars>>

\* Mutant of finish_work_before_quiting: service_thread is detached, not joined.
DetachService ==
    /\ MainStep("joining", "joined")
    /\ UNCHANGED <<outcome, db_handle, srvVars, tcpVars>>

finish_work_before_quiting ==
    /\ svc = "exited"
    /\ MainStep("joining", "joined")
    /\ UNCHANGED <<outcome, db_handle, srvVars, tcpVars>>

DeleteDb ==
    /\ MainStep("joined", "deleted")
    /\ db_handle' = "deleted"
    /\ UNCHANGED <<outcome, srvVars, tcpVars>>

\* Mutant of LeaveScope: the io_service, and its sessions, outlive the acceptor.
LeaveSessions ==
    /\ MainStep("deleted", "done")
    /\ outcome' = "exit0"
    /\ accepting' = FALSE
    /\ UNCHANGED <<db_handle, svc, stopped, cur, c_detail, ops, authorized_clients,
                   acks, dbVars, tcpVars>>

\* s_service goes out of scope: the server, then the io_service with every
\* outstanding operation and the sessions those keep alive.
LeaveScope ==
    /\ MainStep("deleted", "done")
    /\ outcome' = "exit0"
    /\ accepting' = FALSE /\ ops' = {}
    /\ UNCHANGED <<db_handle, svc, stopped, cur, c_detail, authorized_clients,
                   acks, dbVars, tcpVars>>

-----------------------------------------------------------------------------
MainNext ==
    /\ Running
    /\ \/ LoadConfig \/ ConnectDb \/ StartupFails \/ start
       \/ start_server \/ StartServerThrows
       \/ finish_work_before_quiting \/ DeleteDb \/ LeaveScope

Console == Running /\ (UserQuits \/ ConsoleEof)

\* A step of another thread of the process.
Thread(A) == Running /\ A /\ UNCHANGED mainVars

\* TCP delivers the RST of a peer that closed.
NetNext ==
    /\ Running
    /\ \E c \in Conns : ResetArrives(c)
    /\ UNCHANGED <<mainVars, srvVars>>

PeerNext ==
    /\ Running
    /\ \E c \in Conns :
          \/ Listening /\ PeerConnect(c)
          \/ \E r \in Reports : PeerSend(c, r)
          \/ PeerClose(c)
    /\ UNCHANGED <<mainVars, srvVars>>

\* The wait loop spins at end of file, and an ended process stays ended.
Idle ==
    /\ main = "spinning" \/ ~ Running
    /\ UNCHANGED vars

Next ==
    \/ MainNext \/ Console
    \/ Thread(ServiceNext) \/ Thread(DbNext)
    \/ NetNext \/ PeerNext \/ Idle

Spec == Init /\ [][Next]_vars

(***************************************************************************)
(* The scheduler runs every thread.  Completed operations wait in the      *)
(* io_service's FIFO queue, so each is run if the service thread keeps     *)
(* returning to the queue: strong fairness per connection.  TCP delivers   *)
(* RST.  Whether the database answers is a separate assumption.  Nothing   *)
(* obliges the user to quit or a peer to act.                              *)
(***************************************************************************)
ThreadFairness ==
    /\ WF_vars(MainNext)
    /\ WF_vars(Thread(FinishReport \/ ServiceReturns))
    /\ \A c \in Conns : SF_vars(Thread(HandlerOf(c)))
    /\ WF_vars(NetNext)

FairSpec == Spec /\ ThreadFairness /\ WF_vars(Thread(DbNext))

\* The same threads with a database that may never answer.
SlowDbSpec == Spec /\ ThreadFairness
=============================================================================
