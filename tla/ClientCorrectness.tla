------------------------- MODULE ClientCorrectness --------------------------
(***************************************************************************)
(* What makes the client process of SysInfoClient correct.                 *)
(***************************************************************************)
EXTENDS SysInfoClient

\* Every variable has its type.
TypeOK ==
    /\ main \in {"start", "waiting", "spinning", "getting", "done"}
    /\ outcome \in {"running", "exit0", "exit1"}
    /\ task \in {"none", "scheduled", "deferred", "running", "returned", "threw"}
    /\ call \in {"none", "connect", "write", "read"}
    /\ socket \in {"closed", "open"}
    /\ reply \in Replies \cup {"none"}
    /\ TimerTypeOK

\* stop_client and the logger, which the task holds by reference, live until
\* the task has ended, on its own thread or deferred into get(), and main
\* returns 1 exactly when the task threw.
TaskEndsBeforeMain ==
    outcome # "running" =>
        /\ task \in {"none", "returned", "threw"}
        /\ timer \in {"none", "done"} /\ socket = "closed"
        /\ outcome = "exit0" <=> task = "returned"

\* The work of the timer is closed off: while the timer waits, and after an
\* exception, no connection to the server is left open.
NoConnectionBetweenReports == socket = "open" => timer = "working"

\* Deadlines do not drift: the next one is a whole number of intervals from the
\* first however long the reports take, none is early, and those that a slow
\* report missed are caught up one by one.
ScheduleKept ==
    /\ timer = "armed" => due = Interval * (1 - owed) - beat
    /\ timer \in {"working", "worked"} => due = - Interval * owed - beat
    /\ owed >= 0

\* Once stop is set, by the user or by an unauthorized reply, at most one more
\* report begins: the flag is read only after the work.
AtMostOneLateReport == late <= 1

-----------------------------------------------------------------------------
(* The invariant that these properties follow from by induction.           *)

\* The stages of the timer, the task, the request and the main thread fit
\* together, and a report begun after stop is the last.
ClientInv ==
    /\ TaskEndsBeforeMain /\ NoConnectionBetweenReports
    /\ ScheduleKept /\ AtMostOneLateReport
    /\ timer = "none" <=> task \in {"none", "scheduled", "deferred"}
    /\ timer = "done" <=> task \in {"returned", "threw"}
    /\ timer = "none" => due = 0 /\ owed = 0 /\ beat = 0
    /\ call # "none" <=> timer = "working"
    /\ task = "none" => main \in {"start", "done"}
    /\ main = "start" => task = "none"
    /\ late # 0 => stop /\ timer \notin {"none", "armed"}
    /\ main = "done" <=> outcome # "running"

-----------------------------------------------------------------------------
\* Entering quit ends the client, after at most one more interval and report.
QuitEndsClient == main = "getting" ~> outcome # "running"

\* client_main.cpp: "Not Authorized. Log error and message the client to stop."
UnauthorizedStops == timer = "worked" /\ reply = "2" => stop

\* client_main.cpp: "The timer runs indefintely until cancelled by the user."
\* The task is over only when the user quit or the server refused the key.
RunsUntilCancelled ==
    task \in {"returned", "threw"} => main \notin {"waiting", "spinning"} \/ reply = "2"
=============================================================================
