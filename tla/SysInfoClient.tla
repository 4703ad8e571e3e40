--------------------------- MODULE SysInfoClient ----------------------------
(***************************************************************************)
(* The client process: the main thread of client_main.cpp, the task it     *)
(* starts with std::async, the repeat_timer in that task, and the request  *)
(* that is the timer's work.  The server and the network are external: a   *)
(* call on the socket succeeds or throws, and a read gives a reply byte.   *)
(***************************************************************************)
EXTENDS RepeatTimer

CONSTANT Faults      \* which of AllFaults may happen

AllFaults == {"args",      \* wrong number of arguments
              "deferred",  \* std::async chooses launch::deferred
              "eof",       \* the console reaches end of file
              "connect",   \* resolving or connecting throws
              "write",     \* writing throws
              "read"}      \* the server closes before it replies

ASSUME ClientAssumption == Faults \subseteq AllFaults

VARIABLES
    main,     \* the next step of the main thread
    outcome,  \* "running", or how main ended
    task,     \* async_client_task: "none", "scheduled", "deferred", "running",
              \* "returned", "threw"
    call,     \* the next call of the request's closure, or "none"
    socket,   \* the socket of client_request: "closed" or "open"
    reply     \* reply[0] of the present or last request

clientVars == <<main, outcome, task, call, socket, reply>>
vars       == <<clientVars, timerVars>>

Replies == {"0", "1", "2"}

Init ==
    /\ main = "start" /\ outcome = "running" /\ task = "none"
    /\ call = "none" /\ socket = "closed" /\ reply = "none"
    /\ TimerInit

-----------------------------------------------------------------------------
(* The main thread.                                                        *)

MainStep(from, to) == main = from /\ main' = to

UsageError ==
    /\ "args" \in Faults
    /\ MainStep("start", "done")
    /\ outcome' = "exit1"
    /\ UNCHANGED <<task, call, socket, reply, timerVars>>

StartTask ==
    /\ MainStep("start", "waiting")
    /\ task' \in {"scheduled"} \cup ({"deferred"} \cap Faults)
    /\ UNCHANGED <<outcome, call, socket, reply, timerVars>>

\* Mutant of UserQuits: stop_client is not set.
QuitWithoutStop ==
    /\ MainStep("waiting", "getting")
    /\ UNCHANGED <<outcome, task, call, socket, reply, timerVars>>

\* The user enters quit, and main sets stop_client.
UserQuits ==
    /\ MainStep("waiting", "getting")
    /\ stop' = TRUE
    /\ UNCHANGED <<outcome, task, call, socket, reply, timer, clockVars, late>>

\* At end of file getline leaves user_input empty and the loop never ends.
ConsoleEof ==
    /\ "eof" \in Faults
    /\ MainStep("waiting", "spinning")
    /\ UNCHANGED <<outcome, task, call, socket, reply, timerVars>>

\* Mutant of Get: main does not wait for the task.
GetWithoutWaiting ==
    /\ MainStep("getting", "done")
    /\ outcome' = "exit0"
    /\ UNCHANGED <<task, call, socket, reply, timerVars>>

\* get() waits for the task and rethrows what it threw.
Get ==
    /\ task \in {"returned", "threw"}
    /\ MainStep("getting", "done")
    /\ outcome' = IF task = "returned" THEN "exit0" ELSE "exit1"
    /\ UNCHANGED <<task, call, socket, reply, timerVars>>

-----------------------------------------------------------------------------
(* The task: on its own thread, or if deferred inside get().               *)

BeginTask ==
    /\ task = "scheduled" \/ (task = "deferred" /\ main = "getting")
    /\ task' = "running"
    /\ start_timer
    /\ UNCHANGED <<main, outcome, call, socket, reply>>

BeginRequest ==
    /\ BeginWork
    /\ call' = "connect" /\ reply' = "none"
    /\ UNCHANGED <<main, outcome, task, socket>>

\* An exception leaves the closure, which closes the socket, then run() and
\* the task; the future keeps it.
RequestThrows ==
    /\ call \in Faults
    /\ call' = "none" /\ socket' = "closed"
    /\ timer' = "done" /\ task' = "threw"
    /\ UNCHANGED <<main, outcome, reply, stop, clockVars, late>>

connect ==
    /\ call = "connect"
    /\ call' = "write" /\ socket' = "open"
    /\ UNCHANGED <<main, outcome, task, reply, timerVars>>

write ==
    /\ call = "write"
    /\ call' = "read"
    /\ UNCHANGED <<main, outcome, task, socket, reply, timerVars>>

\* Mutant of read: read_some may return without a byte.
ReadNothing ==
    /\ call = "read"
    /\ reply' \in Replies \cup {"junk"}
    /\ stop' = (stop \/ reply' = "2")
    /\ call' = "none" /\ socket' = "closed" /\ timer' = "worked"
    /\ UNCHANGED <<main, outcome, task, clockVars, late>>

\* Mutant of read: the request is not destroyed when the closure returns.
ReadLeavesOpen ==
    /\ call = "read"
    /\ reply' \in Replies
    /\ stop' = (stop \/ reply' = "2")
    /\ call' = "none" /\ timer' = "worked"
    /\ UNCHANGED <<main, outcome, task, socket, clockVars, late>>

\* strcmp on a buffer of which only reply[0] was written: whether the text ends
\* after that byte depends on uninitialized memory.
read ==
    /\ call = "read"
    /\ reply' \in Replies
    /\ \E terminated \in BOOLEAN :
          stop' = (stop \/ (terminated /\ reply' = "2"))
    /\ call' = "none" /\ socket' = "closed"
    /\ timer' = "worked"
    /\ UNCHANGED <<main, outcome, task, clockVars, late>>

RepeatOrEnd ==
    /\ Repeat
    /\ task' = IF timer' = "done" THEN "returned" ELSE task
    /\ UNCHANGED <<main, outcome, call, socket, reply>>

-----------------------------------------------------------------------------
MainNext == UsageError \/ StartTask \/ Get

Console == UserQuits \/ ConsoleEof

TaskNext ==
    \/ BeginTask \/ BeginRequest \/ RequestThrows
    \/ connect \/ write \/ read \/ RepeatOrEnd

Clock == Tick /\ UNCHANGED clientVars

\* The wait loop spins at end of file; a process that ended stays ended; a
\* user may never quit after the task has ended.
Idle ==
    /\ \/ main \in {"spinning", "done"}
       \/ main = "waiting" /\ task \in {"deferred", "returned", "threw"}
    /\ UNCHANGED vars

Next == MainNext \/ Console \/ TaskNext \/ Clock \/ Idle

Spec == Init /\ [][Next]_vars

(***************************************************************************)
(* The scheduler runs both threads, time passes, and a call on the socket  *)
(* comes to an end: the server replies or the connection breaks.           *)
(***************************************************************************)
FairSpec == Spec /\ WF_vars(MainNext) /\ WF_vars(TaskNext) /\ WF_vars(Clock)
=============================================================================
