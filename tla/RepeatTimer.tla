---------------------------- MODULE RepeatTimer -----------------------------
(***************************************************************************)
(* repeat_timer: a deadline_timer on an io_service of its own that runs    *)
(* the user's work, looks at the stop flag, and arms itself again.  Time   *)
(* passes in ticks; the deadline is kept relative to the present.          *)
(***************************************************************************)
EXTENDS Integers

CONSTANTS
    Interval,  \* the repeat interval in ticks
    MaxLag     \* bound: ticks a deadline may be overdue

ASSUME TimerAssumption ==
    /\ Interval \in Nat \ {0}
    /\ MaxLag \in Nat

VARIABLES
    timer,  \* "none", "armed" (async_wait outstanding), "working" (in
            \* repeat_work), "worked" (repeat_work returned), "done"
    stop,   \* the atomic flag shared with the owner
    due,    \* timer.expires_at() minus the present time
    beat,   \* history: ticks since the timer was made, modulo Interval
    owed,   \* history: intervals elapsed minus reports begun
    late    \* history: reports begun after stop was set

clockVars == <<due, beat, owed>>
timerVars == <<timer, stop, clockVars, late>>

TimerInit ==
    /\ timer = "none" /\ stop = FALSE
    /\ due = 0 /\ beat = 0 /\ owed = 0 /\ late = 0

TimerTypeOK ==
    /\ timer \in {"none", "armed", "working", "worked", "done"}
    /\ stop \in BOOLEAN
    /\ due \in Int /\ beat \in 0..(Interval - 1) /\ owed \in Int /\ late \in Nat

-----------------------------------------------------------------------------
\* The constructor sets the first deadline; start_timer waits for it and runs
\* the io_service.
start_timer ==
    /\ timer = "none"
    /\ timer' = "armed"
    /\ due' = Interval
    /\ UNCHANGED <<stop, beat, owed, late>>

\* The wait completes and work() calls repeat_work.
BeginWork ==
    /\ timer = "armed" /\ due <= 0
    /\ timer' = "working"
    /\ owed' = owed - 1
    /\ late' = IF stop THEN late + 1 ELSE late
    /\ UNCHANGED <<stop, due, beat>>

\* Mutant of Repeat: expires_from_now() and not expires_at().
RepeatFromNow ==
    /\ timer = "worked"
    /\ \/ ~ stop /\ due' = Interval /\ timer' = "armed"
       \/ stop /\ timer' = "done" /\ UNCHANGED due
    /\ UNCHANGED <<stop, beat, owed, late>>

\* Mutant of Repeat: the stop flag is not read.
RepeatForever ==
    /\ timer = "worked"
    /\ due' = due + Interval /\ timer' = "armed"
    /\ UNCHANGED <<stop, beat, owed, late>>

\* repeat_work returned: arm the timer one interval after the last deadline,
\* or leave the io_service without work, so that run() returns.
Repeat ==
    /\ timer = "worked"
    /\ \/ /\ ~ stop
          /\ due' = due + Interval
          /\ timer' = "armed"
       \/ /\ stop
          /\ timer' = "done"
          /\ UNCHANGED due
    /\ UNCHANGED <<stop, beat, owed, late>>

\* External: time passes while the timer exists.
Tick ==
    /\ timer \in {"armed", "working", "worked"}
    /\ due > - MaxLag
    /\ due' = due - 1
    /\ beat' = IF beat + 1 = Interval THEN 0 ELSE beat + 1
    /\ owed' = IF beat' = 0 THEN owed + 1 ELSE owed
    /\ UNCHANGED <<timer, stop, late>>
=============================================================================
