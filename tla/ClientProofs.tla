---------------------------- MODULE ClientProofs ----------------------------
(***************************************************************************)
(* The safety of the client process, for every interval and every lag.     *)
(***************************************************************************)
EXTENDS ClientCorrectness, TLAPS

\* A deadline that is due was set for an interval that has elapsed: the timer is
\* never early.
LEMMA NeverEarly ==
    ASSUME NEW I \in Nat \ {0}, NEW b \in 0..(I - 1), NEW o \in Int,
           I * (1 - o) - b <= 0
    PROVE  o >= 1
<1> SUFFICES ASSUME o <= 0 PROVE FALSE
  OBVIOUS
<1>1. 1 - o >= 1 /\ 1 - o \in Int
  OBVIOUS
<1>2. \A k \in Int : k >= 1 => I * k >= I
  OBVIOUS
<1>3. I * (1 - o) >= I
  BY <1>1, <1>2
<1> QED  BY <1>3

\* Moving to the next interval moves the deadline by one interval.
LEMMA NextInterval ==
    ASSUME NEW I \in Nat, NEW o \in Int
    PROVE  /\ I * (1 - (o + 1)) = - I * o
           /\ - I * (o - 1) = I * (1 - o)
           /\ - I * o + I = I * (1 - o)
           /\ - I * (o + 1) = - I * o - I
           /\ I * (1 - o) \in Int /\ - I * o \in Int
OBVIOUS

\* Every step of the client keeps the types.
LEMMA TypeStep ==
    ASSUME TypeOK, [Next]_vars
    PROVE  TypeOK'
<1> USE TimerAssumption DEF TypeOK, TimerTypeOK, clockVars, timerVars
<1>1. CASE MainNext
  <2>1. CASE UsageError \/ Get
    BY <2>1 DEF MainStep, UsageError, Get
  <2>2. CASE StartTask
    BY <2>2 DEF MainStep, StartTask
  <2> QED  BY <1>1, <2>1, <2>2 DEF MainNext
<1>2. CASE Console
  <2>1. CASE UserQuits
    BY <2>1 DEF MainStep, UserQuits
  <2>2. CASE ConsoleEof
    BY <2>2 DEF MainStep, ConsoleEof
  <2> QED  BY <1>2, <2>1, <2>2 DEF Console
<1>3. CASE BeginTask \/ BeginRequest
  BY <1>3 DEF BeginTask, start_timer, BeginRequest, BeginWork
<1>4. CASE RequestThrows \/ connect \/ write \/ read
  BY <1>4 DEF RequestThrows, connect, write, read, Replies
<1>5. CASE RepeatOrEnd
  BY <1>5 DEF RepeatOrEnd, Repeat
<1>6. CASE Clock
  BY <1>6 DEF Clock, Tick, clientVars
<1>7. CASE UNCHANGED vars
  BY <1>7 DEF vars, clientVars
<1> QED  BY <1>1, <1>2, <1>3, <1>4, <1>5, <1>6, <1>7 DEF Next, TaskNext, Idle

\* No step moves a deadline off its schedule.
LEMMA ScheduleStep ==
    ASSUME TypeOK, ClientInv, [Next]_vars
    PROVE  ScheduleKept'
<1> USE DEF ScheduleKept
<1>1. ScheduleKept /\ Interval \in Nat \ {0} /\ owed \in Int /\ due \in Int
      /\ beat \in 0..(Interval - 1)
  BY TimerAssumption DEF ClientInv, TypeOK, TimerTypeOK
<1>2. CASE UNCHANGED <<due, beat, owed>> /\ (timer' = timer \/ timer' = "done"
              \/ (timer = "working" /\ timer' = "worked"))
  BY <1>1, <1>2
<1>3. CASE MainNext \/ Console
  BY <1>2, <1>3
     DEF MainNext, Console, UsageError, StartTask, Get, UserQuits, ConsoleEof,
         timerVars, clockVars
<1>4. CASE BeginTask
  <2>1. due' = Interval /\ owed' = 0 /\ beat' = 0 /\ timer' = "armed"
    BY <1>4 DEF BeginTask, start_timer, ClientInv
  <2> QED  BY <1>1, <2>1
<1>5. CASE BeginRequest
  <2>1. due = Interval * (1 - owed) - beat /\ due <= 0
    BY <1>1, <1>5 DEF BeginRequest, BeginWork
  <2>2. owed' = owed - 1 /\ due' = due /\ beat' = beat /\ timer' = "working"
    BY <1>5 DEF BeginRequest, BeginWork
  <2>3. owed >= 1
    BY <1>1, <2>1, NeverEarly
  <2>4. - Interval * (owed - 1) = Interval * (1 - owed)
    BY <1>1, NextInterval
  <2> QED  BY <1>1, <2>1, <2>2, <2>3, <2>4
<1>6. CASE RequestThrows \/ connect \/ write \/ read
  BY <1>2, <1>6
     DEF RequestThrows, connect, write, read, timerVars, clockVars, ClientInv
<1>7. CASE RepeatOrEnd
  <2>1. timer = "worked" /\ owed' = owed /\ beat' = beat
    BY <1>7 DEF RepeatOrEnd, Repeat
  <2>2. CASE timer' = "armed" /\ due' = due + Interval
    <3>1. - Interval * owed + Interval = Interval * (1 - owed)
          /\ Interval * (1 - owed) \in Int /\ - Interval * owed \in Int
      BY <1>1, NextInterval
    <3> QED  BY <1>1, <2>1, <2>2, <3>1
  <2>3. CASE timer' = "done"
    BY <1>1, <2>1, <2>3
  <2> QED  BY <1>7, <2>2, <2>3 DEF RepeatOrEnd, Repeat
<1>8. CASE Clock
  <2>1. due' = due - 1 /\ timer' = timer
    BY <1>8 DEF Clock, Tick
  <2>2. CASE beat + 1 = Interval
    <3>1. beat' = 0 /\ owed' = owed + 1
      BY <1>8, <2>2 DEF Clock, Tick
    <3>2. /\ Interval * (1 - (owed + 1)) = - Interval * owed
          /\ - Interval * (owed + 1) = - Interval * owed - Interval
          /\ - Interval * owed + Interval = Interval * (1 - owed)
          /\ Interval * (1 - owed) \in Int /\ - Interval * owed \in Int
      BY <1>1, NextInterval
    <3> QED  BY <1>1, <2>1, <2>2, <3>1, <3>2
  <2>3. CASE beat + 1 # Interval
    <3>1. beat' = beat + 1 /\ owed' = owed
      BY <1>1, <1>8, <2>3 DEF Clock, Tick
    <3>2. Interval * (1 - owed) \in Int /\ - Interval * owed \in Int
      BY <1>1, NextInterval
    <3> QED  BY <1>1, <2>1, <3>1, <3>2
  <2> QED  BY <2>2, <2>3
<1>9. CASE UNCHANGED vars
  <2>1. UNCHANGED timerVars
    BY <1>9 DEF vars
  <2> QED  BY <1>2, <2>1 DEF timerVars, clockVars
<1> QED  BY <1>3, <1>4, <1>5, <1>6, <1>7, <1>8, <1>9 DEF Next, TaskNext, Idle

\* The rest of ClientInv: how far the threads are.
LEMMA StageStep ==
    ASSUME TypeOK, ClientInv, [Next]_vars, ScheduleKept'
    PROVE  ClientInv'
<1> USE DEF ClientInv, TaskEndsBeforeMain, NoConnectionBetweenReports,
            AtMostOneLateReport, clockVars, timerVars
<1>0. socket \in {"closed", "open"}
  BY DEF TypeOK
<1>1. CASE MainNext
  <2>1. CASE UsageError
    <3>1. /\ main = "start" /\ main' = "done" /\ outcome' = "exit1"
          /\ UNCHANGED <<task, call, socket, timer, due, owed, beat, late, stop>>
      BY <2>1 DEF UsageError, MainStep
    <3>2. task = "none" /\ timer = "none" /\ socket = "closed"
      BY <1>0, <3>1
    <3> QED  BY <3>1, <3>2
  <2>2. CASE StartTask
    <3>1. task' = "scheduled" \/ task' = "deferred"
      BY <2>2 DEF StartTask
    <3>2. /\ main = "start" /\ main' = "waiting"
          /\ UNCHANGED <<outcome, call, socket, timer, due, owed, beat, late, stop>>
      BY <2>2 DEF StartTask, MainStep
    <3>3. timer = "none" /\ outcome = "running"
      BY <3>2
    <3> QED  BY <3>1, <3>2, <3>3
  <2>3. CASE Get
    BY <1>0, <2>3 DEF MainStep, Get
  <2> QED  BY <1>1, <2>1, <2>2, <2>3 DEF MainNext
<1>2. CASE Console
  <2>1. CASE UserQuits
    BY <2>1 DEF MainStep, UserQuits
  <2>2. CASE ConsoleEof
    BY <2>2 DEF MainStep, ConsoleEof
  <2> QED  BY <1>2, <2>1, <2>2 DEF Console
<1>3. CASE BeginTask
  BY <1>3 DEF BeginTask, start_timer
<1>4. CASE BeginRequest
  BY <1>4 DEF BeginRequest, BeginWork, TypeOK, TimerTypeOK
<1>5. CASE RequestThrows
  BY <1>5, ClientAssumption DEF RequestThrows, AllFaults, TypeOK
<1>6. CASE connect \/ write
  BY <1>6 DEF connect, write
<1>7. CASE read
  BY <1>7 DEF read, TypeOK, TimerTypeOK
<1>8. CASE RepeatOrEnd
  BY <1>8 DEF RepeatOrEnd, Repeat, TypeOK
<1>9. CASE Clock
  BY <1>9 DEF Clock, Tick, clientVars
<1>10. CASE UNCHANGED vars
  <2>1. UNCHANGED clientVars /\ UNCHANGED timerVars
    BY <1>10 DEF vars
  <2> QED  BY <2>1 DEF clientVars
<1> QED  BY <1>1, <1>2, <1>3, <1>4, <1>5, <1>6, <1>7, <1>8, <1>9, <1>10
         DEF Next, TaskNext, Idle

\* Types and ClientInv hold in every behaviour of the client.
LEMMA ClientSafe == Spec => [](TypeOK /\ ClientInv)
<1>1. Init => TypeOK /\ ClientInv
  <2> SUFFICES ASSUME Init PROVE TypeOK /\ ClientInv
    OBVIOUS
  <2>1. TypeOK
    <3>1. due \in Int /\ beat \in 0..(Interval - 1) /\ owed \in Int /\ late \in Nat
      BY TimerAssumption DEF Init, TimerInit
    <3>2. stop \in BOOLEAN
      BY Zenon DEF Init, TimerInit
    <3> QED  BY <3>1, <3>2 DEF Init, TimerInit, TypeOK, TimerTypeOK, Replies
  <2>2. ScheduleKept /\ AtMostOneLateReport /\ late = 0
    BY DEF Init, TimerInit, ScheduleKept, AtMostOneLateReport
  <2>3. ClientInv
    BY <2>2 DEF Init, TimerInit, ClientInv, TaskEndsBeforeMain,
                NoConnectionBetweenReports
  <2> QED  BY <2>1, <2>3
<1>2. TypeOK /\ ClientInv /\ [Next]_vars => (TypeOK /\ ClientInv)'
  BY TypeStep, ScheduleStep, StageStep
<1> QED  BY <1>1, <1>2, PTL DEF Spec

\* Every variable of the client process keeps its type, whatever the interval.
THEOREM ClientTypeCorrect == Spec => []TypeOK
BY ClientSafe, PTL

\* The inductive invariant: timer, task, request and main thread fit together
\* in every interleaving of the user, the clock and the server's answers.
THEOREM StagesFit == Spec => []ClientInv
BY ClientSafe, PTL

\* Reports keep to the timer's schedule for every interval: none early, none
\* dropped, no drift.
THEOREM TimerKeepsSchedule == Spec => []ScheduleKept
<1>1. ClientInv => ScheduleKept
  BY DEF ClientInv
<1> QED  BY <1>1, ClientSafe, PTL

\* At most one report begins after stop was set.
THEOREM StopIsPrompt == Spec => []AtMostOneLateReport
<1>1. ClientInv => AtMostOneLateReport
  BY DEF ClientInv
<1> QED  BY <1>1, ClientSafe, PTL

\* main returns only after the task ended, with the code that tells how.
THEOREM MainOutlivesTask == Spec => []TaskEndsBeforeMain
<1>1. ClientInv => TaskEndsBeforeMain
  BY DEF ClientInv
<1> QED  BY <1>1, ClientSafe, PTL
=============================================================================
