-------------------------- MODULE SchedulerProofs --------------------------
(***************************************************************************)
(* Proofs about Scheduler, for any processes, tasks, delays and backoffs.  *)
(***************************************************************************)
EXTENDS Scheduler, TLAPS

USE DEF historyVars  \* what most steps leave unchanged, as a whole

(* The helpers return what the types say.                                  *)
LEMMA NextRunType ==
  ASSUME TypeOK, NEW t \in Task, NEW errors \in 0..MaxErrors
  PROVE  NextRun(t) \in Nat /\ NextRunWithBackoff(t, errors) \in Nat
<1>1. NextRun(t) \in Nat
  BY SchedulerAssumption DEF TypeOK, NextRun
<1>2. errors # 0 => BACKOFF[errors] \in Nat
  BY SchedulerAssumption
<1> QED
  BY <1>1, <1>2 DEF NextRunWithBackoff, Later

LEMMA DelayType ==
  ASSUME NEW n \in Nat
  PROVE  Delay(n) \in 0..MAX_TIMER_DELAY
  BY SchedulerAssumption DEF Delay, Later, Earlier

(* Arming a timer for well-typed tasks leaves well-typed timers.           *)
LEMMA ArmTimerType ==
  ASSUME TypeOK, NEW p \in Proc, NEW e \in [Task -> Entry \cup {None}], ArmTimer(p, e)
  PROVE  timerHandle' \in [Proc -> 0..MAX_TIMER_DELAY \cup {None}]
<1>1. ASSUME NEW t \in Nearest(e), timerHandle' = [timerHandle EXCEPT ![p] = Delay(e[t].at)]
      PROVE  timerHandle' \in [Proc -> 0..MAX_TIMER_DELAY \cup {None}]
  <2>1. e[t] \in Entry
    BY DEF Nearest, Scheduled
  <2>2. Delay(e[t].at) \in 0..MAX_TIMER_DELAY
    BY <2>1, DelayType DEF Entry
  <2> QED
    BY <1>1, <2>2 DEF TypeOK
<1>2. CASE timerHandle' = [timerHandle EXCEPT ![p] = None]
  BY <1>2 DEF TypeOK
<1> QED
  BY <1>1, <1>2 DEF ArmTimer

LEMMA SetTasksType ==
  ASSUME TypeOK, NEW p \in Proc, NEW e \in [Task -> Entry \cup {None}], SetTasks(p, e)
  PROVE  /\ scheduledTasks' \in [Proc -> [Task -> Entry \cup {None}]]
         /\ timerHandle' \in [Proc -> 0..MAX_TIMER_DELAY \cup {None}]
<1>1. ArmTimer(p, e)
  BY DEF SetTasks
<1>2. timerHandle' \in [Proc -> 0..MAX_TIMER_DELAY \cup {None}]
  BY <1>1, ArmTimerType
<1> QED
  BY <1>2 DEF SetTasks, TypeOK

LEMMA SetEntryType ==
  ASSUME TypeOK, NEW c \in Call, NEW entry \in Entry, SetEntry(c, entry)
  PROVE  scheduledTasks' \in [Proc -> [Task -> Entry \cup {None}]]
  BY DEF SetEntry, TypeOK, Call
LEMMA IdleType == Idle \in CallState
  BY SchedulerAssumption DEF Idle, CallState, Stage

LEMMA GoToType ==
  ASSUME TypeOK, NEW c \in Call, NEW at \in Stage,
         GoTo(c, at) \/ call' = [call EXCEPT ![c] = Idle]
  PROVE  call' \in [Call -> CallState]
<1>1. CASE GoTo(c, at)
  BY <1>1 DEF GoTo, TypeOK, CallState
<1>2. CASE call' = [call EXCEPT ![c] = Idle]
  BY <1>2, IdleType DEF TypeOK
<1> QED
  BY <1>1, <1>2

LEMMA TakenOutType ==
  ASSUME TypeOK, NEW c \in Call,
         runningTasks' = [runningTasks EXCEPT ![c.proc] = @ \ {c.task}]
  PROVE  runningTasks' \in [Proc -> SUBSET Task]
<1>1. c.proc \in Proc /\ runningTasks[c.proc] \subseteq Task
  BY DEF TypeOK, Call
<1> QED
  BY <1>1 DEF TypeOK
---------------------------------------------------------------------------
(* Type correctness.                                                       *)
LEMMA InitType == Init => TypeOK
  BY SchedulerAssumption, IdleType DEF Init, TypeOK, NoTasks, Entry

LEMMA CallType ==
  ASSUME TypeOK, NEW c \in Call, LockTaken(c) \/ CallStep(c)
  PROVE  TypeOK'
<1> USE DEF CallOnly, rowVars, bootVars, routeVars, Stage
<1>1. CASE LockTaken(c)
  <2>1. GoTo(c, "running") \/ GoTo(c, "queueing")
    BY <1>1 DEF LockTaken
  <2>2. call' \in [Call -> CallState]
    BY <2>1, GoToType
  <2> QED
    BY <1>1, <2>2 DEF LockTaken, TypeOK, Call
<1>2. CASE LockFailed(c)
  BY <1>2, GoToType DEF LockFailed, TypeOK, Call
<1>3. CASE Queued(c)
  BY <1>3, GoToType DEF Queued, TypeOK, Call
<1>4. CASE Requeued(c)
  <2>1. call[c].errors \in 0..MaxErrors /\ c.task \in Task
    BY DEF TypeOK, Call, CallState
  <2>2. [at |-> NextRunWithBackoff(c.task, call[c].errors), errors |-> call[c].errors] \in Entry
    BY <2>1, NextRunType DEF Entry
  <2>3. scheduledTasks' \in [Proc -> [Task -> Entry \cup {None}]]
    BY <1>4, <2>2, SetEntryType DEF Requeued
  <2> QED
    BY <1>4, <2>3, GoToType DEF Requeued, TypeOK
<1>5. ASSUME NEW throws \in BOOLEAN, RunEnds(c, throws)
      PROVE  TypeOK'
  <2> DEFINE errors == IF throws THEN Earlier(call[c].errors + 1, MaxErrors) ELSE 0
             next == NextRunWithBackoff(c.task, errors)
             owed == IF throws THEN BACKOFF[errors] ELSE 0
  <2>1. call[c].errors \in 0..MaxErrors /\ c.task \in Task /\ c.proc \in Proc
    BY DEF TypeOK, Call, CallState
  <2>2. errors \in 0..MaxErrors /\ (throws => errors \in 1..MaxErrors)
    BY <2>1, SchedulerAssumption DEF Earlier
  <2>3. next \in Nat
    BY <2>1, <2>2, NextRunType
  <2>4. owed \in Nat
    BY <2>2, SchedulerAssumption
  <2> HIDE DEF errors, next, owed
  <2>5. /\ call' = [call EXCEPT ![c] =
             [at |-> IF throws THEN "failing" ELSE "succeeding", errors |-> errors, next |-> next]]
        /\ rest' = [rest EXCEPT ![c.proc][c.task] = owed]
        /\ UNCHANGED <<rowVars, scheduledTasks, runningTasks, missed>> /\ CallOnly
    BY <1>5 DEF RunEnds, errors, next, owed
  <2>6. rest' \in [Proc -> [Task -> Nat]]
    <3>1. rest \in [Proc -> [Task -> Nat]]
      BY DEF TypeOK
    <3> QED
      BY <2>1, <2>4, <2>5, <3>1
  <2>7. call' \in [Call -> CallState]
    BY <2>2, <2>3, <2>5 DEF TypeOK, CallState
  <2> QED
    BY <2>5, <2>6, <2>7 DEF TypeOK
<1>6. CASE RowWritten(c)
  <2>1. call[c].errors \in 0..MaxErrors
    BY DEF TypeOK, CallState
  <2>2. call' \in [Call -> CallState]
    BY <1>6, GoToType DEF RowWritten
  <2>3. /\ running_at' \in [Task -> BOOLEAN]
        /\ consecutive_errors' \in [Task -> 0..MaxErrors]
    BY <1>6, <2>1 DEF RowWritten, TypeOK
  <2>4. missed' \in [Proc -> SUBSET Task]
    <3>1. c.task \in Task /\ missed \in [Proc -> SUBSET Task]
      BY DEF TypeOK, Call
    <3>2. missed' = [missed EXCEPT ![c.proc] = @ \ {c.task}]
            \/ missed' = [missed EXCEPT ![c.proc] = @ \cup {c.task}]
      BY <1>6 DEF RowWritten
    <3> QED
      BY <3>1, <3>2
  <2> QED
    BY <1>6, <2>2, <2>3, <2>4 DEF RowWritten, TypeOK
<1>7. CASE Rescheduled(c)
  <2>1. [at |-> call[c].next, errors |-> call[c].errors] \in Entry
    BY DEF TypeOK, CallState, Entry
  <2>2. scheduledTasks' \in [Proc -> [Task -> Entry \cup {None}]]
    BY <1>7, <2>1, SetEntryType DEF Rescheduled
  <2>3. /\ call' \in [Call -> CallState]
        /\ runningTasks' \in [Proc -> SUBSET Task]
    BY <1>7, GoToType, TakenOutType DEF Rescheduled
  <2> QED
    BY <1>7, <2>2, <2>3 DEF Rescheduled, TypeOK
<1>8. CASE Left(c)
  <2>1. /\ call' \in [Call -> CallState]
        /\ runningTasks' \in [Proc -> SUBSET Task]
    BY <1>8, GoToType, TakenOutType DEF Left
  <2> QED
    BY <1>8, <2>1 DEF Left, TypeOK
<1> QED
  BY <1>1, <1>2, <1>3, <1>4, <1>5, <1>6, <1>7, <1>8 DEF CallStep

LEMMA TimerType ==
  ASSUME TypeOK, NEW p \in Proc, TimerFires(p)
  PROVE  TypeOK'
<1> DEFINE begun == Due(p) \ Skipped(p)
<1>1. scheduledTasks[p] \in [Task -> Entry \cup {None}]
  BY DEF TypeOK
<1>2. timerHandle' \in [Proc -> 0..MAX_TIMER_DELAY \cup {None}]
  BY <1>1, ArmTimerType DEF TimerFires
<1>3. \A t \in begun : t \in Task /\ scheduledTasks[p][t].errors \in 0..MaxErrors
  BY <1>1 DEF Due, Scheduled, Entry
<1>4. call' \in [Call -> CallState]
  <2>1. call' = [c \in Call |->
          IF c.proc = p /\ c.task \in begun /\ c.slot = Slot(p, c.task)
          THEN [at |-> "locking", errors |-> scheduledTasks[p][c.task].errors, next |-> 0]
          ELSE call[c]]
    BY DEF TimerFires
  <2> HIDE DEF begun
  <2> QED
    BY <1>3, <2>1 DEF TypeOK, CallState, Stage
<1>5. runningTasks' \in [Proc -> SUBSET Task]
  BY <1>3 DEF TimerFires, TypeOK
<1> HIDE DEF begun
<1> QED
  BY <1>2, <1>4, <1>5 DEF TimerFires, TypeOK, rowVars, bootVars, routeVars

LEMMA BootType ==
  ASSUME TypeOK, NEW p \in Proc, BootStep(p) \/ Crash(p)
  PROVE  TypeOK'
<1> USE DEF memVars, rowVars, bootVars, routeVars
<1>1. CASE Starts(p)
  BY <1>1 DEF Starts, TypeOK
<1>2. CASE LoadReads(p)
  BY <1>2 DEF LoadReads, OldMarkersCleared, TypeOK
<1>3. CASE LoadSchedules(p)
  <2> DEFINE e == [t \in Task |-> IF loaded[p][t] = None THEN scheduledTasks[p][t]
                                  ELSE [at |-> NextRun(t), errors |-> loaded[p][t]]]
  <2>1. e \in [Task -> Entry \cup {None}]
    <3>1. \A t \in Task : NextRun(t) \in Nat
      BY NextRunType, SchedulerAssumption
    <3> QED
      BY <3>1 DEF TypeOK, Entry
  <2> HIDE DEF e
  <2>2. UNCHANGED memVars \/ (SetTasks(p, e) /\ UNCHANGED runningTasks)
    BY <1>3 DEF LoadSchedules, e
  <2>3. /\ scheduledTasks' \in [Proc -> [Task -> Entry \cup {None}]]
        /\ timerHandle' \in [Proc -> 0..MAX_TIMER_DELAY \cup {None}]
        /\ runningTasks' = runningTasks
    BY <2>1, <2>2, SetTasksType DEF TypeOK
  <2>4. loaded' \in [Proc -> [Task -> 0..MaxErrors \cup {None}]]
    BY <1>3 DEF LoadSchedules, TypeOK, NoTasks
  <2> QED
    BY <1>3, <2>3, <2>4 DEF LoadSchedules, TypeOK
<1>4. CASE Crash(p)
  <2>1. call' \in [Call -> CallState]
    BY <1>4, IdleType DEF Crash, TypeOK
  <2>2. deletion' \in [proc : Proc \cup {None}, at : {"none", "read", "cancelled", "over"},
                       tasks : SUBSET Task]
    BY <1>4 DEF Crash, TypeOK
  <2>3. crashes' \in 0..MaxCrashes
    BY <1>4, SchedulerAssumption DEF Crash, TypeOK
  <2>4. /\ loaded' \in [Proc -> [Task -> 0..MaxErrors \cup {None}]]
        /\ scheduledTasks' \in [Proc -> [Task -> Entry \cup {None}]]
        /\ timerHandle' \in [Proc -> 0..MAX_TIMER_DELAY \cup {None}]
    BY <1>4 DEF Crash, TypeOK, NoTasks
  <2>5. creation' \in [Task -> {"none", "over"} \cup Proc]
    BY <1>4 DEF Crash, TypeOK
  <2> QED
    BY <1>4, <2>1, <2>2, <2>3, <2>4, <2>5 DEF Crash, TypeOK
<1>5. CASE LoadFails(p)
  BY <1>5 DEF LoadFails, OldMarkersCleared, TypeOK
<1> QED
  BY <1>1, <1>2, <1>3, <1>4, <1>5 DEF BootStep

LEMMA RouteType ==
  ASSUME TypeOK, NEW p \in Proc,
         RouteStep(p) \/ DeleteReads(p) \/ \E t \in Task : CreateInserts(p, t)
  PROVE  TypeOK'
<1> USE DEF memVars, rowVars, bootVars, routeVars
<1>1. ASSUME NEW t \in Task, CreateSchedules(p, t)
      PROVE  TypeOK'
  <2> DEFINE e == [scheduledTasks[p] EXCEPT ![t] = [at |-> NextRun(t), errors |-> 0]]
  <2>1. [at |-> NextRun(t), errors |-> 0] \in Entry
    BY NextRunType, SchedulerAssumption DEF Entry
  <2>2. e \in [Task -> Entry \cup {None}]
    BY <2>1 DEF TypeOK
  <2> HIDE DEF e
  <2>3. SetTasks(p, e)
    BY <1>1 DEF CreateSchedules, e
  <2>4. /\ scheduledTasks' \in [Proc -> [Task -> Entry \cup {None}]]
        /\ timerHandle' \in [Proc -> 0..MAX_TIMER_DELAY \cup {None}]
    BY <2>2, <2>3, SetTasksType
  <2> QED
    BY <1>1, <2>4 DEF CreateSchedules, TypeOK
<1>2. CASE DeleteCancels(p)
  <2> DEFINE e == [t \in Task |-> IF t \in deletion.tasks THEN None ELSE scheduledTasks[p][t]]
  <2>1. e \in [Task -> Entry \cup {None}]
    BY DEF TypeOK
  <2> HIDE DEF e
  <2>2. UNCHANGED memVars \/ (SetTasks(p, e) /\ UNCHANGED runningTasks)
    BY <1>2 DEF DeleteCancels, e
  <2>3. /\ scheduledTasks' \in [Proc -> [Task -> Entry \cup {None}]]
        /\ timerHandle' \in [Proc -> 0..MAX_TIMER_DELAY \cup {None}]
        /\ runningTasks' = runningTasks
    BY <2>1, <2>2, SetTasksType DEF TypeOK
  <2> QED
    BY <1>2, <2>3 DEF DeleteCancels, TypeOK
<1>3. CASE DeleteWrites(p)
  BY <1>3 DEF DeleteWrites, TypeOK
<1>4. CASE DeleteReads(p)
  BY <1>4 DEF DeleteReads, TypeOK
<1>5. ASSUME NEW t \in Task, CreateInserts(p, t)
      PROVE  TypeOK'
  BY <1>5 DEF CreateInserts, TypeOK
<1> QED
  BY <1>1, <1>2, <1>3, <1>4, <1>5 DEF RouteStep

LEMMA TickType ==
  ASSUME TypeOK, Tick
  PROVE  TypeOK'
<1> USE DEF rowVars, bootVars, routeVars
<1>1. \A n \in Nat : Less(n) \in Nat
  BY DEF Less
<1>2. clock' \in 0..(Period - 1)
  BY SchedulerAssumption DEF Tick, TypeOK
<1>3. timerHandle' \in [Proc -> 0..MAX_TIMER_DELAY \cup {None}]
  <2>1. ASSUME NEW p \in Proc, timerHandle[p] # None
        PROVE  timerHandle[p] - 1 \in 0..MAX_TIMER_DELAY
    BY <2>1, SchedulerAssumption DEF Tick, TypeOK
  <2> QED
    BY <2>1 DEF Tick
<1>4. scheduledTasks' \in [Proc -> [Task -> Entry \cup {None}]]
  <2>1. ASSUME NEW p \in Proc, NEW t \in Task, scheduledTasks[p][t] # None
        PROVE  [scheduledTasks[p][t] EXCEPT !.at = Less(@)] \in Entry
    <3>1. scheduledTasks[p][t] \in Entry
      BY <2>1 DEF TypeOK
    <3> QED
      BY <1>1, <3>1 DEF Entry
  <2> QED
    BY <2>1 DEF Tick
<1>5. call' \in [Call -> CallState]
  BY <1>1 DEF Tick, TypeOK, CallState
<1>6. rest' \in [Proc -> [Task -> Nat]]
  BY <1>1 DEF Tick, TypeOK
<1> QED
  BY <1>2, <1>3, <1>4, <1>5, <1>6 DEF Tick, TypeOK

LEMMA TypeInvariant == TypeOK /\ [Next]_vars => TypeOK'
<1> SUFFICES ASSUME TypeOK, [Next]_vars PROVE TypeOK'
  OBVIOUS
<1>1. CASE UNCHANGED vars
  BY <1>1 DEF TypeOK, vars, rowVars, bootVars, memVars, routeVars
<1>2. CASE Next
  BY <1>2, CallType, TimerType, BootType, RouteType, TickType DEF Next
<1> QED
  BY <1>1, <1>2

(* The variables have their types.                                         *)
THEOREM TypeCorrect == Spec => []TypeOK
  BY InitType, TypeInvariant, PTL DEF Spec
---------------------------------------------------------------------------
(* One run at a time in a process.  The invariant: a call that is not over *)
(* has its task in runningTasks, and is the only one of its task there.    *)

Busy(c) == call[c].at # "none"

CallInv ==
  /\ \A c \in Call : Busy(c) => c.task \in runningTasks[c.proc]
  /\ \A c, d \in Call : Busy(c) /\ Busy(d) /\ c.proc = d.proc /\ c.task = d.task => c = d

LEMMA CallInvImplies == CallInv => OneRunPerProcess
  BY DEF CallInv, Busy, OneRunPerProcess, Mine, Active

LEMMA CallInvInit == Init => CallInv
  BY DEF Init, CallInv, Busy, Idle

(* A step that begins and ends no call.                                    *)
LEMMA Quiet ==
  ASSUME CallInv, UNCHANGED runningTasks, \A c \in Call : Busy(c)' => Busy(c)
  PROVE  CallInv'
  BY DEF CallInv

LEMMA CallGoesOn ==
  ASSUME TypeOK, CallInv, NEW c \in Call, NEW at \in Stage, Busy(c), UNCHANGED runningTasks,
         GoTo(c, at)
  PROVE  CallInv'
<1>1. \A d \in Call : Busy(d)' => Busy(d)
  BY DEF GoTo, Busy, TypeOK
<1> QED
  BY <1>1, Quiet

LEMMA CallOver ==
  ASSUME TypeOK, CallInv, NEW c \in Call, Busy(c), call' = [call EXCEPT ![c] = Idle],
         runningTasks' = [runningTasks EXCEPT ![c.proc] = @ \ {c.task}]
  PROVE  CallInv'
<1>1. \A d \in Call : Busy(d)' => Busy(d) /\ d # c
  BY DEF Busy, Idle, TypeOK
<1>2. \A d \in Call : Busy(d)' => d.task \in runningTasks[d.proc]
  BY <1>1 DEF CallInv
<1>3. \A d \in Call : Busy(d)' => d.proc # c.proc \/ d.task # c.task
  BY <1>1 DEF CallInv
<1>4. \A d \in Call : Busy(d)' => d.task \in runningTasks'[d.proc]
  <2>1. \A d \in Call : d.proc \in Proc
    BY DEF Call
  <2>2. c.proc \in Proc /\ runningTasks \in [Proc -> SUBSET Task]
    BY <2>1 DEF TypeOK
  <2> QED
    BY <1>2, <1>3, <2>1, <2>2
<1> QED
  BY <1>1, <1>4 DEF CallInv

LEMMA CallStepInv ==
  ASSUME TypeOK, CallInv, NEW c \in Call, LockTaken(c) \/ CallStep(c)
  PROVE  CallInv'
<1>1. CASE LockTaken(c) \/ LockFailed(c) \/ Queued(c) \/ Requeued(c) \/ RowWritten(c)
  <2>1. Busy(c) /\ UNCHANGED runningTasks
    BY <1>1 DEF LockTaken, LockFailed, Queued, Requeued, RowWritten, Busy
  <2>2. \E at \in Stage : GoTo(c, at)
    BY <1>1 DEF LockTaken, LockFailed, Queued, Requeued, RowWritten, Stage
  <2> QED
    BY <2>1, <2>2, CallGoesOn
<1>2. ASSUME NEW throws \in BOOLEAN, RunEnds(c, throws)
      PROVE  CallInv'
  <2>1. Busy(c) /\ UNCHANGED runningTasks /\ \A d \in Call : d # c => call'[d] = call[d]
    BY <1>2 DEF RunEnds, Busy, TypeOK
  <2>2. \A d \in Call : Busy(d)' => Busy(d)
    BY <2>1 DEF Busy
  <2> QED
    BY <2>1, <2>2, Quiet
<1>3. CASE Rescheduled(c)
  BY <1>3, CallOver DEF Rescheduled, Busy
<1>4. CASE Left(c)
  BY <1>4, CallOver DEF Left, Busy
<1> QED
  BY <1>1, <1>2, <1>3, <1>4 DEF CallStep

(* The timer begins calls of tasks that are not in runningTasks, and so    *)
(* have none, and one of each.                                             *)
LEMMA TimerInv ==
  ASSUME TypeOK, CallInv, NEW p \in Proc, TimerFires(p)
  PROVE  CallInv'
<1> DEFINE begun == Due(p) \ Skipped(p)
           New(c) == c.proc = p /\ c.task \in begun /\ c.slot = Slot(p, c.task)
<1>1. /\ call' = [c \in Call |->
           IF New(c)
           THEN [at |-> "locking", errors |-> scheduledTasks[p][c.task].errors, next |-> 0]
           ELSE call[c]]
      /\ runningTasks' = [runningTasks EXCEPT ![p] = @ \cup begun]
  BY DEF TimerFires
<1>2. \A c \in Call : Busy(c)' => New(c) \/ Busy(c)
  BY <1>1 DEF Busy
<1>3. \A c \in Call : New(c) => c.proc = p /\ c.task \in begun /\ c.task \notin runningTasks[p]
  BY DEF Skipped
<1>4. \A c, d \in Call : New(c) /\ New(d) /\ c.task = d.task => c = d
  BY DEF Call
<1>5. \A c \in Call : Busy(c) => c.task \in runningTasks[c.proc]
  BY DEF CallInv
<1>6. \A c, d \in Call : New(c) /\ Busy(d) => c.proc # d.proc \/ c.task # d.task
  BY <1>3, <1>5
<1>7. \A c \in Call : Busy(c)' => c.task \in runningTasks'[c.proc]
  <2>1. \A c \in Call : c.proc \in Proc
    BY DEF Call
  <2>2. \A q \in Proc : runningTasks[q] \subseteq runningTasks'[q]
    BY <1>1 DEF TypeOK
  <2>3. begun \subseteq runningTasks'[p]
    BY <1>1 DEF TypeOK
  <2> HIDE DEF begun
  <2> QED
    BY <1>2, <1>3, <1>5, <2>1, <2>2, <2>3
<1> HIDE DEF New
<1>8. \A c, d \in Call : Busy(c)' /\ Busy(d)' /\ c.proc = d.proc /\ c.task = d.task => c = d
  BY <1>2, <1>4, <1>6 DEF CallInv
<1> QED
  BY <1>7, <1>8 DEF CallInv

LEMMA CrashInv ==
  ASSUME TypeOK, CallInv, NEW p \in Proc, Crash(p)
  PROVE  CallInv'
<1>1. \A c \in Call : Busy(c)' => Busy(c) /\ c.proc # p
  BY DEF Crash, Busy, Idle
<1>2. \A c \in Call : c.proc \in Proc
  BY DEF Call
<1>3. \A q \in Proc \ {p} : runningTasks'[q] = runningTasks[q]
  BY DEF Crash, TypeOK
<1> QED
  BY <1>1, <1>2, <1>3 DEF CallInv

LEMMA RestInv ==
  ASSUME TypeOK, CallInv, NEW p \in Proc,
         BootStep(p) \/ RouteStep(p) \/ DeleteReads(p) \/ \E t \in Task : CreateInserts(p, t)
  PROVE  CallInv'
<1>1. UNCHANGED <<call, runningTasks>>
  BY DEF BootStep, Starts, LoadReads, LoadFails, LoadSchedules, RouteStep, CreateSchedules,
         DeleteCancels, DeleteWrites, DeleteReads, CreateInserts, memVars
<1> QED
  BY <1>1, Quiet DEF Busy

LEMMA CallInvariant == TypeOK /\ CallInv /\ [Next]_vars => CallInv'
<1> SUFFICES ASSUME TypeOK, CallInv, [Next]_vars PROVE CallInv'
  OBVIOUS
<1>1. CASE UNCHANGED vars
  BY <1>1, Quiet DEF vars, memVars, Busy
<1>2. CASE Tick
  <2>1. UNCHANGED runningTasks /\ \A c \in Call : call'[c].at = call[c].at
    BY <1>2 DEF Tick, TypeOK, CallState
  <2> QED
    BY <2>1, Quiet DEF Busy
<1>3. CASE \E c \in Call : LockTaken(c) \/ CallStep(c)
  BY <1>3, CallStepInv
<1>4. CASE \E p \in Proc : \/ TimerFires(p) \/ BootStep(p) \/ RouteStep(p) \/ DeleteReads(p)
                           \/ Crash(p) \/ \E t \in Task : CreateInserts(p, t)
  BY <1>4, TimerInv, CrashInv, RestInv
<1> QED
  BY <1>1, <1>2, <1>3, <1>4 DEF Next

(* However often its timer fires while a task runs, a process never has    *)
(* two calls of the task under way.                                        *)
THEOREM RunsAreNotDoubled == Spec => []OneRunPerProcess
<1>1. Spec => [](TypeOK /\ CallInv)
  BY InitType, CallInvInit, TypeInvariant, CallInvariant, PTL DEF Spec
<1> QED
  BY <1>1, CallInvImplies, PTL
---------------------------------------------------------------------------
(* The timer and the backoff counts, when no schedule is made or deleted.  *)
(* A task in a call stays due until the call sets its next time: so the    *)
(* timer is within the refire gap meanwhile, and the next time needs no    *)
(* new one.                                                                *)

FixedSchedules == Cancels = FALSE /\ Existing = Task

NoRoutes ==
  /\ creation = [t \in Task |-> "over"]
  /\ deletion.at \notin {"read", "cancelled"}

Fresh ==
  \A p \in Proc : boot[p] # "ready" =>
    /\ scheduledTasks[p] = NoTasks
    /\ \A c \in Call : c.proc = p => ~Busy(c)

DueMeanwhile ==
  \A c \in Call : call[c].at \notin {"none", "leaving"} =>
    /\ scheduledTasks[c.proc][c.task] # None
    /\ scheduledTasks[c.proc][c.task].at = 0

TimeInv == FixedSchedules /\ NoRoutes /\ Fresh /\ DueMeanwhile /\ TimerInTime

LEMMA TimeInit == Init /\ FixedSchedules => TimeInv
<1> SUFFICES ASSUME Init, FixedSchedules PROVE TimeInv
  OBVIOUS
<1>1. \A p \in Proc : scheduledTasks[p] = NoTasks /\ Scheduled(scheduledTasks[p]) = {}
  BY DEF Init, NoTasks, Scheduled
<1>2. \A c \in Call : call[c].at = "none"
  BY DEF Init, Idle
<1>3. NoRoutes
  BY DEF Init, NoRoutes, FixedSchedules
<1> QED
  BY <1>1, <1>2, <1>3 DEF TimeInv, Fresh, DueMeanwhile, TimerInTime, Busy

(* A timer that has just been armed is in time.                            *)
LEMMA Armed ==
  ASSUME TypeOK, NEW p \in Proc, NEW e \in [Task -> Entry \cup {None}], ArmTimer(p, e),
         NEW t \in Scheduled(e)
  PROVE  timerHandle'[p] # None /\ timerHandle'[p] <= Later(e[t].at, MIN_REFIRE_GAP)
<1>1. PICK s \in Nearest(e) : timerHandle' = [timerHandle EXCEPT ![p] = Delay(e[s].at)]
  BY DEF ArmTimer
<1>2. e[s] \in Entry /\ e[t] \in Entry /\ e[s].at <= e[t].at
  BY DEF Nearest, Scheduled
<1>3. e[s].at \in Nat /\ e[t].at \in Nat
  BY <1>2 DEF Entry
<1>4. timerHandle'[p] = Delay(e[s].at)
  BY <1>1 DEF TypeOK
<1>5. Delay(e[s].at) \in 0..MAX_TIMER_DELAY
  BY <1>3, DelayType
<1>6. Delay(e[s].at) <= Later(e[t].at, MIN_REFIRE_GAP)
  BY <1>2, <1>3, SchedulerAssumption DEF Delay, Earlier, Later
<1> QED
  BY <1>4, <1>5, <1>6, SchedulerAssumption

LEMMA ArmedOthers ==
  ASSUME TypeOK, NEW p \in Proc, NEW e, ArmTimer(p, e), NEW q \in Proc \ {p}
  PROVE  timerHandle'[q] = timerHandle[q]
  BY DEF ArmTimer, TypeOK

LEMMA TimeQuiet ==
  ASSUME TimeInv, UNCHANGED <<boot, routeVars, scheduledTasks, timerHandle>>,
         \A c \in Call : /\ Busy(c)' => Busy(c)
                         /\ call'[c].at \notin {"none", "leaving"}
                              => call[c].at \notin {"none", "leaving"}
  PROVE  TimeInv'
  BY DEF TimeInv, FixedSchedules, NoRoutes, Fresh, DueMeanwhile, TimerInTime, Scheduled, routeVars

LEMMA TimeGoesOn ==
  ASSUME TypeOK, TimeInv, NEW c \in Call, NEW at \in Stage,
         call[c].at \notin {"none", "leaving"}, GoTo(c, at),
         UNCHANGED <<boot, routeVars, scheduledTasks, timerHandle>>
  PROVE  TimeInv'
<1>1. \A d \in Call : d # c => call'[d] = call[d]
  BY DEF GoTo, TypeOK
<1> QED
  BY <1>1, TimeQuiet DEF Busy

(* A call sets its task's next time.                                       *)
LEMMA TimeSet ==
  ASSUME TypeOK, CallInv, TimeInv, NEW c \in Call, NEW entry \in Entry,
         call[c].at \notin {"none", "leaving"}, SetEntry(c, entry),
         call'[c].at \in {"none", "leaving"},
         \A d \in Call \ {c} : call'[d] = call[d],
         UNCHANGED <<boot, routeVars, timerHandle>>
  PROVE  TimeInv'
<1>1. c.proc \in Proc /\ c.task \in Task
  BY DEF Call
<1>2. /\ scheduledTasks'[c.proc][c.task] = entry
      /\ \A p \in Proc, t \in Task : p # c.proc \/ t # c.task
           => scheduledTasks'[p][t] = scheduledTasks[p][t]
      /\ \A p \in Proc : p # c.proc => scheduledTasks'[p] = scheduledTasks[p]
  BY <1>1 DEF SetEntry, TypeOK
<1>3. FixedSchedules' /\ NoRoutes'
  BY DEF TimeInv, FixedSchedules, NoRoutes, routeVars
<1>4. Fresh'
  <2>1. boot[c.proc] = "ready"
    BY <1>1 DEF TimeInv, Fresh, Busy
  <2> QED
    BY <1>2, <2>1 DEF TimeInv, Fresh, Busy
<1>5. DueMeanwhile'
  <2> SUFFICES ASSUME NEW d \in Call, call'[d].at \notin {"none", "leaving"}
               PROVE  /\ scheduledTasks'[d.proc][d.task] # None
                      /\ scheduledTasks'[d.proc][d.task].at = 0
    BY DEF DueMeanwhile
  <2>1. d # c /\ call'[d] = call[d] /\ d.proc \in Proc /\ d.task \in Task
    BY DEF Call
  <2>2. d.proc # c.proc \/ d.task # c.task
    BY <2>1 DEF CallInv, Busy
  <2> QED
    BY <1>2, <2>1, <2>2 DEF TimeInv, DueMeanwhile
<1>6. TimerInTime'
  <2> SUFFICES ASSUME NEW p \in Proc, NEW t \in Task, scheduledTasks'[p][t] # None
               PROVE  /\ timerHandle[p] # None
                      /\ timerHandle[p] <= Later(scheduledTasks'[p][t].at, MIN_REFIRE_GAP)
    BY DEF TimerInTime, Scheduled
  <2>1. CASE p = c.proc /\ t = c.task
    <3>1. scheduledTasks[p][t] # None /\ scheduledTasks[p][t].at = 0
      BY <2>1 DEF TimeInv, DueMeanwhile
    <3>2. timerHandle[p] # None /\ timerHandle[p] <= Later(0, MIN_REFIRE_GAP)
      BY <3>1 DEF TimeInv, TimerInTime, Scheduled
    <3>3. timerHandle[p] \in Nat /\ entry.at \in Nat
      BY <3>2 DEF TypeOK, Entry
    <3> QED
      BY <1>2, <2>1, <3>2, <3>3, SchedulerAssumption DEF Later
  <2>2. CASE ~(p = c.proc /\ t = c.task)
    BY <1>2, <2>2 DEF TimeInv, TimerInTime, Scheduled
  <2> QED
    BY <2>1, <2>2
<1> QED
  BY <1>3, <1>4, <1>5, <1>6 DEF TimeInv

LEMMA TimeCall ==
  ASSUME TypeOK, CallInv, TimeInv, NEW c \in Call, LockTaken(c) \/ CallStep(c)
  PROVE  TimeInv'
<1> USE DEF CallOnly, bootVars
<1>0. call[c].errors \in 0..MaxErrors /\ call[c].next \in Nat /\ c.task \in Task
  BY DEF TypeOK, CallState, Call
<1>1. CASE LockTaken(c) \/ LockFailed(c) \/ Queued(c) \/ RowWritten(c)
  <2>1. /\ call[c].at \notin {"none", "leaving"}
        /\ UNCHANGED <<boot, routeVars, scheduledTasks, timerHandle>>
    BY <1>1 DEF LockTaken, LockFailed, Queued, RowWritten
  <2>2. \E at \in Stage : GoTo(c, at)
    BY <1>1 DEF LockTaken, LockFailed, Queued, RowWritten, Stage
  <2> QED
    BY <2>1, <2>2, TimeGoesOn
<1>2. ASSUME NEW throws \in BOOLEAN, RunEnds(c, throws)
      PROVE  TimeInv'
  <2>1. /\ call[c].at = "running"
        /\ UNCHANGED <<boot, routeVars, scheduledTasks, timerHandle>>
        /\ \A d \in Call : d # c => call'[d] = call[d]
    BY <1>2 DEF RunEnds, TypeOK
  <2> QED
    BY <2>1, TimeQuiet DEF Busy
<1>3. CASE Requeued(c)
  <2>1. [at |-> NextRunWithBackoff(c.task, call[c].errors), errors |-> call[c].errors] \in Entry
    BY <1>0, NextRunType DEF Entry
  <2>2. call'[c].at = "leaving" /\ \A d \in Call \ {c} : call'[d] = call[d]
    BY <1>3 DEF Requeued, GoTo, TypeOK, CallState
  <2> QED
    BY <1>3, <2>1, <2>2, TimeSet DEF Requeued
<1>4. CASE Rescheduled(c)
  <2>1. [at |-> call[c].next, errors |-> call[c].errors] \in Entry
    BY <1>0 DEF Entry
  <2>2. call'[c].at = "none" /\ \A d \in Call \ {c} : call'[d] = call[d]
    BY <1>4 DEF Rescheduled, Idle, TypeOK
  <2> QED
    BY <1>4, <2>1, <2>2, TimeSet DEF Rescheduled
<1>5. CASE Left(c)
  <2>1. /\ UNCHANGED <<boot, routeVars, scheduledTasks, timerHandle>>
        /\ call'[c].at = "none" /\ \A d \in Call \ {c} : call'[d] = call[d]
    BY <1>5 DEF Left, Idle, TypeOK
  <2> QED
    BY <2>1, TimeQuiet DEF Busy
<1> QED
  BY <1>1, <1>2, <1>3, <1>4, <1>5 DEF CallStep

LEMMA TimeFires ==
  ASSUME TypeOK, TimeInv, NEW p \in Proc, TimerFires(p)
  PROVE  TimeInv'
<1> DEFINE begun == Due(p) \ Skipped(p)
           e == scheduledTasks[p]
<1>1. /\ UNCHANGED <<boot, routeVars, scheduledTasks>> /\ ArmTimer(p, e)
      /\ \A c \in Call :
           \/ call'[c] = call[c]
           \/ c.proc = p /\ c.task \in begun /\ call'[c].at = "locking"
  BY DEF TimerFires, bootVars
<1>2. e \in [Task -> Entry \cup {None}]
  BY DEF TypeOK
<1>3. \A t \in begun : e[t] # None /\ e[t].at = 0 /\ t \in Task
  BY DEF Due, Scheduled
<1>4. begun # {} => boot[p] = "ready"
  BY <1>3 DEF TimeInv, Fresh, NoTasks
<1> HIDE DEF begun
<1>5. FixedSchedules' /\ NoRoutes'
  BY <1>1 DEF TimeInv, FixedSchedules, NoRoutes, routeVars
<1>6. Fresh'
  BY <1>1, <1>4 DEF TimeInv, Fresh, Busy
<1>7. DueMeanwhile'
  BY <1>1, <1>3 DEF TimeInv, DueMeanwhile
<1>8. TimerInTime'
  <2> SUFFICES ASSUME NEW q \in Proc, NEW t \in Scheduled(scheduledTasks[q])
               PROVE  /\ timerHandle'[q] # None
                      /\ timerHandle'[q] <= Later(scheduledTasks[q][t].at, MIN_REFIRE_GAP)
    BY <1>1 DEF TimerInTime
  <2>1. CASE q = p
    BY <1>1, <1>2, <2>1, Armed
  <2>2. CASE q # p
    BY <1>1, <2>2, ArmedOthers DEF TimeInv, TimerInTime
  <2> QED
    BY <2>1, <2>2
<1> QED
  BY <1>5, <1>6, <1>7, <1>8 DEF TimeInv

LEMMA TimeBoot ==
  ASSUME TypeOK, TimeInv, NEW p \in Proc, BootStep(p) \/ Crash(p)
  PROVE  TimeInv'
<1> USE DEF memVars, bootVars, routeVars
<1>1. CASE Starts(p) \/ LoadReads(p) \/ LoadFails(p)
  <2>1. /\ UNCHANGED <<call, scheduledTasks, timerHandle, creation, deletion>>
        /\ boot[p] # "ready" /\ \A q \in Proc \ {p} : boot'[q] = boot[q]
    BY <1>1 DEF Starts, LoadReads, LoadFails, TypeOK
  <2>2. Fresh'
    BY <2>1 DEF TimeInv, Fresh, Busy
  <2> QED
    BY <2>1, <2>2 DEF TimeInv, FixedSchedules, NoRoutes, DueMeanwhile, TimerInTime
<1>2. CASE LoadSchedules(p)
  <2> DEFINE e == [t \in Task |-> IF loaded[p][t] = None THEN scheduledTasks[p][t]
                                  ELSE [at |-> NextRun(t), errors |-> loaded[p][t]]]
  <2>1. e \in [Task -> Entry \cup {None}]
    <3>1. \A t \in Task : NextRun(t) \in Nat
      BY NextRunType, SchedulerAssumption
    <3> QED
      BY <3>1 DEF TypeOK, Entry
  <2> HIDE DEF e
  <2>2. UNCHANGED memVars \/ SetTasks(p, e)
    BY <1>2 DEF LoadSchedules, e
  <2>3. /\ boot[p] = "read" /\ boot' = [boot EXCEPT ![p] = "ready"]
        /\ UNCHANGED <<call, creation, deletion>>
    BY <1>2 DEF LoadSchedules
  <2>4. \A q \in Proc \ {p} : /\ boot'[q] = boot[q]
                              /\ scheduledTasks'[q] = scheduledTasks[q]
                              /\ timerHandle'[q] = timerHandle[q]
    BY <2>2, <2>3, ArmedOthers DEF SetTasks, TypeOK
  <2>5. \A c \in Call : c.proc = p => ~Busy(c)
    BY <2>3 DEF TimeInv, Fresh
  <2>6. Fresh' /\ DueMeanwhile'
    <3>1. Fresh'
      BY <2>3, <2>4 DEF TimeInv, Fresh, Busy, TypeOK
    <3>2. DueMeanwhile'
      BY <2>3, <2>4, <2>5 DEF TimeInv, DueMeanwhile, Busy, Call
    <3> QED
      BY <3>1, <3>2
  <2>7. TimerInTime'
    <3> SUFFICES ASSUME NEW q \in Proc, NEW t \in Scheduled(scheduledTasks'[q])
                 PROVE  /\ timerHandle'[q] # None
                        /\ timerHandle'[q] <= Later(scheduledTasks'[q][t].at, MIN_REFIRE_GAP)
      BY DEF TimerInTime
    <3>1. CASE q # p \/ UNCHANGED memVars
      BY <2>4, <3>1 DEF TimeInv, TimerInTime
    <3>2. CASE q = p /\ SetTasks(p, e)
      <4>1. scheduledTasks'[p] = e /\ ArmTimer(p, e)
        BY <3>2 DEF SetTasks, TypeOK
      <4> QED
        BY <2>1, <3>2, <4>1, Armed
    <3> QED
      BY <2>2, <3>1, <3>2
  <2> QED
    BY <2>3, <2>6, <2>7 DEF TimeInv, FixedSchedules, NoRoutes
<1>3. CASE Crash(p)
  <2>1. /\ scheduledTasks'[p] = NoTasks
        /\ \A q \in Proc \ {p} : /\ boot'[q] = boot[q]
                                 /\ scheduledTasks'[q] = scheduledTasks[q]
                                 /\ timerHandle'[q] = timerHandle[q]
        /\ \A c \in Call : call'[c] = IF c.proc = p THEN Idle ELSE call[c]
    BY <1>3 DEF Crash, TypeOK
  <2>2. NoRoutes'
    BY <1>3 DEF Crash, TimeInv, NoRoutes
  <2>3. Fresh' /\ DueMeanwhile'
    BY <2>1 DEF TimeInv, Fresh, DueMeanwhile, Busy, Idle, Call
  <2>4. TimerInTime'
    BY <2>1 DEF TimeInv, TimerInTime, Scheduled, NoTasks
  <2> QED
    BY <2>2, <2>3, <2>4 DEF TimeInv, FixedSchedules
<1> QED
  BY <1>1, <1>2, <1>3 DEF BootStep

LEMMA TimeTick ==
  ASSUME TypeOK, TimeInv, Tick
  PROVE  TimeInv'
<1>1. /\ UNCHANGED <<boot, routeVars>>
      /\ \A c \in Call : call'[c].at = call[c].at
  BY DEF Tick, TypeOK, CallState, bootVars
<1>2. \A p \in Proc, t \in Task :
        /\ scheduledTasks[p][t] = None => scheduledTasks'[p][t] = None
        /\ scheduledTasks[p][t] # None =>
             /\ scheduledTasks[p][t] \in Entry
             /\ scheduledTasks'[p][t] # None
             /\ scheduledTasks'[p][t].at = Less(scheduledTasks[p][t].at)
  <2>1. ASSUME NEW p \in Proc, NEW t \in Task, scheduledTasks[p][t] # None
        PROVE  /\ scheduledTasks[p][t] \in Entry
               /\ scheduledTasks'[p][t] # None
               /\ scheduledTasks'[p][t].at = Less(scheduledTasks[p][t].at)
    <3>1. scheduledTasks[p][t] \in Entry
      BY <2>1 DEF TypeOK
    <3>2. scheduledTasks'[p][t] = [scheduledTasks[p][t] EXCEPT !.at = Less(@)]
      BY <2>1 DEF Tick
    <3>3. scheduledTasks'[p][t] \in Entry
      BY <3>1, <3>2 DEF Entry, Less
    <3> QED
      BY <3>1, <3>2, <3>3, SchedulerAssumption DEF Entry
  <2> QED
    BY <2>1 DEF Tick
<1>3. FixedSchedules' /\ NoRoutes'
  BY <1>1 DEF TimeInv, FixedSchedules, NoRoutes, routeVars
<1>4. Fresh'
  <2>1. ASSUME NEW p \in Proc, scheduledTasks[p] = NoTasks
        PROVE  scheduledTasks'[p] = NoTasks
    BY <2>1 DEF Tick, NoTasks
  <2> QED
    BY <1>1, <2>1 DEF TimeInv, Fresh, Busy
<1>5. DueMeanwhile'
  BY <1>1, <1>2 DEF TimeInv, DueMeanwhile, Less, Call
<1>6. TimerInTime'
  <2> SUFFICES ASSUME NEW p \in Proc, NEW t \in Task, scheduledTasks'[p][t] # None
               PROVE  /\ timerHandle'[p] # None
                      /\ timerHandle'[p] <= Later(scheduledTasks'[p][t].at, MIN_REFIRE_GAP)
    BY DEF TimerInTime, Scheduled
  <2>1. /\ scheduledTasks[p][t].at \in Nat
        /\ scheduledTasks'[p][t].at = Less(scheduledTasks[p][t].at)
    BY <1>2 DEF Entry
  <2>2. /\ timerHandle[p] # None
        /\ timerHandle[p] <= Later(scheduledTasks[p][t].at, MIN_REFIRE_GAP)
    BY <1>2 DEF TimeInv, TimerInTime, Scheduled
  <2>3. /\ timerHandle[p] \in Nat \ {0}
        /\ timerHandle'[p] = timerHandle[p] - 1
    BY <2>2 DEF Tick, TypeOK
  <2>4. timerHandle'[p] \in Nat /\ MIN_REFIRE_GAP \in Nat \ {0}
    BY <2>3, SchedulerAssumption
  <2>5. ASSUME NEW h \in Nat \ {0}, NEW n \in Nat, NEW gap \in Nat \ {0}, h <= Later(n, gap)
        PROVE  h - 1 <= Later(Less(n), gap)
    BY <2>5 DEF Later, Less
  <2>6. timerHandle'[p] # None
    BY <2>4, SchedulerAssumption
  <2> QED
    BY <2>1, <2>2, <2>3, <2>4, <2>5, <2>6
<1> QED
  BY <1>3, <1>4, <1>5, <1>6 DEF TimeInv

LEMMA TimeInvariant == TypeOK /\ CallInv /\ TimeInv /\ [Next]_vars => TimeInv'
<1> SUFFICES ASSUME TypeOK, CallInv, TimeInv, [Next]_vars PROVE TimeInv'
  OBVIOUS
<1>1. CASE UNCHANGED vars
  BY <1>1, TimeQuiet DEF vars, bootVars, memVars, Busy
<1>2. CASE \E p \in Proc : RouteStep(p) \/ DeleteReads(p) \/ \E t \in Task : CreateInserts(p, t)
  BY <1>2, SchedulerAssumption DEF RouteStep, CreateSchedules, DeleteCancels, DeleteWrites,
     DeleteReads, CreateInserts, TimeInv, NoRoutes, FixedSchedules
<1>3. CASE Tick \/ \E c \in Call : LockTaken(c) \/ CallStep(c)
  BY <1>3, TimeTick, TimeCall
<1>4. CASE \E p \in Proc : TimerFires(p) \/ BootStep(p) \/ Crash(p)
  BY <1>4, TimeFires, TimeBoot
<1> QED
  BY <1>1, <1>2, <1>3, <1>4 DEF Next

LEMMA TimeAlways == Spec /\ FixedSchedules => [](TypeOK /\ CallInv /\ TimeInv)
  BY InitType, CallInvInit, TimeInit, TypeInvariant, CallInvariant, TimeInvariant, PTL DEF Spec

(* As long as no schedule is made or deleted, whatever a process has       *)
(* scheduled has a timer armed in time, though runs set their next time    *)
(* without arming it.                                                      *)
THEOREM TimersAreInTime == Spec /\ FixedSchedules => []TimerInTime
<1>1. TimeInv => TimerInTime
  BY DEF TimeInv
<1> QED
  BY <1>1, TimeAlways, PTL
---------------------------------------------------------------------------
(* What a lone process knows of its tasks' failures.                       *)

LoneProcess == \A p, q \in Proc : p = q

Knowing == {"locking", "queueing", "queued", "running", "written"}

CallsKnow ==
  \A c \in Call : call[c].at \in Knowing /\ c.task \notin missed[c.proc]
                   => call[c].errors = consecutive_errors[c.task]

LoadedKnow ==
  \A p \in Proc, t \in Task : boot[p] = "read" /\ loaded[p][t] # None
                                => loaded[p][t] = consecutive_errors[t]

Unsaid(p, t) == \E c \in Call : c.proc = p /\ c.task = t /\ call[c].at = "written"

EntriesKnow ==
  \A p \in Proc, t \in Task :
    scheduledTasks[p][t] # None /\ ~Unsaid(p, t) /\ t \notin missed[p]
      => scheduledTasks[p][t].errors = consecutive_errors[t]

KnowInv == LoneProcess /\ CallsKnow /\ LoadedKnow /\ EntriesKnow

LEMMA KnowImplies == KnowInv => ErrorsAgree
  BY DEF KnowInv, EntriesKnow, Unsaid, ErrorsAgree, Mine, Active, Scheduled

LEMMA KnowInit == Init /\ LoneProcess => KnowInv
<1> SUFFICES ASSUME Init, LoneProcess PROVE KnowInv
  OBVIOUS
<1>1. /\ \A p \in Proc, t \in Task : scheduledTasks[p][t] = None /\ loaded[p][t] = None
      /\ \A c \in Call : call[c].at = "none"
  BY DEF Init, NoTasks, Idle
<1> QED
  BY <1>1 DEF KnowInv, CallsKnow, LoadedKnow, EntriesKnow, Knowing

(* Steps that change no count, no entry, and no call for one that knows.   *)
LEMMA KnowQuiet ==
  ASSUME KnowInv, UNCHANGED <<consecutive_errors, scheduledTasks, missed>>, LoadedKnow',
         \A c \in Call : /\ call'[c].at \in Knowing
                              => call[c].at \in Knowing /\ call'[c].errors = call[c].errors
                         /\ call[c].at = "written" => call'[c].at = "written"
  PROVE  KnowInv'
<1>1. \A p \in Proc, t \in Task : Unsaid(p, t) => Unsaid(p, t)'
  BY DEF Unsaid
<1>2. EntriesKnow'
  BY <1>1 DEF KnowInv, EntriesKnow
<1> QED
  BY <1>2 DEF KnowInv, LoneProcess, CallsKnow

(* A call sets its task's entry, with what it knows.                       *)
LEMMA KnowSet ==
  ASSUME TypeOK, CallInv, KnowInv, NEW c \in Call, NEW entry \in Entry,
         call[c].at \in Knowing, SetEntry(c, entry), entry.errors = call[c].errors,
         call'[c].at \in {"none", "leaving"}, \A d \in Call \ {c} : call'[d] = call[d],
         UNCHANGED <<consecutive_errors, boot, loaded, missed>>
  PROVE  KnowInv'
<1>1. c.proc \in Proc /\ c.task \in Task
  BY DEF Call
<1>2. /\ scheduledTasks'[c.proc][c.task] = entry
      /\ \A p \in Proc, t \in Task : p # c.proc \/ t # c.task
           => scheduledTasks'[p][t] = scheduledTasks[p][t]
  BY <1>1 DEF SetEntry, TypeOK
<1>3. CallsKnow' /\ LoadedKnow'
  BY DEF KnowInv, CallsKnow, LoadedKnow, Knowing
<1>4. \A p \in Proc, t \in Task : (p # c.proc \/ t # c.task) /\ Unsaid(p, t) => Unsaid(p, t)'
  BY DEF Unsaid
<1>5. EntriesKnow'
  <2> SUFFICES ASSUME NEW p \in Proc, NEW t \in Task, scheduledTasks'[p][t] # None,
                      ~Unsaid(p, t)', t \notin missed[p]
               PROVE  scheduledTasks'[p][t].errors = consecutive_errors[t]
    BY DEF EntriesKnow
  <2>1. CASE p = c.proc /\ t = c.task
    BY <1>2, <2>1 DEF KnowInv, CallsKnow
  <2>2. CASE p # c.proc \/ t # c.task
    BY <1>2, <1>4, <2>2 DEF KnowInv, EntriesKnow
  <2> QED
    BY <2>1, <2>2
<1> QED
  BY <1>3, <1>5 DEF KnowInv, LoneProcess

(* A call cannot write its count to the row ...                            *)
LEMMA KnowUnwritten ==
  ASSUME TypeOK, CallInv, KnowInv, NEW c \in Call, call[c].at \in {"succeeding", "failing"},
         GoTo(c, "written"), UNCHANGED <<consecutive_errors, scheduledTasks, boot, loaded>>,
         missed' = [missed EXCEPT ![c.proc] = @ \cup {c.task}]
  PROVE  KnowInv'
<1>1. c.proc \in Proc /\ c.task \in Task
  BY DEF Call
<1>2. /\ c.task \in missed'[c.proc]
      /\ \A p \in Proc, t \in Task : t \notin missed'[p] => t \notin missed[p]
  BY <1>1 DEF TypeOK
<1>3. \A d \in Call \ {c} : call'[d] = call[d]
  BY DEF GoTo, TypeOK
<1>4. \A d \in Call : d.proc \in Proc /\ d.task \in Task
  BY DEF Call
<1>5. CallsKnow'
  BY <1>2, <1>3, <1>4 DEF KnowInv, CallsKnow
<1>6. \A p \in Proc, t \in Task : Unsaid(p, t) => Unsaid(p, t)'
  BY <1>3 DEF Unsaid
<1>7. LoadedKnow' /\ EntriesKnow'
  BY <1>2, <1>6 DEF KnowInv, LoadedKnow, EntriesKnow
<1> QED
  BY <1>5, <1>7 DEF KnowInv, LoneProcess

(* ... or does.                                                            *)
LEMMA KnowWritten ==
  ASSUME TypeOK, CallInv, TimeInv, KnowInv, NEW c \in Call, RowWritten(c),
         consecutive_errors' = [consecutive_errors EXCEPT ![c.task] = call[c].errors],
         missed' = [missed EXCEPT ![c.proc] = @ \ {c.task}]
  PROVE  KnowInv'
<1>1. c.proc \in Proc /\ c.task \in Task
  BY DEF Call
<1>2. /\ \A t \in Task : consecutive_errors'[t]
                         = IF t = c.task THEN call[c].errors ELSE consecutive_errors[t]
      /\ \A d \in Call \ {c} : call'[d] = call[d]
      /\ call'[c].at = "written" /\ call'[c].errors = call[c].errors
      /\ UNCHANGED <<scheduledTasks, boot, loaded>>
      /\ \A p \in Proc, t \in Task : t # c.task => (t \in missed'[p] <=> t \in missed[p])
  BY <1>1 DEF RowWritten, GoTo, CallOnly, bootVars, TypeOK, CallState
<1>3. Busy(c)
  BY DEF RowWritten, Busy
<1>4. \A d \in Call \ {c} : Busy(d) => d.task # c.task
  BY <1>3 DEF CallInv, KnowInv, LoneProcess, Call
<1>5. CallsKnow'
  <2> SUFFICES ASSUME NEW d \in Call, call'[d].at \in Knowing, d.task \notin missed'[d.proc]
               PROVE  call'[d].errors = consecutive_errors'[d.task]
    BY DEF CallsKnow
  <2>1. d.task \in Task /\ d.proc \in Proc
    BY DEF Call
  <2>2. CASE d = c
    BY <1>2, <2>1, <2>2
  <2>3. CASE d # c
    BY <1>2, <1>4, <2>1, <2>3 DEF KnowInv, CallsKnow, Busy, Knowing
  <2> QED
    BY <2>2, <2>3
<1>6. LoadedKnow'
  <2>1. boot[c.proc] = "ready"
    BY <1>1, <1>3 DEF TimeInv, Fresh
  <2> QED
    BY <1>1, <1>2, <2>1 DEF KnowInv, LoneProcess, LoadedKnow
<1>7. EntriesKnow'
  <2> SUFFICES ASSUME NEW p \in Proc, NEW t \in Task, scheduledTasks[p][t] # None,
                      ~Unsaid(p, t)', t \notin missed'[p]
               PROVE  scheduledTasks[p][t].errors = consecutive_errors'[t]
    BY <1>2 DEF EntriesKnow
  <2>1. t # c.task
    BY <1>1, <1>2 DEF Unsaid, KnowInv, LoneProcess
  <2>2. ~Unsaid(p, t)
    BY <1>2, <2>1 DEF Unsaid
  <2> QED
    BY <1>2, <2>1, <2>2 DEF KnowInv, EntriesKnow
<1> QED
  BY <1>5, <1>6, <1>7 DEF KnowInv, LoneProcess

LEMMA KnowCall ==
  ASSUME TypeOK, CallInv, TimeInv, KnowInv, NEW c \in Call, LockTaken(c) \/ CallStep(c)
  PROVE  KnowInv'
<1> USE DEF CallOnly, bootVars, rowVars
<1>0. call[c].errors \in 0..MaxErrors /\ call[c].next \in Nat /\ c.task \in Task
  BY DEF TypeOK, CallState, Call
<1>1. CASE LockTaken(c) \/ LockFailed(c) \/ Queued(c) \/ Left(c)
           \/ \E throws \in BOOLEAN : RunEnds(c, throws)
  <2>1. /\ UNCHANGED <<consecutive_errors, scheduledTasks, boot, loaded, missed>>
        /\ \A d \in Call \ {c} : call'[d] = call[d]
    BY <1>1 DEF LockTaken, LockFailed, Queued, Left, RunEnds, GoTo, TypeOK
  <2>2. /\ call[c].at # "written"
        /\ call'[c].at \in Knowing
             => call[c].at \in Knowing /\ call'[c].errors = call[c].errors
    <3>1. CASE LockTaken(c) \/ LockFailed(c) \/ Queued(c)
      BY <3>1 DEF LockTaken, LockFailed, Queued, GoTo, Knowing, TypeOK, CallState
    <3>2. CASE Left(c)
      BY <3>2 DEF Left, Idle, Knowing, TypeOK
    <3>3. ASSUME NEW throws \in BOOLEAN, RunEnds(c, throws)
          PROVE  call[c].at # "written" /\ call'[c].at \notin Knowing
      <4>1. call[c].at = "running" /\ call'[c].at \in {"failing", "succeeding"}
        BY <3>3 DEF RunEnds, TypeOK
      <4> QED
        BY <4>1 DEF Knowing
    <3> QED
      BY <1>1, <3>1, <3>2, <3>3
  <2>3. LoadedKnow'
    BY <2>1 DEF KnowInv, LoadedKnow
  <2> QED
    BY <2>1, <2>2, <2>3, KnowQuiet
<1>2. CASE Requeued(c)
  <2>1. [at |-> NextRunWithBackoff(c.task, call[c].errors), errors |-> call[c].errors] \in Entry
    BY <1>0, NextRunType DEF Entry
  <2>2. call'[c].at = "leaving" /\ \A d \in Call \ {c} : call'[d] = call[d]
    BY <1>2 DEF Requeued, GoTo, TypeOK, CallState
  <2> QED
    BY <1>2, <2>1, <2>2, KnowSet DEF Requeued, Knowing
<1>3. CASE RowWritten(c)
  <2>1. /\ call[c].at \in {"succeeding", "failing"} /\ GoTo(c, "written")
        /\ UNCHANGED <<scheduledTasks, boot, loaded>>
    BY <1>3 DEF RowWritten
  <2>2. \/ /\ consecutive_errors' = [consecutive_errors EXCEPT ![c.task] = call[c].errors]
           /\ missed' = [missed EXCEPT ![c.proc] = @ \ {c.task}]
        \/ /\ UNCHANGED consecutive_errors
           /\ missed' = [missed EXCEPT ![c.proc] = @ \cup {c.task}]
    BY <1>3 DEF RowWritten
  <2> QED
    BY <1>3, <2>1, <2>2, KnowWritten, KnowUnwritten
<1>4. CASE Rescheduled(c)
  <2>1. [at |-> call[c].next, errors |-> call[c].errors] \in Entry
    BY <1>0 DEF Entry
  <2>2. call'[c].at = "none" /\ \A d \in Call \ {c} : call'[d] = call[d]
    BY <1>4 DEF Rescheduled, Idle, TypeOK
  <2> QED
    BY <1>4, <2>1, <2>2, KnowSet DEF Rescheduled, Knowing
<1> QED
  BY <1>1, <1>2, <1>3, <1>4 DEF CallStep

(* A run begins with the count of its entry, and there is none beside it.  *)
LEMMA KnowFires ==
  ASSUME TypeOK, CallInv, KnowInv, NEW p \in Proc, TimerFires(p)
  PROVE  KnowInv'
<1> DEFINE begun == Due(p) \ Skipped(p)
           New(c) == c.proc = p /\ c.task \in begun /\ c.slot = Slot(p, c.task)
<1>1. /\ call' = [c \in Call |->
           IF New(c)
           THEN [at |-> "locking", errors |-> scheduledTasks[p][c.task].errors, next |-> 0]
           ELSE call[c]]
      /\ UNCHANGED <<consecutive_errors, scheduledTasks, boot, loaded, missed>>
  BY DEF TimerFires, rowVars, bootVars
<1>2. \A t \in begun : t \in Task /\ scheduledTasks[p][t] # None /\ ~Unsaid(p, t)
  BY DEF Due, Scheduled, Skipped, Unsaid, CallInv, Busy
<1>3. \A t \in begun : t \notin missed[p] => scheduledTasks[p][t].errors = consecutive_errors[t]
  BY <1>2 DEF KnowInv, EntriesKnow
<1>4. \A c \in Call : New(c) => c.task \in begun /\ c.proc = p
  OBVIOUS
<1> HIDE DEF begun, New
<1>5. CallsKnow'
  BY <1>1, <1>3, <1>4 DEF KnowInv, CallsKnow
<1>6. \A q \in Proc, t \in Task : Unsaid(q, t) => Unsaid(q, t)'
  <2>1. ASSUME NEW c \in Call, call[c].at = "written"
        PROVE  call'[c] = call[c]
    <3>1. ~New(c)
      BY <1>2, <1>4, <2>1 DEF Unsaid
    <3> QED
      BY <1>1, <3>1
  <2> QED
    BY <2>1 DEF Unsaid
<1>7. LoadedKnow' /\ EntriesKnow'
  BY <1>1, <1>6 DEF KnowInv, LoadedKnow, EntriesKnow
<1> QED
  BY <1>5, <1>7 DEF KnowInv, LoneProcess

LEMMA KnowBoot ==
  ASSUME TypeOK, TimeInv, KnowInv, NEW p \in Proc, BootStep(p) \/ Crash(p)
  PROVE  KnowInv'
<1> USE DEF memVars, bootVars, rowVars
<1>1. CASE Starts(p) \/ LoadReads(p) \/ LoadFails(p)
  <2>1. UNCHANGED <<consecutive_errors, scheduledTasks, call, missed>>
    BY <1>1 DEF Starts, LoadReads, LoadFails
  <2>2. CASE Starts(p) \/ LoadFails(p)
    <3>1. LoadedKnow'
      BY <2>2 DEF Starts, LoadFails, KnowInv, LoadedKnow, TypeOK
    <3> QED
      BY <2>1, <3>1, KnowQuiet
  <2>3. CASE LoadReads(p)
    <3>1. /\ \A t \in Task : loaded'[p][t] \in {None, consecutive_errors[t]}
          /\ \A q \in Proc \ {p} : boot'[q] = boot[q] /\ loaded'[q] = loaded[q]
      BY <2>3 DEF LoadReads, TypeOK
    <3>2. LoadedKnow'
      BY <2>1, <3>1 DEF KnowInv, LoadedKnow
    <3> QED
      BY <2>1, <3>2, KnowQuiet
  <2> QED
    BY <1>1, <2>2, <2>3
<1>2. CASE LoadSchedules(p)
  <2> DEFINE e == [t \in Task |-> IF loaded[p][t] = None THEN scheduledTasks[p][t]
                                  ELSE [at |-> NextRun(t), errors |-> loaded[p][t]]]
  <2>1. /\ boot[p] = "read" /\ boot' = [boot EXCEPT ![p] = "ready"]
        /\ loaded' = [loaded EXCEPT ![p] = NoTasks]
        /\ UNCHANGED <<consecutive_errors, call, missed>>
        /\ scheduledTasks' = scheduledTasks \/ scheduledTasks' = [scheduledTasks EXCEPT ![p] = e]
    BY <1>2 DEF LoadSchedules, SetTasks
  <2>2. \A q \in Proc \ {p} : /\ boot'[q] = boot[q] /\ loaded'[q] = loaded[q]
                              /\ scheduledTasks'[q] = scheduledTasks[q]
    BY <2>1 DEF TypeOK
  <2>3. \A t \in Task : scheduledTasks[p][t] = None
    BY <2>1 DEF TimeInv, Fresh, NoTasks
  <2>4. \A t \in Task : e[t] # None => e[t].errors = consecutive_errors[t]
    BY <2>1, <2>3 DEF KnowInv, LoadedKnow
  <2> HIDE DEF e
  <2>5. EntriesKnow'
    <3> SUFFICES ASSUME NEW q \in Proc, NEW t \in Task, scheduledTasks'[q][t] # None,
                        ~Unsaid(q, t)', t \notin missed[q]
                 PROVE  scheduledTasks'[q][t].errors = consecutive_errors[t]
      BY <2>1 DEF EntriesKnow
    <3>1. ~Unsaid(q, t)
      BY <2>1 DEF Unsaid
    <3>2. CASE q # p
      BY <2>2, <3>1, <3>2 DEF KnowInv, EntriesKnow
    <3>3. CASE q = p
      BY <2>1, <2>3, <2>4, <3>3 DEF TypeOK
    <3> QED
      BY <3>2, <3>3
  <2>6. LoadedKnow' /\ CallsKnow'
    BY <2>1, <2>2 DEF KnowInv, LoadedKnow, CallsKnow, TypeOK
  <2> QED
    BY <2>5, <2>6 DEF KnowInv, LoneProcess
<1>3. CASE Crash(p)
  <2>1. /\ UNCHANGED consecutive_errors
        /\ scheduledTasks' = [scheduledTasks EXCEPT ![p] = NoTasks]
        /\ loaded' = [loaded EXCEPT ![p] = NoTasks]
        /\ \A c \in Call : c.proc = p => call'[c] = Idle
    BY <1>3 DEF Crash
  <2>2. \A q \in Proc, t \in Task : scheduledTasks'[q][t] = None /\ loaded'[q][t] = None
    BY <2>1 DEF KnowInv, LoneProcess, TypeOK, NoTasks
  <2>3. \A c \in Call : call'[c].at = "none"
    BY <2>1 DEF KnowInv, LoneProcess, Call, Idle
  <2> QED
    BY <2>2, <2>3 DEF KnowInv, LoneProcess, CallsKnow, LoadedKnow, EntriesKnow, Knowing
<1> QED
  BY <1>1, <1>2, <1>3 DEF BootStep

LEMMA KnowTick ==
  ASSUME TypeOK, KnowInv, Tick
  PROVE  KnowInv'
<1>1. /\ UNCHANGED <<consecutive_errors, boot, loaded, missed>>
      /\ \A c \in Call : call'[c].at = call[c].at /\ call'[c].errors = call[c].errors
  BY DEF Tick, TypeOK, CallState, bootVars, rowVars
<1>2. \A p \in Proc, t \in Task : scheduledTasks'[p][t] # None =>
        /\ scheduledTasks[p][t] # None
        /\ scheduledTasks'[p][t].errors = scheduledTasks[p][t].errors
  BY DEF Tick, TypeOK, Entry
<1>3. \A p \in Proc, t \in Task : Unsaid(p, t) => Unsaid(p, t)'
  BY <1>1 DEF Unsaid
<1>4. EntriesKnow'
  BY <1>1, <1>2, <1>3 DEF KnowInv, EntriesKnow
<1> QED
  BY <1>1, <1>4 DEF KnowInv, LoneProcess, CallsKnow, LoadedKnow

LEMMA KnowInvariant ==
  TypeOK /\ CallInv /\ TimeInv /\ KnowInv /\ [Next]_vars => KnowInv'
<1> SUFFICES ASSUME TypeOK, CallInv, TimeInv, KnowInv, [Next]_vars PROVE KnowInv'
  OBVIOUS
<1>1. CASE UNCHANGED vars
  <2>1. LoadedKnow'
    BY <1>1 DEF vars, bootVars, rowVars, KnowInv, LoadedKnow
  <2> QED
    BY <1>1, <2>1, KnowQuiet DEF vars, rowVars, memVars
<1>2. CASE \E p \in Proc : RouteStep(p) \/ DeleteReads(p) \/ \E t \in Task : CreateInserts(p, t)
  BY <1>2, SchedulerAssumption DEF RouteStep, CreateSchedules, DeleteCancels, DeleteWrites,
     DeleteReads, CreateInserts, TimeInv, NoRoutes, FixedSchedules
<1>3. CASE Tick \/ \E c \in Call : LockTaken(c) \/ CallStep(c)
  BY <1>3, KnowTick, KnowCall
<1>4. CASE \E p \in Proc : TimerFires(p) \/ BootStep(p) \/ Crash(p)
  BY <1>4, KnowFires, KnowBoot
<1> QED
  BY <1>1, <1>2, <1>3, <1>4 DEF Next

(* As long as no schedule is made or deleted, and one process runs, what   *)
(* it knows of a task's failures between runs is what the row says,        *)
(* wherever it crashed, unless its last write of them failed.              *)
THEOREM ErrorsAreKept == Spec /\ FixedSchedules /\ LoneProcess => []ErrorsAgree
<1>1. Spec /\ FixedSchedules /\ LoneProcess => []KnowInv
  BY TimeAlways, KnowInit, KnowInvariant, PTL DEF Spec
<1> QED
  BY <1>1, KnowImplies, PTL
---------------------------------------------------------------------------
(* The backoff.  What is left of a rest is never more than the time to the *)
(* next run: that of the entry, or, from the end of a run until its entry  *)
(* is set, that of the call.                                               *)

Ending == {"succeeding", "failing", "written"}

Uncalled(p, t) == \A c \in Call : c.proc = p /\ c.task = t => ~Busy(c)

EntriesRest ==
  \A p \in Proc, t \in Task :
    /\ scheduledTasks[p][t] = None => rest[p][t] = 0
    /\ scheduledTasks[p][t] # None /\ Uncalled(p, t) => rest[p][t] <= scheduledTasks[p][t].at

CallsRest ==
  \A c \in Call :
    /\ Busy(c) /\ call[c].at \notin Ending => rest[c.proc][c.task] = 0
    /\ call[c].at \in Ending => rest[c.proc][c.task] <= call[c].next

Resting == EntriesRest /\ CallsRest

LEMMA RestingInit == Init => Resting
<1> SUFFICES ASSUME Init PROVE Resting
  OBVIOUS
<1>1. /\ \A p \in Proc, t \in Task : scheduledTasks[p][t] = None /\ rest[p][t] = 0
      /\ \A c \in Call : call[c].at = "none"
  BY DEF Init, NoTasks, Idle
<1> QED
  BY <1>1 DEF Resting, EntriesRest, CallsRest, Ending, Busy

(* A call goes on, neither to its end nor from there.                      *)
LEMMA RestingGoesOn ==
  ASSUME TypeOK, CallInv, Resting, NEW c \in Call, NEW at \in Stage, Busy(c), GoTo(c, at),
         at # "none", call[c].at \in Ending <=> at \in Ending,
         UNCHANGED <<scheduledTasks, rest>>
  PROVE  Resting'
<1>1. /\ \A d \in Call \ {c} : call'[d] = call[d]
      /\ call'[c].at = at /\ call'[c].next = call[c].next
  BY DEF GoTo, TypeOK, CallState
<1>2. \A p \in Proc, t \in Task : Uncalled(p, t)' => Uncalled(p, t)
  BY <1>1 DEF Uncalled, Busy
<1>3. EntriesRest'
  BY <1>2 DEF Resting, EntriesRest
<1>4. CallsRest'
  BY <1>1 DEF Resting, CallsRest, Busy
<1> QED
  BY <1>3, <1>4 DEF Resting

(* One call of a task is all there is in its process.                      *)
LEMMA OthersApart ==
  ASSUME CallInv, NEW c \in Call, Busy(c), NEW d \in Call \ {c}, Busy(d)
  PROVE  d.proc # c.proc \/ d.task # c.task
  BY DEF CallInv

LEMMA RestingCall ==
  ASSUME TypeOK, CallInv, TimeInv, Resting, NEW c \in Call, LockTaken(c) \/ CallStep(c)
  PROVE  Resting'
<1>0. /\ c.proc \in Proc /\ c.task \in Task
      /\ call[c].errors \in 0..MaxErrors /\ call[c].next \in Nat
      /\ rest[c.proc][c.task] \in Nat
  <2>1. c.proc \in Proc /\ c.task \in Task
    BY DEF Call
  <2>2. call[c].errors \in 0..MaxErrors /\ call[c].next \in Nat
    BY DEF TypeOK, CallState
  <2>3. rest[c.proc][c.task] \in Nat
    BY <2>1 DEF TypeOK
  <2> QED
    BY <2>1, <2>2, <2>3
<1>1. CASE LockTaken(c) \/ LockFailed(c) \/ Queued(c) \/ RowWritten(c)
  <2>1. Busy(c) /\ UNCHANGED <<scheduledTasks, rest>>
    BY <1>1 DEF LockTaken, LockFailed, Queued, RowWritten, Busy
  <2>2. \E at \in Stage : GoTo(c, at) /\ at # "none" /\ (call[c].at \in Ending <=> at \in Ending)
    BY <1>1 DEF LockTaken, LockFailed, Queued, RowWritten, Stage, Ending
  <2> QED
    BY <2>1, <2>2, RestingGoesOn
<1>2. CASE Requeued(c)
  <2> DEFINE entry == [at |-> NextRunWithBackoff(c.task, call[c].errors),
                       errors |-> call[c].errors]
  <2>1. entry \in Entry
    BY <1>0, NextRunType DEF Entry
  <2>2. entry # None
    BY <2>1, SchedulerAssumption DEF Entry
  <2> HIDE DEF entry
  <2>3. /\ scheduledTasks'[c.proc][c.task] = entry
        /\ \A p \in Proc, t \in Task : p # c.proc \/ t # c.task
             => scheduledTasks'[p][t] = scheduledTasks[p][t]
    BY <1>0, <1>2 DEF Requeued, SetEntry, TypeOK, entry
  <2>4. /\ call[c].at = "queued" /\ call'[c].at = "leaving" /\ UNCHANGED rest
        /\ \A d \in Call \ {c} : call'[d] = call[d]
    BY <1>2 DEF Requeued, GoTo, TypeOK, CallState
  <2>5. \A p \in Proc, t \in Task : Uncalled(p, t)' => Uncalled(p, t) /\ (p # c.proc \/ t # c.task)
    BY <2>4 DEF Uncalled, Busy
  <2>6. EntriesRest'
    BY <2>2, <2>3, <2>4, <2>5 DEF Resting, EntriesRest
  <2>7. CallsRest'
    BY <2>4 DEF Resting, CallsRest, Busy, Ending
  <2> QED
    BY <2>6, <2>7 DEF Resting
<1>3. ASSUME NEW throws \in BOOLEAN, RunEnds(c, throws)
      PROVE  Resting'
  <2> DEFINE errors == IF throws THEN Earlier(call[c].errors + 1, MaxErrors) ELSE 0
             next == NextRunWithBackoff(c.task, errors)
             owed == IF throws THEN BACKOFF[errors] ELSE 0
  <2>1. errors \in 0..MaxErrors /\ (throws => errors \in 1..MaxErrors)
    BY <1>0, SchedulerAssumption DEF Earlier
  <2>2. NextRun(c.task) \in Nat
    BY <1>0, <2>1, NextRunType
  <2>3. owed <= next
    <3> HIDE DEF errors
    <3>1. CASE throws
      <4>1. BACKOFF[errors] \in Nat /\ errors # 0
        BY <2>1, <3>1, SchedulerAssumption
      <4>2. next = Later(NextRun(c.task), BACKOFF[errors])
        BY <4>1 DEF NextRunWithBackoff
      <4> QED
        BY <2>2, <3>1, <4>1, <4>2 DEF Later
    <3>2. CASE ~throws
      <4>1. next \in Nat
        BY <1>0, <2>1, NextRunType
      <4> QED
        BY <3>2, <4>1
    <3> QED
      BY <3>1, <3>2
  <2> HIDE DEF errors, next, owed
  <2>4. /\ call[c].at = "running"
        /\ call' = [call EXCEPT ![c] =
             [at |-> IF throws THEN "failing" ELSE "succeeding", errors |-> errors, next |-> next]]
        /\ rest' = [rest EXCEPT ![c.proc][c.task] = owed]
        /\ UNCHANGED scheduledTasks
    BY <1>3 DEF RunEnds, errors, next, owed
  <2>5. /\ \A d \in Call \ {c} : call'[d] = call[d]
        /\ call'[c].at \in Ending /\ call'[c].next = next
    BY <2>4 DEF TypeOK, Ending
  <2>6. /\ rest'[c.proc][c.task] = owed
        /\ \A p \in Proc, t \in Task : p # c.proc \/ t # c.task => rest'[p][t] = rest[p][t]
    BY <1>0, <2>4 DEF TypeOK
  <2>7. \A p \in Proc, t \in Task : Uncalled(p, t)' => Uncalled(p, t) /\ (p # c.proc \/ t # c.task)
    BY <2>4, <2>5 DEF Uncalled, Busy, Ending
  <2>8. scheduledTasks[c.proc][c.task] # None
    BY <2>4 DEF TimeInv, DueMeanwhile
  <2>9. EntriesRest'
    BY <2>4, <2>6, <2>7, <2>8 DEF Resting, EntriesRest
  <2>10. CallsRest'
    <3> SUFFICES ASSUME NEW d \in Call
                 PROVE  /\ Busy(d)' /\ call'[d].at \notin Ending => rest'[d.proc][d.task] = 0
                        /\ call'[d].at \in Ending => rest'[d.proc][d.task] <= call'[d].next
      BY DEF CallsRest
    <3>1. CASE d = c
      BY <2>3, <2>5, <2>6, <3>1
    <3>2. CASE d # c
      <4>1. d.proc \in Proc /\ d.task \in Task
        BY DEF Call
      <4>2. Busy(d) => d.proc # c.proc \/ d.task # c.task
        BY <2>4, <3>2, OthersApart DEF Busy
      <4> QED
        BY <2>5, <2>6, <3>2, <4>1, <4>2 DEF Resting, CallsRest, Busy, Ending
    <3> QED
      BY <3>1, <3>2
  <2> QED
    BY <2>9, <2>10 DEF Resting
<1>4. CASE Rescheduled(c)
  <2> DEFINE entry == [at |-> call[c].next, errors |-> call[c].errors]
  <2>1. entry \in Entry /\ entry.at = call[c].next
    BY <1>0 DEF Entry
  <2>2. entry # None
    BY <2>1, SchedulerAssumption DEF Entry
  <2>3. SetEntry(c, entry)
    BY <1>4 DEF Rescheduled
  <2> HIDE DEF entry
  <2>4. /\ scheduledTasks'[c.proc][c.task] = entry
        /\ \A p \in Proc, t \in Task : p # c.proc \/ t # c.task
             => scheduledTasks'[p][t] = scheduledTasks[p][t]
    BY <1>0, <2>3 DEF SetEntry, TypeOK
  <2>5. /\ call[c].at = "written" /\ call'[c].at = "none" /\ UNCHANGED rest
        /\ \A d \in Call \ {c} : call'[d] = call[d]
    BY <1>4 DEF Rescheduled, Idle, TypeOK
  <2>6. \A p \in Proc, t \in Task : (p # c.proc \/ t # c.task) /\ Uncalled(p, t)'
                                      => Uncalled(p, t)
    BY <2>5 DEF Uncalled, Busy
  <2>7. rest[c.proc][c.task] <= call[c].next
    BY <2>5 DEF Resting, CallsRest, Ending
  <2>8. EntriesRest'
    <3> SUFFICES ASSUME NEW p \in Proc, NEW t \in Task
                 PROVE  /\ scheduledTasks'[p][t] = None => rest[p][t] = 0
                        /\ scheduledTasks'[p][t] # None /\ Uncalled(p, t)'
                             => rest[p][t] <= scheduledTasks'[p][t].at
      BY <2>5 DEF EntriesRest
    <3>1. CASE p = c.proc /\ t = c.task
      BY <2>1, <2>2, <2>4, <2>7, <3>1
    <3>2. CASE p # c.proc \/ t # c.task
      BY <2>4, <2>6, <3>2 DEF Resting, EntriesRest
    <3> QED
      BY <3>1, <3>2
  <2>9. CallsRest'
    BY <2>5 DEF Resting, CallsRest, Busy, Ending
  <2> QED
    BY <2>8, <2>9 DEF Resting
<1>5. CASE Left(c)
  <2>1. /\ call[c].at = "leaving" /\ call'[c].at = "none" /\ UNCHANGED <<rest, scheduledTasks>>
        /\ \A d \in Call \ {c} : call'[d] = call[d]
    BY <1>5 DEF Left, Idle, TypeOK
  <2>2. \A p \in Proc, t \in Task : (p # c.proc \/ t # c.task) /\ Uncalled(p, t)'
                                      => Uncalled(p, t)
    BY <2>1 DEF Uncalled, Busy
  <2>3. rest[c.proc][c.task] = 0
    BY <2>1 DEF Resting, CallsRest, Busy, Ending
  <2>4. \A p \in Proc, t \in Task : scheduledTasks[p][t] # None => 0 <= scheduledTasks[p][t].at
    BY DEF TypeOK, Entry
  <2>5. EntriesRest'
    BY <2>1, <2>2, <2>3, <2>4 DEF Resting, EntriesRest
  <2>6. CallsRest'
    BY <2>1 DEF Resting, CallsRest, Busy, Ending
  <2> QED
    BY <2>5, <2>6 DEF Resting
<1> QED
  BY <1>1, <1>2, <1>3, <1>4, <1>5 DEF CallStep

(* A run begins when its task is due, which it is only after its rest.     *)
LEMMA BeginsRested ==
  ASSUME TypeOK, CallInv, Resting, NEW p \in Proc, NEW t \in Due(p) \ Skipped(p)
  PROVE  rest[p][t] = 0
<1>1. t \in Task /\ scheduledTasks[p][t] # None /\ scheduledTasks[p][t].at = 0
  BY DEF Due, Scheduled
<1>2. Uncalled(p, t)
  BY DEF Uncalled, CallInv, Skipped
<1>3. rest[p][t] <= 0 /\ rest[p][t] \in Nat
  BY <1>1, <1>2 DEF Resting, EntriesRest, TypeOK
<1> QED
  BY <1>3

LEMMA RestingFires ==
  ASSUME TypeOK, CallInv, Resting, NEW p \in Proc, TimerFires(p)
  PROVE  Resting'
<1> DEFINE begun == Due(p) \ Skipped(p)
           New(c) == c.proc = p /\ c.task \in begun /\ c.slot = Slot(p, c.task)
<1>1. /\ call' = [c \in Call |->
           IF New(c)
           THEN [at |-> "locking", errors |-> scheduledTasks[p][c.task].errors, next |-> 0]
           ELSE call[c]]
      /\ UNCHANGED <<scheduledTasks, rest>>
  BY DEF TimerFires
<1>2. \A t \in begun : rest[p][t] = 0
  BY BeginsRested
<1>3. \A c \in Call : New(c) => c.task \in begun /\ c.proc = p
  OBVIOUS
<1> HIDE DEF begun, New
<1>4. \A q \in Proc, t \in Task : Uncalled(q, t)' => Uncalled(q, t)
  BY <1>1 DEF Uncalled, Busy
<1>5. EntriesRest'
  BY <1>1, <1>4 DEF Resting, EntriesRest
<1>6. CallsRest'
  BY <1>1, <1>2, <1>3 DEF Resting, CallsRest, Busy, Ending
<1> QED
  BY <1>5, <1>6 DEF Resting

LEMMA RestingBoot ==
  ASSUME TypeOK, TimeInv, Resting, NEW p \in Proc, BootStep(p) \/ Crash(p)
  PROVE  Resting'
<1> USE DEF memVars, bootVars, rowVars
<1>1. CASE Starts(p) \/ LoadReads(p) \/ LoadFails(p)
  <2>1. UNCHANGED <<scheduledTasks, rest, call>>
    BY <1>1 DEF Starts, LoadReads, LoadFails
  <2> QED
    BY <2>1 DEF Resting, EntriesRest, CallsRest, Uncalled, Busy
<1>2. CASE LoadSchedules(p)
  <2> DEFINE e == [t \in Task |-> IF loaded[p][t] = None THEN scheduledTasks[p][t]
                                  ELSE [at |-> NextRun(t), errors |-> loaded[p][t]]]
  <2>1. /\ boot[p] = "read" /\ UNCHANGED <<rest, call>>
        /\ scheduledTasks' = scheduledTasks \/ scheduledTasks' = [scheduledTasks EXCEPT ![p] = e]
    BY <1>2 DEF LoadSchedules, SetTasks
  <2>2. \A q \in Proc \ {p} : scheduledTasks'[q] = scheduledTasks[q]
    BY <2>1 DEF TypeOK
  <2>3. \A t \in Task : rest[p][t] = 0
    BY <2>1 DEF TimeInv, Fresh, NoTasks, Resting, EntriesRest
  <2>4. e \in [Task -> Entry \cup {None}]
    <3>1. \A t \in Task : NextRun(t) \in Nat
      BY NextRunType, SchedulerAssumption
    <3> QED
      BY <3>1 DEF TypeOK, Entry
  <2> HIDE DEF e
  <2>5. scheduledTasks' \in [Proc -> [Task -> Entry \cup {None}]]
    BY <2>1, <2>4 DEF TypeOK
  <2>6. \A t \in Task : scheduledTasks'[p][t] # None => 0 <= scheduledTasks'[p][t].at
    BY <2>5 DEF Entry
  <2>7. EntriesRest'
    BY <2>1, <2>2, <2>3, <2>6 DEF Resting, EntriesRest, Uncalled, Busy
  <2>8. CallsRest'
    BY <2>1 DEF Resting, CallsRest, Busy
  <2> QED
    BY <2>7, <2>8 DEF Resting
<1>3. CASE Crash(p)
  <2>1. /\ scheduledTasks' = [scheduledTasks EXCEPT ![p] = NoTasks]
        /\ rest' = [rest EXCEPT ![p] = [t \in Task |-> 0]]
        /\ \A c \in Call : call'[c] = IF c.proc = p THEN Idle ELSE call[c]
    BY <1>3 DEF Crash
  <2>2. \A q \in Proc \ {p} : scheduledTasks'[q] = scheduledTasks[q] /\ rest'[q] = rest[q]
    BY <2>1 DEF TypeOK
  <2>3. \A t \in Task : scheduledTasks'[p][t] = None /\ rest'[p][t] = 0
    BY <2>1 DEF TypeOK, NoTasks
  <2>4. \A q \in Proc \ {p}, t \in Task : Uncalled(q, t)' => Uncalled(q, t)
    BY <2>1 DEF Uncalled, Busy
  <2>5. EntriesRest'
    BY <2>2, <2>3, <2>4 DEF Resting, EntriesRest
  <2>6. \A c \in Call : c.proc = p => ~Busy(c)' /\ call'[c].at \notin Ending
    BY <2>1 DEF Busy, Idle, Ending
  <2>7. \A c \in Call : c.proc \in Proc
    BY DEF Call
  <2>8. CallsRest'
    BY <2>1, <2>2, <2>6, <2>7 DEF Resting, CallsRest, Busy
  <2> QED
    BY <2>5, <2>8 DEF Resting
<1> QED
  BY <1>1, <1>2, <1>3 DEF BootStep

LEMMA RestingTick ==
  ASSUME TypeOK, Resting, Tick
  PROVE  Resting'
<1>1. \A m, n \in Nat : m <= n => Less(m) <= Less(n)
  BY DEF Less
<1>2. \A c \in Call : call'[c].at = call[c].at /\ call'[c].next = Less(call[c].next)
  BY DEF Tick, TypeOK, CallState
<1>3. \A p \in Proc, t \in Task : /\ rest[p][t] \in Nat
                                  /\ rest'[p][t] = Less(rest[p][t])
  BY DEF Tick, TypeOK
<1>4. \A p \in Proc, t \in Task : scheduledTasks'[p][t] # None =>
        /\ scheduledTasks[p][t] # None /\ scheduledTasks[p][t].at \in Nat
        /\ scheduledTasks'[p][t].at = Less(scheduledTasks[p][t].at)
  BY DEF Tick, TypeOK, Entry
<1>5. \A p \in Proc, t \in Task : scheduledTasks'[p][t] = None => scheduledTasks[p][t] = None
  <2>1. ASSUME NEW p \in Proc, NEW t \in Task, scheduledTasks[p][t] # None
        PROVE  scheduledTasks'[p][t] # None
    <3>1. scheduledTasks[p][t] \in Entry
      BY <2>1 DEF TypeOK
    <3>2. [scheduledTasks[p][t] EXCEPT !.at = Less(@)] \in Entry
      BY <3>1 DEF Entry, Less
    <3> QED
      BY <2>1, <3>2, SchedulerAssumption DEF Tick, Entry
  <2> QED
    BY <2>1
<1>6. EntriesRest'
  <2> SUFFICES ASSUME NEW p \in Proc, NEW t \in Task
               PROVE  /\ scheduledTasks'[p][t] = None => rest'[p][t] = 0
                      /\ scheduledTasks'[p][t] # None /\ Uncalled(p, t)'
                           => rest'[p][t] <= scheduledTasks'[p][t].at
    BY DEF EntriesRest
  <2>1. Uncalled(p, t)' <=> Uncalled(p, t)
    BY <1>2 DEF Uncalled, Busy
  <2>2. scheduledTasks'[p][t] = None => rest'[p][t] = 0
    BY <1>3, <1>5 DEF Resting, EntriesRest, Less
  <2>3. CASE scheduledTasks'[p][t] # None /\ Uncalled(p, t)'
    <3>1. rest[p][t] <= scheduledTasks[p][t].at
      BY <1>4, <2>1, <2>3 DEF Resting, EntriesRest
    <3> QED
      BY <1>1, <1>3, <1>4, <2>3, <3>1
  <2> QED
    BY <2>2, <2>3
<1>7. CallsRest'
  <2>1. \A c \in Call : c.proc \in Proc /\ c.task \in Task /\ call[c].next \in Nat
    BY DEF Call, TypeOK, CallState
  <2> QED
    BY <1>1, <1>2, <1>3, <2>1 DEF Resting, CallsRest, Busy, Less
<1> QED
  BY <1>6, <1>7 DEF Resting

LEMMA RestingInvariant ==
  TypeOK /\ CallInv /\ TimeInv /\ Resting /\ [Next]_vars => Resting'
<1> SUFFICES ASSUME TypeOK, CallInv, TimeInv, Resting, [Next]_vars PROVE Resting'
  OBVIOUS
<1>1. CASE UNCHANGED vars
  BY <1>1 DEF vars, memVars, Resting, EntriesRest, CallsRest, Uncalled, Busy
<1>2. CASE \E p \in Proc : RouteStep(p) \/ DeleteReads(p) \/ \E t \in Task : CreateInserts(p, t)
  BY <1>2, SchedulerAssumption DEF RouteStep, CreateSchedules, DeleteCancels, DeleteWrites,
     DeleteReads, CreateInserts, TimeInv, NoRoutes, FixedSchedules
<1>3. CASE Tick \/ \E c \in Call : LockTaken(c) \/ CallStep(c)
  BY <1>3, RestingTick, RestingCall
<1>4. CASE \E p \in Proc : TimerFires(p) \/ BootStep(p) \/ Crash(p)
  BY <1>4, RestingFires, RestingBoot
<1> QED
  BY <1>1, <1>2, <1>3, <1>4 DEF Next

(* As long as no schedule is made or deleted, a task that a process saw    *)
(* fail is not run again before its backoff is over, however the times of  *)
(* its cron expression fall.                                               *)
THEOREM BackoffsAreRespected == Spec /\ FixedSchedules => BackoffRespected
<1> DEFINE Rested == \A c \in Call : call[c].at = "none" /\ call'[c].at = "locking"
                                       => rest[c.proc][c.task] = 0
<1>1. Spec /\ FixedSchedules => [](TypeOK /\ CallInv /\ Resting)
  BY TimeAlways, RestingInit, RestingInvariant, PTL DEF Spec
<1>2. ASSUME TypeOK, CallInv, Resting, [Next]_vars
      PROVE  Rested
  <2>1. ASSUME NEW p \in Proc, TimerFires(p)
        PROVE  Rested
    <3>1. \A c \in Call : call'[c] = call[c] \/ (c.proc = p /\ c.task \in Due(p) \ Skipped(p))
      BY <2>1 DEF TimerFires
    <3>2. \A t \in Due(p) \ Skipped(p) : rest[p][t] = 0
      BY <1>2, BeginsRested
    <3> QED
      BY <3>1, <3>2
  <2>2. ASSUME NEW c \in Call, LockTaken(c) \/ CallStep(c)
        PROVE  Rested
    <3>1. call[c].at # "none" /\ \A d \in Call \ {c} : call'[d] = call[d]
      BY <1>2, <2>2 DEF LockTaken, CallStep, LockFailed, Queued, Requeued, RunEnds, RowWritten,
         Rescheduled, Left, GoTo, TypeOK
    <3> QED
      BY <3>1
  <2>3. CASE Tick
    BY <1>2, <2>3 DEF Tick, TypeOK, CallState
  <2>4. ASSUME NEW p \in Proc, Crash(p)
        PROVE  Rested
    BY <2>4 DEF Crash, Idle
  <2>5. CASE UNCHANGED call
    BY <2>5
  <2>6. ASSUME NEW p \in Proc,
               BootStep(p) \/ RouteStep(p) \/ DeleteReads(p) \/ \E t \in Task : CreateInserts(p, t)
        PROVE  UNCHANGED call
    BY <2>6 DEF BootStep, Starts, LoadReads, LoadFails, LoadSchedules, RouteStep, CreateSchedules,
       DeleteCancels, DeleteWrites, DeleteReads, CreateInserts, memVars
  <2> QED
    BY <1>2, <2>1, <2>2, <2>3, <2>4, <2>5, <2>6 DEF Next, vars
<1> QED
  BY <1>1, <1>2, PTL DEF Spec, BackoffRespected
---------------------------------------------------------------------------
(***************************************************************************)
(* Calls end, and tasks are released.  A task that stayed in runningTasks  *)
(* would never be run again by its process.                                *)
(***************************************************************************)

(* Every mark in runningTasks is that of a call under way.                 *)
MarkedByCalls ==
  \A p \in Proc : \A t \in runningTasks[p] :
    \E c \in Call : Busy(c) /\ c.proc = p /\ c.task = t

MarkInv == TypeOK /\ CallInv /\ MarkedByCalls

LEMMA MarksKept ==
  ASSUME MarkedByCalls, UNCHANGED runningTasks, \A c \in Call : Busy(c) => Busy(c)'
  PROVE  MarkedByCalls'
<1>1. ASSUME NEW p \in Proc, NEW t \in runningTasks[p]
      PROVE  \E c \in Call : Busy(c)' /\ c.proc = p /\ c.task = t
  BY DEF MarkedByCalls
<1> QED
  BY <1>1 DEF MarkedByCalls

LEMMA MarkTakenOut ==
  ASSUME TypeOK, MarkedByCalls, NEW c \in Call, call' = [call EXCEPT ![c] = Idle],
         runningTasks' = [runningTasks EXCEPT ![c.proc] = @ \ {c.task}]
  PROVE  MarkedByCalls' /\ ~Busy(c)' /\ c.task \notin runningTasks'[c.proc]
<1>1. c.proc \in Proc
  BY DEF Call
<1>2. /\ \A p \in Proc \ {c.proc} : runningTasks'[p] = runningTasks[p]
      /\ runningTasks'[c.proc] = runningTasks[c.proc] \ {c.task}
  BY <1>1 DEF TypeOK
<1>3. \A d \in Call \ {c} : Busy(d) => Busy(d)'
  BY DEF Busy, TypeOK
<1>4. ASSUME NEW p \in Proc, NEW t \in runningTasks'[p]
      PROVE  \E d \in Call : Busy(d)' /\ d.proc = p /\ d.task = t
  <2>1. t \in runningTasks[p] /\ ~(p = c.proc /\ t = c.task)
    BY <1>2, <1>4
  <2>2. PICK d \in Call : Busy(d) /\ d.proc = p /\ d.task = t
    BY <2>1 DEF MarkedByCalls
  <2> QED
    BY <1>3, <2>1, <2>2
<1>5. ~Busy(c)'
  BY DEF Busy, Idle, TypeOK
<1> QED
  BY <1>2, <1>4, <1>5 DEF MarkedByCalls

LEMMA MarkFires ==
  ASSUME TypeOK, MarkedByCalls, NEW p \in Proc, TimerFires(p)
  PROVE  MarkedByCalls' /\ \A c \in Call : Busy(c) => Busy(c)'
<1> DEFINE begun == Due(p) \ Skipped(p)
           New(c) == c.proc = p /\ c.task \in begun /\ c.slot = Slot(p, c.task)
<1>1. /\ call' = [c \in Call |->
           IF New(c)
           THEN [at |-> "locking", errors |-> scheduledTasks[p][c.task].errors, next |-> 0]
           ELSE call[c]]
      /\ runningTasks' = [runningTasks EXCEPT ![p] = @ \cup begun]
      /\ \A t \in begun : FreeSlots(p, t) # {}
  BY DEF TimerFires
<1>2. \A c \in Call : New(c) \/ Busy(c) => Busy(c)'
  BY <1>1 DEF Busy
<1>3. ASSUME NEW t \in begun
      PROVE  \E c \in Call : New(c) /\ c.proc = p /\ c.task = t
  <2> DEFINE c == [proc |-> p, task |-> t, slot |-> Slot(p, t)]
  <2>1. Slot(p, t) \in 1..MaxCalls
    BY <1>1 DEF Slot, FreeSlots
  <2>2. t \in Task
    BY DEF Due, Scheduled
  <2>3. c \in Call
    BY <2>1, <2>2 DEF Call
  <2>4. c.proc = p /\ c.task = t /\ c.slot = Slot(p, t)
    OBVIOUS
  <2> HIDE DEF c
  <2> QED
    BY <2>3, <2>4
<1> HIDE DEF New
<1>4. ASSUME NEW q \in Proc, NEW t \in runningTasks'[q]
      PROVE  \E c \in Call : Busy(c)' /\ c.proc = q /\ c.task = t
  <2>1. t \in runningTasks[q] \/ (q = p /\ t \in begun)
    <3> HIDE DEF begun
    <3> QED
      BY <1>1, <1>4 DEF TypeOK
  <2> QED
    BY <1>2, <1>3, <2>1 DEF MarkedByCalls
<1> QED
  BY <1>2, <1>4 DEF MarkedByCalls

LEMMA MarkCrash ==
  ASSUME TypeOK, MarkedByCalls, NEW p \in Proc, Crash(p)
  PROVE  /\ MarkedByCalls'
         /\ \A c \in Call : Busy(c) => Busy(c)' \/ c.task \notin runningTasks'[c.proc]
<1>1. /\ runningTasks'[p] = {}
      /\ \A q \in Proc \ {p} : runningTasks'[q] = runningTasks[q]
  BY DEF Crash, TypeOK
<1>2. \A c \in Call : c.proc # p => call'[c] = call[c]
  BY DEF Crash
<1>3. ASSUME NEW q \in Proc, NEW t \in runningTasks'[q]
      PROVE  \E c \in Call : Busy(c)' /\ c.proc = q /\ c.task = t
  BY <1>1, <1>2, <1>3 DEF MarkedByCalls, Busy
<1> QED
  BY <1>1, <1>2, <1>3 DEF MarkedByCalls, Busy

(* What a step does to a call: it goes on, by a step of its own, or is     *)
(* over, and its task released.                                            *)
Following(at) ==
  CASE at = "locking" -> {"queueing", "running", "leaving"}
    [] at = "queueing" -> {"queued"}
    [] at = "queued" -> {"leaving"}
    [] at = "running" -> {"succeeding", "failing"}
    [] at \in {"succeeding", "failing"} -> {"written"}
    [] OTHER -> {}

Released(c) == ~Busy(c) /\ c.task \notin runningTasks[c.proc]

CallMoves(c) ==
  \/ call'[c].at = call[c].at
  \/ call'[c].at \in Following(call[c].at)
  \/ Released(c)'

LEMMA CallStepMoves ==
  ASSUME MarkInv, NEW c \in Call, LockTaken(c) \/ CallStep(c)
  PROVE  /\ MarkedByCalls' /\ \A d \in Call \ {c} : call'[d] = call[d]
         /\ Busy(c) /\ (call'[c].at \in Following(call[c].at) \/ Released(c)')
<1> USE DEF MarkInv
<1>1. CASE LockTaken(c) \/ LockFailed(c) \/ Queued(c) \/ Requeued(c) \/ RowWritten(c)
  <2>1. Busy(c) /\ UNCHANGED runningTasks
    BY <1>1 DEF LockTaken, LockFailed, Queued, Requeued, RowWritten, Busy
  <2>2. \E at \in Following(call[c].at) \ {"none"} : GoTo(c, at)
    BY <1>1 DEF LockTaken, LockFailed, Queued, Requeued, RowWritten, Following
  <2>3. /\ \A d \in Call \ {c} : call'[d] = call[d]
        /\ call'[c].at \in Following(call[c].at) \ {"none"}
    BY <2>2 DEF GoTo, TypeOK, CallState
  <2> QED
    BY <2>1, <2>3, MarksKept DEF Busy
<1>2. ASSUME NEW throws \in BOOLEAN, RunEnds(c, throws)
      PROVE  /\ MarkedByCalls' /\ \A d \in Call \ {c} : call'[d] = call[d]
             /\ Busy(c) /\ call'[c].at \in Following(call[c].at)
  <2>1. /\ call[c].at = "running" /\ UNCHANGED runningTasks
        /\ \A d \in Call \ {c} : call'[d] = call[d]
        /\ call'[c].at \in {"succeeding", "failing"}
    BY <1>2 DEF RunEnds, TypeOK
  <2> QED
    BY <2>1, MarksKept DEF Busy, Following
<1>3. CASE Rescheduled(c) \/ Left(c)
  <2>1. /\ Busy(c) /\ call' = [call EXCEPT ![c] = Idle]
        /\ runningTasks' = [runningTasks EXCEPT ![c.proc] = @ \ {c.task}]
    BY <1>3 DEF Rescheduled, Left, Busy
  <2> QED
    BY <2>1, MarkTakenOut DEF TypeOK, Released
<1> QED
  BY <1>1, <1>2, <1>3 DEF CallStep

LEMMA CallsMove ==
  ASSUME MarkInv, [Next]_vars
  PROVE  MarkedByCalls' /\ \A c \in Call : Busy(c) => CallMoves(c)
<1> USE DEF MarkInv
<1>1. ASSUME UNCHANGED runningTasks, \A c \in Call : call'[c].at = call[c].at
      PROVE  MarkedByCalls' /\ \A c \in Call : Busy(c) => CallMoves(c)
  BY <1>1, MarksKept DEF Busy, CallMoves
<1>2. ASSUME NEW c \in Call, LockTaken(c) \/ CallStep(c)
      PROVE  MarkedByCalls' /\ \A d \in Call : Busy(d) => CallMoves(d)
  BY <1>2, CallStepMoves DEF CallMoves
<1>3. ASSUME NEW p \in Proc, TimerFires(p)
      PROVE  MarkedByCalls' /\ \A c \in Call : Busy(c) => CallMoves(c)
  <2>1. \A c \in Call : Busy(c) => call'[c] = call[c]
    <3>1. \A t \in Due(p) \ Skipped(p) : call[[proc |-> p, task |-> t, slot |-> Slot(p, t)]].at = "none"
      BY <1>3 DEF TimerFires, Slot, FreeSlots
    <3>2. \A c \in Call : c = [proc |-> c.proc, task |-> c.task, slot |-> c.slot]
      BY DEF Call
    <3>3. \A c \in Call : c.proc = p /\ c.task \in Due(p) \ Skipped(p) /\ c.slot = Slot(p, c.task)
                            => ~Busy(c)
      BY <3>1, <3>2 DEF Busy
    <3> QED
      BY <1>3, <3>3 DEF TimerFires
  <2> QED
    BY <1>3, <2>1, MarkFires DEF CallMoves
<1>4. ASSUME NEW p \in Proc, Crash(p)
      PROVE  MarkedByCalls' /\ \A c \in Call : Busy(c) => CallMoves(c)
  <2>1. \A c \in Call : call'[c] = call[c] \/ (~Busy(c)' /\ c.proc = p)
    BY <1>4 DEF Crash, Busy, Idle
  <2>2. runningTasks'[p] = {}
    BY <1>4 DEF Crash, TypeOK
  <2> QED
    BY <1>4, <2>1, <2>2, MarkCrash DEF CallMoves, Released
<1>5. CASE Tick
  BY <1>5, <1>1 DEF Tick, TypeOK, CallState
<1>6. ASSUME NEW p \in Proc,
             BootStep(p) \/ RouteStep(p) \/ DeleteReads(p) \/ \E t \in Task : CreateInserts(p, t)
      PROVE  UNCHANGED <<call, runningTasks>>
  BY <1>6 DEF BootStep, Starts, LoadReads, LoadFails, LoadSchedules, RouteStep, CreateSchedules,
     DeleteCancels, DeleteWrites, DeleteReads, CreateInserts, memVars
<1>7. CASE UNCHANGED vars
  BY <1>7, <1>1 DEF vars, memVars
<1> QED
  BY <1>1, <1>2, <1>3, <1>4, <1>5, <1>6, <1>7 DEF Next

LEMMA MarkInvariant == Spec => []MarkInv
<1>1. Init => MarkInv
  BY InitType, CallInvInit DEF Init, MarkInv, MarkedByCalls
<1>2. MarkInv /\ [Next]_vars => MarkInv'
  BY TypeInvariant, CallInvariant, CallsMove DEF MarkInv
<1> QED
  BY <1>1, <1>2, PTL DEF Spec

(* A process has no task in runningTasks but those of calls under way: no  *)
(* early return, error, crash or restart leaves a task marked for good.    *)
THEOREM MarksAreOfCalls == Spec => []MarkedByCalls
<1>1. MarkInv => MarkedByCalls
  BY DEF MarkInv
<1> QED
  BY <1>1, MarkInvariant, PTL

(* The fairness speaks of ENABLED, which the provers leave opaque: the     *)
(* theorems name the fact about it that they rest on.                      *)
CanGoOn(c) == Busy(c) => ENABLED <<CallStep(c)>>_vars

IsOver(c) == Busy(c) ~> Released(c)

GoesOn == []MarkInv /\ [][Next]_vars

LEMMA CallIsOver ==
  ASSUME NEW c \in Call
  PROVE  GoesOn /\ CallIsFair(c) /\ []CanGoOn(c) => IsOver(c)
<1> DEFINE At(k) == call[c].at = k
           Over == Released(c)
<1>1. MarkInv /\ Busy(c)
        => \/ At("locking") \/ At("queueing") \/ At("queued") \/ At("running")
           \/ At("succeeding") \/ At("failing") \/ At("written") \/ At("leaving")
  BY DEF MarkInv, TypeOK, CallState, Stage, Busy
<1>2. MarkInv /\ [Next]_vars
        => /\ At("locking") => \/ At("locking")' \/ Over'
                               \/ At("queueing")' \/ At("running")' \/ At("leaving")'
           /\ At("queueing") => At("queueing")' \/ At("queued")' \/ Over'
           /\ At("queued") => At("queued")' \/ At("leaving")' \/ Over'
           /\ At("running") => At("running")' \/ At("succeeding")' \/ At("failing")' \/ Over'
           /\ At("succeeding") => At("succeeding")' \/ At("written")' \/ Over'
           /\ At("failing") => At("failing")' \/ At("written")' \/ Over'
           /\ At("written") => At("written")' \/ Over'
           /\ At("leaving") => At("leaving")' \/ Over'
  <2> SUFFICES ASSUME MarkInv, [Next]_vars
               PROVE  Busy(c) => CallMoves(c)
    BY DEF Busy, CallMoves, Following
  <2> QED
    BY CallsMove
<1>3. MarkInv /\ <<CallStep(c)>>_vars
        => /\ At("locking") => Over' \/ At("queueing")' \/ At("running")' \/ At("leaving")'
           /\ At("queueing") => At("queued")' \/ Over'
           /\ At("queued") => At("leaving")' \/ Over'
           /\ At("running") => At("succeeding")' \/ At("failing")' \/ Over'
           /\ At("succeeding") => At("written")' \/ Over'
           /\ At("failing") => At("written")' \/ Over'
           /\ At("written") => Over'
           /\ At("leaving") => Over'
  <2> SUFFICES ASSUME MarkInv, CallStep(c)
               PROVE  call'[c].at \in Following(call[c].at) \/ Released(c)'
    BY DEF Following
  <2> QED
    BY CallStepMoves
<1> HIDE DEF At, Over
<1>4. CallIsFair(c) => WF_vars(CallStep(c))
  BY PTL DEF CallIsFair
<1>50. GoesOn /\ CallIsFair(c) /\ []CanGoOn(c) => (At("leaving") ~> Over)
  <2>1. MarkInv /\ [Next]_vars /\ At("leaving")
          => At("leaving")' \/ Over'
    BY <1>2
  <2>2. MarkInv /\ <<CallStep(c)>>_vars /\ At("leaving") => Over'
    BY <1>3
  <2>3. CanGoOn(c) /\ At("leaving") => ENABLED <<CallStep(c)>>_vars
    BY DEF CanGoOn, Busy, At
  <2> QED
    BY <1>4, <2>1, <2>2, <2>3, PTL DEF GoesOn
<1>51. GoesOn /\ CallIsFair(c) /\ []CanGoOn(c) => (At("written") ~> Over)
  <2>1. MarkInv /\ [Next]_vars /\ At("written")
          => At("written")' \/ Over'
    BY <1>2
  <2>2. MarkInv /\ <<CallStep(c)>>_vars /\ At("written") => Over'
    BY <1>3
  <2>3. CanGoOn(c) /\ At("written") => ENABLED <<CallStep(c)>>_vars
    BY DEF CanGoOn, Busy, At
  <2> QED
    BY <1>4, <2>1, <2>2, <2>3, PTL DEF GoesOn
<1>52. GoesOn /\ CallIsFair(c) /\ []CanGoOn(c) => (At("failing") ~> (At("written") \/ Over))
  <2>1. MarkInv /\ [Next]_vars /\ At("failing")
          => At("failing")' \/ At("written")' \/ Over'
    BY <1>2
  <2>2. MarkInv /\ <<CallStep(c)>>_vars /\ At("failing") => At("written")' \/ Over'
    BY <1>3
  <2>3. CanGoOn(c) /\ At("failing") => ENABLED <<CallStep(c)>>_vars
    BY DEF CanGoOn, Busy, At
  <2> QED
    BY <1>4, <2>1, <2>2, <2>3, PTL DEF GoesOn
<1>53. GoesOn /\ CallIsFair(c) /\ []CanGoOn(c) => (At("succeeding") ~> (At("written") \/ Over))
  <2>1. MarkInv /\ [Next]_vars /\ At("succeeding")
          => At("succeeding")' \/ At("written")' \/ Over'
    BY <1>2
  <2>2. MarkInv /\ <<CallStep(c)>>_vars /\ At("succeeding") => At("written")' \/ Over'
    BY <1>3
  <2>3. CanGoOn(c) /\ At("succeeding") => ENABLED <<CallStep(c)>>_vars
    BY DEF CanGoOn, Busy, At
  <2> QED
    BY <1>4, <2>1, <2>2, <2>3, PTL DEF GoesOn
<1>54. GoesOn /\ CallIsFair(c) /\ []CanGoOn(c) => (At("queued") ~> (At("leaving") \/ Over))
  <2>1. MarkInv /\ [Next]_vars /\ At("queued")
          => At("queued")' \/ At("leaving")' \/ Over'
    BY <1>2
  <2>2. MarkInv /\ <<CallStep(c)>>_vars /\ At("queued") => At("leaving")' \/ Over'
    BY <1>3
  <2>3. CanGoOn(c) /\ At("queued") => ENABLED <<CallStep(c)>>_vars
    BY DEF CanGoOn, Busy, At
  <2> QED
    BY <1>4, <2>1, <2>2, <2>3, PTL DEF GoesOn
<1>55. GoesOn /\ CallIsFair(c) /\ []CanGoOn(c) => (At("queueing") ~> (At("queued") \/ Over))
  <2>1. MarkInv /\ [Next]_vars /\ At("queueing")
          => At("queueing")' \/ At("queued")' \/ Over'
    BY <1>2
  <2>2. MarkInv /\ <<CallStep(c)>>_vars /\ At("queueing") => At("queued")' \/ Over'
    BY <1>3
  <2>3. CanGoOn(c) /\ At("queueing") => ENABLED <<CallStep(c)>>_vars
    BY DEF CanGoOn, Busy, At
  <2> QED
    BY <1>4, <2>1, <2>2, <2>3, PTL DEF GoesOn
<1>56. GoesOn /\ CallIsFair(c) /\ []CanGoOn(c) => (At("running") ~> (At("succeeding") \/ At("failing") \/ Over))
  <2>1. MarkInv /\ [Next]_vars /\ At("running")
          => At("running")' \/ At("succeeding")' \/ At("failing")' \/ Over'
    BY <1>2
  <2>2. MarkInv /\ <<CallStep(c)>>_vars /\ At("running") => At("succeeding")' \/ At("failing")' \/ Over'
    BY <1>3
  <2>3. CanGoOn(c) /\ At("running") => ENABLED <<CallStep(c)>>_vars
    BY DEF CanGoOn, Busy, At
  <2> QED
    BY <1>4, <2>1, <2>2, <2>3, PTL DEF GoesOn
<1>57. GoesOn /\ CallIsFair(c) /\ []CanGoOn(c) => (At("locking") ~> (At("queueing") \/ At("running") \/ At("leaving") \/ Over))
  <2>1. MarkInv /\ [Next]_vars /\ At("locking")
          => At("locking")' \/ At("queueing")' \/ At("running")' \/ At("leaving")' \/ Over'
    BY <1>2
  <2>2. MarkInv /\ <<CallStep(c)>>_vars /\ At("locking") => At("queueing")' \/ At("running")' \/ At("leaving")' \/ Over'
    BY <1>3
  <2>3. CanGoOn(c) /\ At("locking") => ENABLED <<CallStep(c)>>_vars
    BY DEF CanGoOn, Busy, At
  <2> QED
    BY <1>4, <2>1, <2>2, <2>3, PTL DEF GoesOn
<1>6. GoesOn /\ CallIsFair(c) /\ []CanGoOn(c)
        => ((\/ At("locking") \/ At("queueing") \/ At("queued") \/ At("running")
             \/ At("succeeding") \/ At("failing") \/ At("written") \/ At("leaving")) ~> Over)
  BY <1>50, <1>51, <1>52, <1>53, <1>54, <1>55, <1>56, <1>57, PTL
<1>7. GoesOn /\ CallIsFair(c) /\ []CanGoOn(c) => (Busy(c) ~> Over)
  BY <1>1, <1>6, PTL DEF GoesOn
<1> QED
  BY <1>7 DEF Over, IsOver

CallsCanGoOn == \A c \in Call : CanGoOn(c)

(* Every call of runScheduledTask comes to its end, by whichever of its    *)
(* ways, or with its process, and then its task is marked no more.         *)
THEOREM CallsEnd == FairSpec /\ []CallsCanGoOn => \A c \in Call : IsOver(c)
<1> SUFFICES ASSUME NEW c \in Call
             PROVE  FairSpec /\ []CallsCanGoOn => IsOver(c)
  OBVIOUS
<1>1. CallsCanGoOn => CanGoOn(c)
  BY DEF CallsCanGoOn
<1>2. FairSpec => Spec /\ CallIsFair(c)
  BY DEF FairSpec, CallsAreFair
<1> QED
  BY <1>1, <1>2, CallIsOver, MarkInvariant, PTL DEF Spec, GoesOn

(* So a task is always released again.  The fairness of a behaviour is     *)
(* that of each of its suffixes, so that the boxes before it ask no more   *)
(* than FairSpec; they let the provers take a call that is under way in    *)
(* whatever state is at hand.                                              *)
IsOverSoon(c) == Busy(c) => <>Released(c)

IsReleased(p, t) == t \in runningTasks[p] ~> t \notin runningTasks[p]

LEMMA CallsAreOverSoon ==
  ASSUME []MarkInv, [][Next]_vars, []CallsAreFair, []CallsCanGoOn
  PROVE  [](\A c \in Call : IsOverSoon(c))
<1>1. CallsAreFair /\ GoesOn
  BY PTL DEF GoesOn
<1>2. ASSUME NEW c \in Call
      PROVE  IsOverSoon(c)
  <2>1. CallsCanGoOn => CanGoOn(c)
    BY DEF CallsCanGoOn
  <2>2. CallIsFair(c)
    BY <1>1 DEF CallsAreFair
  <2>3. []CanGoOn(c)
    BY <2>1, PTL
  <2> QED
    BY <1>1, <2>2, <2>3, CallIsOver, PTL DEF IsOver, IsOverSoon
<1>3. \A c \in Call : IsOverSoon(c)
  BY <1>2
<1> QED
  BY <1>3, PTL

LEMMA TaskIsReleased ==
  ASSUME NEW p \in Proc, NEW t \in Task, []MarkInv, [](\A c \in Call : IsOverSoon(c))
  PROVE  IsReleased(p, t)
<1> DEFINE Marked == t \in runningTasks[p]
           OfTask(c) == Busy(c) /\ c.proc = p /\ c.task = t
           Freed == ~Marked
<1>1. MarkInv /\ \A c \in Call : IsOverSoon(c)
  BY PTL
<1>2. ASSUME NEW c \in Call
      PROVE  OfTask(c) => <>Freed
  <2>1. IsOverSoon(c)
    BY <1>1
  <2>2. OfTask(c) => Busy(c)
    OBVIOUS
  <2>3. CASE c.proc = p /\ c.task = t
    <3>1. Released(c) => Freed
      BY <2>3 DEF Released
    <3> QED
      BY <2>1, <2>2, <3>1, PTL DEF IsOverSoon
  <2>4. CASE ~(c.proc = p /\ c.task = t)
    BY <2>4
  <2> QED
    BY <2>3, <2>4
<1> HIDE DEF OfTask
<1>3. Marked => \E c \in Call : OfTask(c)
  BY <1>1 DEF MarkInv, MarkedByCalls, OfTask
<1>4. Marked => <>Freed
  BY <1>2, <1>3
<1>5. t \notin runningTasks[p] <=> ~(t \in runningTasks[p])
  OBVIOUS
<1> QED
  BY <1>4, <1>5, PTL DEF IsReleased

THEOREM TasksAreReleased ==
  Spec /\ []CallsAreFair /\ []CallsCanGoOn
    => \A p \in Proc, t \in Task : IsReleased(p, t)
<1> SUFFICES ASSUME NEW p \in Proc, NEW t \in Task
             PROVE  Spec /\ []CallsAreFair /\ []CallsCanGoOn => IsReleased(p, t)
  OBVIOUS
<1> QED
  BY CallsAreOverSoon, TaskIsReleased, MarkInvariant, PTL DEF Spec
---------------------------------------------------------------------------
(***************************************************************************)
(* What recurs is remembered.  Schedules may be made and deleted here: the *)
(* safety part of KeepsRunning.                                            *)
(***************************************************************************)
Watched(p, t) == scheduledTasks[p][t] # None /\ timerHandle[p] # None

Cancelling(p) == deletion.proc = p /\ deletion.at = "cancelled"

(* A process reads its rows once: it cannot know what another one creates  *)
(* afterwards.                                                             *)
Knowable(t) == t \in Existing \/ LoneProcess

Remembered(p, t) ==
  \/ Watched(p, t) \/ creation[t] = p \/ Cancelling(p)
  \/ boot[p] = "read" /\ loaded[p][t] # None

RememberInv ==
  /\ \A t \in Existing : creation[t] = "over"
  /\ \A p \in Proc, t \in Task :
       Knowable(t) /\ recurring[t] /\ boot[p] \in {"read", "ready"} => Remembered(p, t)

(* A task that recurs is scheduled in a process that could read the rows   *)
(* at its start ("ready"), and a timer is armed there; or the request that *)
(* creates or deletes it is at work.  Of a process that could not read     *)
(* them ("blind") nothing of the kind is true.                             *)
RecurringIsWatched ==
  \A p \in Proc, t \in Task :
    Knowable(t) /\ recurring[t] /\ boot[p] = "ready"
      => Watched(p, t) \/ creation[t] = p \/ Cancelling(p)

LEMMA ArmedTasks ==
  ASSUME TypeOK, NEW p \in Proc, NEW e \in [Task -> Entry \cup {None}], ArmTimer(p, e),
         NEW t \in Task, e[t] # None
  PROVE  timerHandle'[p] # None
  BY Armed DEF Scheduled

(* Steps that leave rows and requests alone, and forget nothing.           *)
LEMMA RememberQuiet ==
  ASSUME RememberInv, UNCHANGED <<recurring, boot, loaded, creation, deletion>>,
         \A p \in Proc, t \in Task : Watched(p, t) => Watched(p, t)'
  PROVE  RememberInv'
  BY DEF RememberInv, Knowable, LoneProcess, Remembered, Cancelling

LEMMA RememberCall ==
  ASSUME TypeOK, RememberInv, NEW c \in Call, LockTaken(c) \/ CallStep(c)
  PROVE  RememberInv'
<1>1. /\ UNCHANGED <<recurring, boot, loaded, creation, deletion, timerHandle>>
      /\ \/ UNCHANGED scheduledTasks
         \/ SetEntry(c, [at |-> NextRunWithBackoff(c.task, call[c].errors),
                         errors |-> call[c].errors])
         \/ SetEntry(c, [at |-> call[c].next, errors |-> call[c].errors])
  BY DEF LockTaken, CallStep, LockFailed, Queued, Requeued, RunEnds, RowWritten, Rescheduled,
     Left, CallOnly, rowVars, bootVars, routeVars
<1>2. ASSUME NEW x \in Nat, NEW n \in 0..MaxErrors, SetEntry(c, [at |-> x, errors |-> n]),
             NEW p \in Proc, NEW t \in Task, scheduledTasks[p][t] # None
      PROVE  scheduledTasks'[p][t] # None
  <2>1. [at |-> x, errors |-> n] \in [at : Nat, errors : 0..MaxErrors]
    OBVIOUS
  <2> QED
    BY <1>2, <2>1, SchedulerAssumption DEF SetEntry, TypeOK, Call
<1>3. call[c].errors \in 0..MaxErrors /\ call[c].next \in Nat
      /\ NextRunWithBackoff(c.task, call[c].errors) \in Nat
  <2>1. call[c] \in CallState /\ c.task \in Task
    BY DEF TypeOK, Call
  <2>2. call[c].errors \in 0..MaxErrors /\ call[c].next \in Nat
    BY <2>1 DEF CallState
  <2> QED
    BY <2>1, <2>2, NextRunType
<1>4. \A p \in Proc, t \in Task : scheduledTasks[p][t] # None => scheduledTasks'[p][t] # None
  BY <1>1, <1>2, <1>3
<1> QED
  BY <1>1, <1>4, RememberQuiet DEF Watched

LEMMA RememberFires ==
  ASSUME TypeOK, RememberInv, NEW p \in Proc, TimerFires(p)
  PROVE  RememberInv'
<1>1. /\ UNCHANGED <<recurring, boot, loaded, creation, deletion, scheduledTasks>>
      /\ ArmTimer(p, scheduledTasks[p])
  BY DEF TimerFires, rowVars, bootVars, routeVars
<1>2. ASSUME NEW q \in Proc, NEW t \in Task, Watched(q, t)
      PROVE  Watched(q, t)'
  <2>1. CASE q = p
    BY <1>1, <1>2, <2>1, ArmedTasks DEF Watched, TypeOK
  <2>2. CASE q # p
    BY <1>1, <1>2, <2>2, ArmedOthers DEF Watched
  <2> QED
    BY <2>1, <2>2
<1> QED
  BY <1>1, <1>2, RememberQuiet

LEMMA RememberTick ==
  ASSUME TypeOK, RememberInv, Tick
  PROVE  RememberInv'
<1>1. UNCHANGED <<recurring, boot, loaded, creation, deletion>>
  BY DEF Tick, rowVars, bootVars, routeVars
<1>2. ASSUME NEW p \in Proc, NEW t \in Task, Watched(p, t)
      PROVE  Watched(p, t)'
  <2>1. timerHandle'[p] = timerHandle[p] - 1 /\ timerHandle[p] \in 1..MAX_TIMER_DELAY
    BY <1>2 DEF Watched, Tick, TypeOK
  <2>2. timerHandle'[p] \in Nat
    BY <2>1, SchedulerAssumption
  <2>3. scheduledTasks'[p][t] = [scheduledTasks[p][t] EXCEPT !.at = Less(@)]
        /\ scheduledTasks[p][t] \in Entry
    BY <1>2 DEF Watched, Tick, TypeOK
  <2>4. scheduledTasks'[p][t] \in [at : Nat, errors : 0..MaxErrors]
    BY <2>3 DEF Less, Entry
  <2> QED
    BY <2>2, <2>4, SchedulerAssumption DEF Watched
<1> QED
  BY <1>1, <1>2, RememberQuiet

(* The steps of one process say nothing of what others remember.           *)
LEMMA RememberOthers ==
  ASSUME RememberInv, NEW p \in Proc, UNCHANGED <<recurring, creation>>,
         \A q \in Proc \ {p} : /\ boot'[q] = boot[q] /\ loaded'[q] = loaded[q]
                               /\ scheduledTasks'[q] = scheduledTasks[q]
                               /\ timerHandle'[q] = timerHandle[q]
                               /\ Cancelling(q) => Cancelling(q)',
         \A t \in Task : Knowable(t) /\ recurring[t] /\ boot'[p] \in {"read", "ready"}
                          => Remembered(p, t)'
  PROVE  RememberInv'
  BY DEF RememberInv, Knowable, LoneProcess, Remembered, Watched

LEMMA RememberBoot ==
  ASSUME TypeOK, RememberInv, NEW p \in Proc, BootStep(p)
  PROVE  RememberInv'
<1>1. UNCHANGED <<recurring, creation, deletion>>
      /\ \A q \in Proc \ {p} : boot'[q] = boot[q] /\ loaded'[q] = loaded[q]
  BY DEF BootStep, Starts, LoadReads, LoadFails, LoadSchedules, rowVars, routeVars, TypeOK
<1>2. CASE Starts(p)
  <2>1. boot'[p] = "up" /\ UNCHANGED <<scheduledTasks, timerHandle>>
    BY <1>2 DEF Starts, memVars, TypeOK
  <2> QED
    BY <1>1, <2>1, RememberOthers DEF Cancelling
<1>3. CASE LoadReads(p)
  <2>1. /\ boot'[p] = "read" /\ UNCHANGED <<scheduledTasks, timerHandle>>
        /\ \A t \in Task : recurring[t] => loaded'[p][t] = consecutive_errors[t]
    BY <1>3 DEF LoadReads, memVars, TypeOK
  <2>2. \A t \in Task : consecutive_errors[t] # None
    BY SchedulerAssumption DEF TypeOK
  <2> QED
    BY <1>1, <2>1, <2>2, RememberOthers DEF Cancelling, Remembered
<1>4. CASE LoadSchedules(p)
  <2> DEFINE e == [t \in Task |-> IF loaded[p][t] = None THEN scheduledTasks[p][t]
                                  ELSE [at |-> NextRun(t), errors |-> loaded[p][t]]]
  <2>1. /\ boot[p] = "read" /\ boot'[p] = "ready"
        /\ IF loaded[p] = NoTasks THEN UNCHANGED memVars
           ELSE SetTasks(p, e) /\ UNCHANGED runningTasks
    BY <1>4 DEF LoadSchedules, TypeOK
  <2>2. ASSUME NEW t \in Task, loaded[p][t] # None
        PROVE  e[t] # None
    <3>1. e[t] = [at |-> NextRun(t), errors |-> loaded[p][t]]
      BY <2>2
    <3>2. NextRun(t) \in Nat
      BY NextRunType DEF TypeOK
    <3> QED
      BY <2>2, <3>1, <3>2, SchedulerAssumption DEF TypeOK
  <2>3. e \in [Task -> Entry \cup {None}]
    BY NextRunType DEF TypeOK, Entry
  <2>4. \A t \in Task : scheduledTasks[p][t] # None => e[t] # None
    BY <2>2
  <2>5. ASSUME NEW t \in Task, Watched(p, t) \/ loaded[p][t] # None
        PROVE  Watched(p, t)'
    <3>1. CASE loaded[p] = NoTasks
      BY <2>1, <2>5, <3>1 DEF memVars, Watched, NoTasks
    <3>2. CASE loaded[p] # NoTasks
      <4>1. e[t] # None
        BY <2>2, <2>4, <2>5 DEF Watched
      <4>2. scheduledTasks'[p] = e /\ ArmTimer(p, e)
        BY <2>1, <3>2 DEF SetTasks, TypeOK
      <4> HIDE DEF e
      <4> QED
        BY <2>3, <4>1, <4>2, ArmedTasks DEF Watched
    <3> QED
      BY <3>1, <3>2
  <2>6. \A q \in Proc \ {p} : /\ scheduledTasks'[q] = scheduledTasks[q]
                              /\ timerHandle'[q] = timerHandle[q]
    <3>1. CASE loaded[p] = NoTasks
      BY <2>1, <3>1 DEF memVars
    <3>2. CASE loaded[p] # NoTasks
      <4>1. scheduledTasks' = [scheduledTasks EXCEPT ![p] = e] /\ ArmTimer(p, e)
        BY <2>1, <3>2 DEF SetTasks
      <4> QED
        BY <4>1, ArmedOthers DEF TypeOK
    <3> QED
      BY <3>1, <3>2
  <2>7. \A t \in Task : Knowable(t) /\ recurring[t] => Remembered(p, t)'
    <3>1. \A t \in Task : Knowable(t) /\ recurring[t] => Remembered(p, t)
      BY <2>1 DEF RememberInv
    <3> QED
      BY <1>1, <2>5, <3>1 DEF Remembered, Cancelling
  <2> QED
    BY <1>1, <2>6, <2>7, RememberOthers DEF Cancelling
<1>5. CASE LoadFails(p)
  <2>1. boot'[p] = "blind" /\ UNCHANGED <<scheduledTasks, timerHandle>>
    BY <1>5 DEF LoadFails, memVars, TypeOK
  <2> QED
    BY <1>1, <2>1, RememberOthers DEF Cancelling
<1> QED
  BY <1>2, <1>3, <1>4, <1>5 DEF BootStep

LEMMA RememberCrash ==
  ASSUME TypeOK, RememberInv, NEW p \in Proc, Crash(p)
  PROVE  RememberInv'
<1>1. /\ UNCHANGED recurring /\ boot'[p] = "down"
      /\ \A t \in Task : creation'[t] = IF creation[t] = p THEN "over" ELSE creation[t]
  BY DEF Crash, rowVars, TypeOK
<1>2. ASSUME NEW q \in Proc, q # p
      PROVE  /\ boot'[q] = boot[q] /\ loaded'[q] = loaded[q]
             /\ scheduledTasks'[q] = scheduledTasks[q] /\ timerHandle'[q] = timerHandle[q]
             /\ Cancelling(q) => Cancelling(q)'
  BY <1>2 DEF Crash, TypeOK, Cancelling
<1>3. \A t \in Existing : creation'[t] = "over"
  BY <1>1, SchedulerAssumption DEF RememberInv
<1>4. ASSUME NEW q \in Proc, NEW t \in Task, Knowable(t), recurring[t],
             boot'[q] \in {"read", "ready"}
      PROVE  Remembered(q, t)'
  <2>1. q # p
    BY <1>1, <1>4
  <2>2. boot'[q] = boot[q] /\ Remembered(q, t)
    BY <1>2, <1>4, <2>1 DEF RememberInv
  <2>3. creation[t] = q => creation'[t] = q
    BY <1>1, <2>1
  <2>4. Watched(q, t) => Watched(q, t)'
    BY <1>2, <2>1 DEF Watched
  <2> QED
    BY <1>2, <2>1, <2>2, <2>3, <2>4 DEF Remembered
<1> QED
  BY <1>1, <1>3, <1>4 DEF RememberInv, Knowable, LoneProcess

LEMMA RememberRoute ==
  ASSUME TypeOK, RememberInv, NEW p \in Proc,
         \/ RouteStep(p) \/ DeleteReads(p) \/ \E t \in Task : CreateInserts(p, t)
  PROVE  RememberInv'
<1>1. ASSUME NEW t \in Task, CreateInserts(p, t)
      PROVE  RememberInv'
  <2>1. /\ creation[t] = "none" /\ t \notin Existing
        /\ creation' = [creation EXCEPT ![t] = p]
        /\ recurring' = [recurring EXCEPT ![t] = TRUE]
        /\ UNCHANGED <<boot, loaded, scheduledTasks, timerHandle, deletion>>
    BY <1>1 DEF CreateInserts, bootVars, memVars, RememberInv
  <2>2. \A q \in Existing : creation'[q] = "over"
    BY <2>1, SchedulerAssumption DEF RememberInv, TypeOK
  <2>3. ASSUME NEW q \in Proc, NEW s \in Task, Knowable(s), recurring'[s],
               boot'[q] \in {"read", "ready"}
        PROVE  Remembered(q, s)'
    <3>1. CASE s = t
      <4>1. q = p
        BY <2>1, <2>3, <3>1 DEF Knowable, LoneProcess
      <4>2. creation'[t] = p
        BY <2>1 DEF TypeOK
      <4> QED
        BY <3>1, <4>1, <4>2 DEF Remembered
    <3>2. CASE s # t
      <4>1. recurring[s] /\ creation'[s] = creation[s]
        BY <2>1, <2>3, <3>2 DEF TypeOK
      <4>2. Remembered(q, s)
        BY <2>1, <2>3, <4>1 DEF RememberInv
      <4> QED
        BY <2>1, <4>1, <4>2 DEF Remembered, Watched, Cancelling
    <3> QED
      BY <3>1, <3>2
  <2> QED
    BY <2>2, <2>3 DEF RememberInv, Knowable, LoneProcess
<1>2. ASSUME NEW t \in Task, CreateSchedules(p, t)
      PROVE  RememberInv'
  <2> DEFINE e == [scheduledTasks[p] EXCEPT ![t] = [at |-> NextRun(t), errors |-> 0]]
  <2>1. /\ creation[t] = p /\ creation' = [creation EXCEPT ![t] = "over"]
        /\ UNCHANGED <<recurring, boot, loaded, deletion>> /\ SetTasks(p, e)
    BY <1>2 DEF CreateSchedules, rowVars, bootVars
  <2>2. e \in [Task -> Entry \cup {None}] /\ e[t] # None
    <3>1. [at |-> NextRun(t), errors |-> 0] \in [at : Nat, errors : 0..MaxErrors]
      BY NextRunType, SchedulerAssumption DEF TypeOK
    <3> QED
      BY <3>1, SchedulerAssumption DEF TypeOK, Entry
  <2>3. \A s \in Task \ {t} : e[s] = scheduledTasks[p][s]
    BY DEF TypeOK
  <2>4. /\ scheduledTasks'[p] = e /\ ArmTimer(p, e)
        /\ \A q \in Proc \ {p} : scheduledTasks'[q] = scheduledTasks[q]
    BY <2>1 DEF SetTasks, TypeOK
  <2> HIDE DEF e
  <2>5. timerHandle'[p] # None /\ \A q \in Proc \ {p} : timerHandle'[q] = timerHandle[q]
    BY <2>2, <2>4, ArmedTasks, ArmedOthers
  <2>6. ASSUME NEW q \in Proc, NEW s \in Task, Watched(q, s)
        PROVE  Watched(q, s)'
    BY <2>2, <2>3, <2>4, <2>5, <2>6 DEF Watched
  <2>7. Watched(p, t)'
    BY <2>2, <2>4, <2>5 DEF Watched
  <2>8. \A s \in Task \ {t} : creation'[s] = creation[s]
    BY <2>1 DEF TypeOK
  <2>9. \A q \in Proc, s \in Task : Remembered(q, s) => Remembered(q, s)'
    BY <2>1, <2>6, <2>7, <2>8 DEF Remembered, Cancelling
  <2>10. \A s \in Existing : creation'[s] = "over"
    BY <2>1, SchedulerAssumption DEF RememberInv, TypeOK
  <2> QED
    BY <2>1, <2>9, <2>10 DEF RememberInv, Knowable, LoneProcess
<1>3. CASE DeleteReads(p)
  <2>1. /\ UNCHANGED <<recurring, boot, loaded, creation, scheduledTasks, timerHandle>>
        /\ deletion.at = "none"
    BY <1>3 DEF DeleteReads, rowVars, bootVars, memVars
  <2>2. \A q \in Proc : ~Cancelling(q)
    BY <2>1 DEF Cancelling
  <2> QED
    BY <2>1, <2>2 DEF RememberInv, Knowable, LoneProcess, Remembered, Watched, Cancelling
<1>4. CASE DeleteCancels(p)
  <2> DEFINE e == [t \in Task |-> IF t \in deletion.tasks THEN None ELSE scheduledTasks[p][t]]
  <2>1. /\ deletion.proc = p /\ deletion.at = "read"
        /\ deletion' = [deletion EXCEPT !.at = "cancelled"]
        /\ UNCHANGED <<recurring, boot, loaded, creation>>
        /\ IF e = scheduledTasks[p] THEN UNCHANGED memVars
           ELSE SetTasks(p, e) /\ UNCHANGED runningTasks
    BY <1>4 DEF DeleteCancels, rowVars, bootVars
  <2>2. Cancelling(p)'
    BY <2>1 DEF Cancelling, TypeOK
  <2>3. \A q \in Proc \ {p} : /\ scheduledTasks'[q] = scheduledTasks[q]
                              /\ timerHandle'[q] = timerHandle[q]
    <3>1. CASE e = scheduledTasks[p]
      BY <2>1, <3>1 DEF memVars
    <3>2. CASE e # scheduledTasks[p]
      <4>1. scheduledTasks' = [scheduledTasks EXCEPT ![p] = e] /\ ArmTimer(p, e)
        BY <2>1, <3>2 DEF SetTasks
      <4> QED
        BY <4>1, ArmedOthers DEF TypeOK
    <3> QED
      BY <3>1, <3>2
  <2>4. \A q \in Proc \ {p} : ~Cancelling(q)
    BY <2>1 DEF Cancelling
  <2> QED
    BY <2>1, <2>2, <2>3, <2>4, RememberOthers DEF Remembered
<1>5. CASE DeleteWrites(p)
  <2>1. /\ UNCHANGED creation /\ \A t \in Task : ~recurring'[t]
    BY <1>5 DEF DeleteWrites
  <2> QED
    BY <2>1 DEF RememberInv
<1> QED
  BY <1>1, <1>2, <1>3, <1>4, <1>5 DEF RouteStep

LEMMA RememberInvariant == TypeOK /\ RememberInv /\ [Next]_vars => RememberInv'
<1> SUFFICES ASSUME TypeOK, RememberInv, [Next]_vars PROVE RememberInv'
  OBVIOUS
<1>1. CASE UNCHANGED vars
  BY <1>1, RememberQuiet DEF vars, rowVars, bootVars, memVars, routeVars, Watched
<1> QED
  BY <1>1, RememberCall, RememberFires, RememberTick, RememberBoot, RememberCrash,
     RememberRoute DEF Next

(* No process that read its rows when it started forgets a task that       *)
(* recurs: not by a lock or a write that fails, nor by a crash, a start    *)
(* next to a request, a timer that finds the task in a call, or a run that *)
(* puts an entry back, for any processes and tasks.  The premise is not    *)
(* idle: where the query of loadScheduledTasks fails, the code returns     *)
(* with nothing scheduled and no second try.                               *)
THEOREM RecurringTasksAreWatched == Spec => []RecurringIsWatched
<1>1. Init => RememberInv
  BY SchedulerAssumption DEF Init, RememberInv
<1>2. RememberInv => RecurringIsWatched
  BY DEF RememberInv, RecurringIsWatched, Remembered
<1> QED
  BY <1>1, <1>2, TypeCorrect, RememberInvariant, PTL DEF Spec

===========================================================================
