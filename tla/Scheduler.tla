----------------------------- MODULE Scheduler -----------------------------
(***************************************************************************)
(* Recurring tasks: src/src/lib/scheduler.ts, the routes of                *)
(* src/src/routes/tasks.ts that create and delete them, and the start of   *)
(* the server in src/src/index.ts.                                         *)
(*                                                                         *)
(* Several server processes may share one database, the restarted one and  *)
(* those it replaces among them.  The row of a task is whether it recurs,  *)
(* its consecutive_errors and whether running_at is set; its status and    *)
(* output belong to TaskRunner.  A call is one call of runScheduledTask.   *)
(*                                                                         *)
(* Time is discrete and relative: nextRunAt and the timer are the ticks    *)
(* left until then, 0 once it has passed, and clock is the time within the *)
(* period of the cron expressions.  A timer fires on time; an awaited call *)
(* takes any time.  A database write and the process's going on after it   *)
(* are two steps.                                                          *)
(***************************************************************************)
EXTENDS Integers, FiniteSets

CONSTANTS
  Proc, Task,
  Existing,    \* tasks whose rows were there before
  Stagger,     \* ticks a task is put off after its cron time
  Period,      \* between two cron times
  MIN_REFIRE_GAP, MAX_TIMER_DELAY,
  BACKOFF,     \* ticks of rest by consecutive errors
  MaxErrors,   \* no bound if at least the length of BACKOFF: the rest saturates
  MaxCalls,    \* calls of a task in a process; no bound if at least 2
  MaxCrashes,  \* bound on crashes
  Cancels,     \* whether the user deletes the schedule
  None

ASSUME SchedulerAssumption ==
  /\ Existing \subseteq Task
  /\ Stagger \in [Task -> Nat]
  /\ Period \in Nat \ {0}
  /\ MIN_REFIRE_GAP \in Nat \ {0} /\ MAX_TIMER_DELAY \in Nat
  /\ MIN_REFIRE_GAP <= MAX_TIMER_DELAY
  /\ MaxErrors \in Nat \ {0} /\ BACKOFF \in [1..MaxErrors -> Nat]
  /\ MaxCalls \in Nat \ {0} /\ MaxCrashes \in Nat
  /\ Cancels \in BOOLEAN
  /\ None \notin Nat /\ None \notin [at : Nat, errors : 0..MaxErrors]
  /\ {"none", "over"} \cap Proc = {}

Call == [proc : Proc, task : Task, slot : 1..MaxCalls]

VARIABLES
  clock,
  recurring, consecutive_errors, running_at,  \* the row of each task
  boot,            \* of each process: how far it has started
  loaded,          \* the rows it has read at its start
  scheduledTasks,  \* and its memory
  runningTasks,
  timerHandle,
  call,            \* the calls of runScheduledTask, by where they are
  creation,        \* the requests to create a task, and to delete all
  deletion,
  crashes,
  rest,            \* history: ticks each process must let a task rest after a
                   \* failure it has seen
  missed           \* history: tasks of which what it last tried to write of a run
                   \* did not reach the row

rowVars == <<recurring, consecutive_errors, running_at>>
memVars == <<scheduledTasks, runningTasks, timerHandle>>
bootVars == <<boot, loaded, crashes>>
routeVars == <<creation, deletion>>
historyVars == <<rest, missed>>
vars == <<clock, rowVars, bootVars, memVars, call, routeVars, historyVars>>

Entry == [at : Nat, errors : 0..MaxErrors]
Stage == {"none", "locking", "queueing", "queued", "running",
          "succeeding", "failing", "written", "leaving"}
CallState == [at : Stage, errors : 0..MaxErrors, next : Nat]
Idle == [at |-> "none", errors |-> 0, next |-> 0]

TypeOK ==
  /\ clock \in 0..(Period - 1)
  /\ recurring \in [Task -> BOOLEAN]
  /\ consecutive_errors \in [Task -> 0..MaxErrors]
  /\ running_at \in [Task -> BOOLEAN]
  /\ boot \in [Proc -> {"down", "up", "read", "ready", "blind"}]
  /\ loaded \in [Proc -> [Task -> 0..MaxErrors \cup {None}]]
  /\ scheduledTasks \in [Proc -> [Task -> Entry \cup {None}]]
  /\ runningTasks \in [Proc -> SUBSET Task]
  /\ timerHandle \in [Proc -> 0..MAX_TIMER_DELAY \cup {None}]
  /\ call \in [Call -> CallState]
  /\ creation \in [Task -> {"none", "over"} \cup Proc]
  /\ deletion \in [proc : Proc \cup {None}, at : {"none", "read", "cancelled", "over"},
                   tasks : SUBSET Task]
  /\ crashes \in 0..MaxCrashes
  /\ rest \in [Proc -> [Task -> Nat]]
  /\ missed \in [Proc -> SUBSET Task]

NoTasks == [t \in Task |-> None]

Init ==
  /\ clock = 0
  /\ recurring = [t \in Task |-> t \in Existing]
  /\ consecutive_errors = [t \in Task |-> 0]
  /\ running_at = [t \in Task |-> FALSE]
  /\ boot = [p \in Proc |-> "down"]
  /\ loaded = [p \in Proc |-> NoTasks]
  /\ scheduledTasks = [p \in Proc |-> NoTasks]
  /\ runningTasks = [p \in Proc |-> {}]
  /\ timerHandle = [p \in Proc |-> None]
  /\ call = [c \in Call |-> Idle]
  /\ creation = [t \in Task |-> IF t \in Existing THEN "over" ELSE "none"]
  /\ deletion = [proc |-> None, at |-> "none", tasks |-> {}]
  /\ crashes = 0
  /\ rest = [p \in Proc |-> [t \in Task |-> 0]]
  /\ missed = [p \in Proc |-> {}]
---------------------------------------------------------------------------
(* When a task is next due, and the timer                                  *)

Later(m, n) == IF m >= n THEN m ELSE n
Earlier(m, n) == IF m <= n THEN m ELSE n

(* The next cron time after now, put off by the task's stagger.            *)
NextRun(t) == Period - clock + Stagger[t]

(* Mutant of NextRunWithBackoff: the backoff is not applied.               *)
NaturalNextRun(t, errors) == NextRun(t)

NextRunWithBackoff(t, errors) ==
  IF errors = 0 THEN NextRun(t) ELSE Later(NextRun(t), BACKOFF[errors])

Scheduled(e) == {t \in Task : e[t] # None}
Nearest(e) == {t \in Scheduled(e) : \A s \in Scheduled(e) : e[t].at <= e[s].at}

(* Mutant of Delay: the least gap is added, not enforced.                  *)
DelayPlusGap(n) == Earlier(n + MIN_REFIRE_GAP, MAX_TIMER_DELAY)

Delay(n) == Earlier(Later(n, MIN_REFIRE_GAP), MAX_TIMER_DELAY)

(* armTimer, with what is scheduled: no timer if that is nothing.          *)
ArmTimer(p, e) ==
  \/ /\ Scheduled(e) = {}
     /\ timerHandle' = [timerHandle EXCEPT ![p] = None]
  \/ \E t \in Nearest(e) : timerHandle' = [timerHandle EXCEPT ![p] = Delay(e[t].at)]

SetTasks(p, e) ==
  /\ scheduledTasks' = [scheduledTasks EXCEPT ![p] = e]
  /\ ArmTimer(p, e)
---------------------------------------------------------------------------
(* onTimer and runScheduledTask                                            *)

Due(p) == {t \in Scheduled(scheduledTasks[p]) : scheduledTasks[p][t].at = 0}

(* Mutant of Skipped: the task's entry in runningTasks is not looked at.   *)
NoneSkipped(p) == {}

Skipped(p) == runningTasks[p]

FreeSlots(p, t) ==
  {i \in 1..MaxCalls : call[[proc |-> p, task |-> t, slot |-> i]].at = "none"}
Slot(p, t) == CHOOSE i \in FreeSlots(p, t) : TRUE

(* Every task that is due, and not being run, is run; nobody waits for it, *)
(* and it stays due until it is over.                                      *)
TimerFires(p) ==
  LET begun == Due(p) \ Skipped(p) IN
  /\ timerHandle[p] = 0
  /\ \A t \in begun : FreeSlots(p, t) # {}
  /\ ArmTimer(p, scheduledTasks[p])
  /\ runningTasks' = [runningTasks EXCEPT ![p] = @ \cup begun]
  /\ call' = [c \in Call |->
       IF c.proc = p /\ c.task \in begun /\ c.slot = Slot(p, c.task)
       THEN [at |-> "locking", errors |-> scheduledTasks[p][c.task].errors, next |-> 0]
       ELSE call[c]]
  /\ UNCHANGED <<clock, rowVars, bootVars, scheduledTasks, routeVars, historyVars>>

CallOnly == UNCHANGED <<clock, bootVars, timerHandle, routeVars>>

GoTo(c, at) == call' = [call EXCEPT ![c].at = at]

(* running_at is set where it was null.  That no row was is no error, and  *)
(* the call goes on.                                                       *)
LockTaken(c) ==
  /\ call[c].at = "locking"
  /\ running_at' = [running_at EXCEPT ![c.task] = TRUE]
  /\ \/ GoTo(c, "running")
     \/ GoTo(c, "queueing")
  /\ UNCHANGED <<recurring, consecutive_errors, scheduledTasks, runningTasks, historyVars>>
  /\ CallOnly

(* The early return: the query failed.                                     *)
LockFailed(c) ==
  /\ call[c].at = "locking"
  /\ GoTo(c, "leaving")
  /\ UNCHANGED <<rowVars, scheduledTasks, runningTasks, historyVars>> /\ CallOnly

(* The extension is not connected: the row is queued, unless that fails,   *)
(* which nobody looks at ...                                               *)
Queued(c) ==
  /\ call[c].at = "queueing"
  /\ running_at' \in {running_at, [running_at EXCEPT ![c.task] = FALSE]}
  /\ GoTo(c, "queued")
  /\ UNCHANGED <<recurring, consecutive_errors, scheduledTasks, runningTasks, historyVars>>
  /\ CallOnly

SetEntry(c, entry) ==
  scheduledTasks' = [scheduledTasks EXCEPT ![c.proc][c.task] = entry]

(* ... and then, after the message, the task scheduled.                    *)
Requeued(c) ==
  /\ call[c].at = "queued"
  /\ SetEntry(c, [at |-> NextRunWithBackoff(c.task, call[c].errors), errors |-> call[c].errors])
  /\ GoTo(c, "leaving")
  /\ UNCHANGED <<rowVars, runningTasks, historyVars>> /\ CallOnly

(* The task function returns, or throws.                                   *)
RunEnds(c, throws) ==
  LET errors == IF throws THEN Earlier(call[c].errors + 1, MaxErrors) ELSE 0 IN
  /\ call[c].at = "running"
  /\ call' = [call EXCEPT ![c] =
       [at |-> IF throws THEN "failing" ELSE "succeeding",
        errors |-> errors, next |-> NextRunWithBackoff(c.task, errors)]]
  /\ rest' = [rest EXCEPT ![c.proc][c.task] = IF throws THEN BACKOFF[errors] ELSE 0]
  /\ UNCHANGED <<rowVars, scheduledTasks, runningTasks, missed>> /\ CallOnly

(* Mutant of RowWritten: the count of a failure is not written to the row. *)
RowOfSuccessWritten(c) ==
  /\ call[c].at \in {"succeeding", "failing"}
  /\ running_at' = [running_at EXCEPT ![c.task] = FALSE]
  /\ consecutive_errors' = IF call[c].at = "failing" THEN consecutive_errors
                           ELSE [consecutive_errors EXCEPT ![c.task] = 0]
  /\ missed' = [missed EXCEPT ![c.proc] = @ \ {c.task}]
  /\ GoTo(c, "written")
  /\ UNCHANGED <<recurring, scheduledTasks, runningTasks, rest>> /\ CallOnly

(* Whether it could be written is not looked at.                           *)
RowWritten(c) ==
  /\ call[c].at \in {"succeeding", "failing"}
  /\ \/ /\ running_at' = [running_at EXCEPT ![c.task] = FALSE]
        /\ consecutive_errors' = [consecutive_errors EXCEPT ![c.task] = call[c].errors]
        /\ missed' = [missed EXCEPT ![c.proc] = @ \ {c.task}]
     \/ /\ UNCHANGED <<running_at, consecutive_errors>>
        /\ missed' = [missed EXCEPT ![c.proc] = @ \cup {c.task}]
  /\ GoTo(c, "written")
  /\ UNCHANGED <<recurring, scheduledTasks, runningTasks, rest>> /\ CallOnly

(* The entry is set again, whether or not it is still there; finally.      *)
Rescheduled(c) ==
  /\ call[c].at = "written"
  /\ SetEntry(c, [at |-> call[c].next, errors |-> call[c].errors])
  /\ runningTasks' = [runningTasks EXCEPT ![c.proc] = @ \ {c.task}]
  /\ call' = [call EXCEPT ![c] = Idle]
  /\ UNCHANGED <<rowVars, historyVars>> /\ CallOnly

(* Mutant of Left: the early returns do not pass the finally.              *)
LeftWithoutFinally(c) ==
  /\ call[c].at = "leaving"
  /\ call' = [call EXCEPT ![c] = Idle]
  /\ UNCHANGED <<rowVars, scheduledTasks, runningTasks, historyVars>> /\ CallOnly

Left(c) ==
  /\ call[c].at = "leaving"
  /\ runningTasks' = [runningTasks EXCEPT ![c.proc] = @ \ {c.task}]
  /\ call' = [call EXCEPT ![c] = Idle]
  /\ UNCHANGED <<rowVars, scheduledTasks, historyVars>> /\ CallOnly
---------------------------------------------------------------------------
(* The start of a process, and its end                                     *)

Starts(p) ==
  /\ boot[p] = "down"
  /\ boot' = [boot EXCEPT ![p] = "up"]
  /\ UNCHANGED <<clock, rowVars, loaded, crashes, memVars, call, routeVars, historyVars>>

Active(t) == {c \in Call : c.task = t /\ call[c].at # "none"}

(* loadScheduledTasks: markers older than two hours are cleared (no call   *)
(* lasts as long), or not, if that fails ...                               *)
OldMarkersCleared ==
  \E old \in SUBSET {t \in Task : Active(t) = {}} :
    running_at' = [t \in Task |-> running_at[t] /\ t \notin old]

(* ... and the rows read ...                                               *)
LoadReads(p) ==
  /\ boot[p] = "up" /\ OldMarkersCleared
  /\ loaded' = [loaded EXCEPT ![p] =
       [t \in Task |-> IF recurring[t] THEN consecutive_errors[t] ELSE None]]
  /\ boot' = [boot EXCEPT ![p] = "read"]
  /\ UNCHANGED <<clock, recurring, consecutive_errors, crashes, memVars, call, routeVars,
                 historyVars>>

(* ... which may fail: the process goes on with nothing scheduled, and     *)
(* does not try again.                                                     *)
LoadFails(p) ==
  /\ boot[p] = "up" /\ OldMarkersCleared
  /\ boot' = [boot EXCEPT ![p] = "blind"]
  /\ UNCHANGED <<clock, recurring, consecutive_errors, loaded, crashes, memVars, call,
                 routeVars, historyVars>>

(* Each of the rows read is scheduled.                                     *)
LoadSchedules(p) ==
  LET e == [t \in Task |-> IF loaded[p][t] = None THEN scheduledTasks[p][t]
                           ELSE [at |-> NextRun(t), errors |-> loaded[p][t]]] IN
  /\ boot[p] = "read"
  /\ boot' = [boot EXCEPT ![p] = "ready"]
  /\ loaded' = [loaded EXCEPT ![p] = NoTasks]
  /\ IF loaded[p] = NoTasks THEN UNCHANGED memVars
     ELSE SetTasks(p, e) /\ UNCHANGED runningTasks
  /\ UNCHANGED <<clock, rowVars, crashes, call, routeVars, historyVars>>

(* Its memory, its calls and the requests it serves are gone.              *)
Crash(p) ==
  /\ boot[p] # "down" /\ crashes < MaxCrashes
  /\ crashes' = crashes + 1
  /\ boot' = [boot EXCEPT ![p] = "down"]
  /\ loaded' = [loaded EXCEPT ![p] = NoTasks]
  /\ scheduledTasks' = [scheduledTasks EXCEPT ![p] = NoTasks]
  /\ runningTasks' = [runningTasks EXCEPT ![p] = {}]
  /\ timerHandle' = [timerHandle EXCEPT ![p] = None]
  /\ call' = [c \in Call |-> IF c.proc = p THEN Idle ELSE call[c]]
  /\ creation' = [t \in Task |-> IF creation[t] = p THEN "over" ELSE creation[t]]
  /\ deletion' = IF deletion.proc = p THEN [proc |-> None, at |-> "over", tasks |-> {}]
                 ELSE deletion
  /\ rest' = [rest EXCEPT ![p] = [t \in Task |-> 0]]
  /\ missed' = [missed EXCEPT ![p] = {}]
  /\ UNCHANGED <<clock, rowVars>>
---------------------------------------------------------------------------
(* The routes                                                              *)

(* /create-scheduled-task: the row is inserted, then the task scheduled.   *)
CreateInserts(p, t) ==
  /\ boot[p] # "down" /\ creation[t] = "none"
  /\ recurring' = [recurring EXCEPT ![t] = TRUE]
  /\ creation' = [creation EXCEPT ![t] = p]
  /\ UNCHANGED <<clock, consecutive_errors, running_at, bootVars, memVars, call, deletion,
                 historyVars>>

CreateSchedules(p, t) ==
  /\ creation[t] = p
  /\ creation' = [creation EXCEPT ![t] = "over"]
  /\ SetTasks(p, [scheduledTasks[p] EXCEPT ![t] = [at |-> NextRun(t), errors |-> 0]])
  /\ UNCHANGED <<clock, rowVars, bootVars, runningTasks, call, deletion, historyVars>>

(* DELETE /scheduled-tasks, bound: once.  The user's recurring tasks are   *)
(* read, taken out of memory, and then what recurs by now is cleared.      *)
DeleteReads(p) ==
  /\ Cancels /\ boot[p] # "down" /\ deletion.at = "none"
  /\ LET read == {t \in Task : recurring[t]} IN
     deletion' = IF read = {} THEN [proc |-> None, at |-> "over", tasks |-> {}]
                 ELSE [proc |-> p, at |-> "read", tasks |-> read]
  /\ UNCHANGED <<clock, rowVars, bootVars, memVars, call, creation, historyVars>>

(* cancelTask, of each                                                     *)
DeleteCancels(p) ==
  LET e == [t \in Task |-> IF t \in deletion.tasks THEN None ELSE scheduledTasks[p][t]] IN
  /\ deletion.proc = p /\ deletion.at = "read"
  /\ deletion' = [deletion EXCEPT !.at = "cancelled"]
  /\ IF e = scheduledTasks[p] THEN UNCHANGED memVars
     ELSE SetTasks(p, e) /\ UNCHANGED runningTasks
  /\ UNCHANGED <<clock, rowVars, bootVars, call, creation, historyVars>>

DeleteWrites(p) ==
  /\ deletion.proc = p /\ deletion.at = "cancelled"
  /\ recurring' = [t \in Task |-> FALSE]
  /\ deletion' = [proc |-> None, at |-> "over", tasks |-> {}]
  /\ UNCHANGED <<clock, consecutive_errors, running_at, bootVars, memVars, call, creation,
                 historyVars>>
---------------------------------------------------------------------------
Less(n) == IF n = 0 THEN 0 ELSE n - 1

(* Time passes, but not over a timer that is due.                          *)
Tick ==
  /\ \A p \in Proc : timerHandle[p] # 0
  /\ clock' = (clock + 1) % Period
  /\ timerHandle' = [p \in Proc |->
       IF timerHandle[p] = None THEN None ELSE timerHandle[p] - 1]
  /\ scheduledTasks' = [p \in Proc |-> [t \in Task |->
       IF scheduledTasks[p][t] = None THEN None
       ELSE [scheduledTasks[p][t] EXCEPT !.at = Less(@)]]]
  /\ call' = [c \in Call |-> [call[c] EXCEPT !.next = Less(@)]]
  /\ rest' = [p \in Proc |-> [t \in Task |-> Less(rest[p][t])]]
  /\ UNCHANGED <<rowVars, bootVars, runningTasks, routeVars, missed>>

CallStep(c) ==
  \/ LockFailed(c) \/ Queued(c) \/ Requeued(c)
  \/ \E throws \in BOOLEAN : RunEnds(c, throws)
  \/ RowWritten(c) \/ Rescheduled(c) \/ Left(c)

BootStep(p) == Starts(p) \/ LoadReads(p) \/ LoadFails(p) \/ LoadSchedules(p)

RouteStep(p) ==
  \/ \E t \in Task : CreateSchedules(p, t)
  \/ DeleteCancels(p) \/ DeleteWrites(p)

Next ==
  \/ Tick
  \/ \E c \in Call : LockTaken(c) \/ CallStep(c)
  \/ \E p \in Proc : TimerFires(p) \/ BootStep(p) \/ RouteStep(p) \/ DeleteReads(p) \/ Crash(p)
  \/ \E p \in Proc, t \in Task : CreateInserts(p, t)

Spec == Init /\ [][Next]_vars

(* Time passes, timers fire, awaited calls answer, and not for ever with   *)
(* an error; a crashed process is started again.                           *)
CallIsFair(c) == SF_vars(LockTaken(c)) /\ WF_vars(CallStep(c))

ProcIsFair(p) == WF_vars(TimerFires(p)) /\ WF_vars(BootStep(p)) /\ WF_vars(RouteStep(p))

TimePasses == WF_vars(Tick)

CallsAreFair == \A c \in Call : CallIsFair(c)

FairSpec == Spec /\ TimePasses /\ CallsAreFair /\ \A p \in Proc : ProcIsFair(p)
---------------------------------------------------------------------------
(* What must hold of the scheduler                                         *)

Mine(p, t) == {c \in Active(t) : c.proc = p}

(* "Skip if already running in memory": however often the timer fires      *)
(* while a task runs, a process never runs it twice at a time.             *)
OneRunPerProcess == \A p \in Proc, t \in Task : \A c, d \in Mine(p, t) : c = d

(* As long as nobody deletes a schedule, what a process has scheduled is   *)
(* watched: its timer is armed, and for no later than the task is due, or  *)
(* the refire gap if that is more, though runs set their next time without *)
(* arming it.                                                              *)
TimerInTime ==
  \A p \in Proc : \A t \in Scheduled(scheduledTasks[p]) :
    /\ timerHandle[p] # None
    /\ timerHandle[p] <= Later(scheduledTasks[p][t].at, MIN_REFIRE_GAP)

(* A task that a process saw fail rests for its backoff before it is run   *)
(* again, whatever time its cron expression names next.                    *)
BackoffRespected ==
  [][\A c \in Call : call[c].at = "none" /\ call'[c].at = "locking"
       => rest[c.proc][c.task] = 0]_vars

(* Between its runs, what a process knows of a task's failures is what the *)
(* row says, across crashes in the middle of a run, unless the write of    *)
(* the last run's outcome failed.                                          *)
ErrorsAgree ==
  \A p \in Proc : \A t \in Scheduled(scheduledTasks[p]) :
    Mine(p, t) = {} /\ t \notin missed[p]
      => scheduledTasks[p][t].errors = consecutive_errors[t]

(* A task that goes on recurring goes on being run, or queued for the      *)
(* extension, through crashes, failures, locks that could not be taken and *)
(* outcomes that could not be written; unless a process stays that could   *)
(* not read its tasks when it started.                                     *)
KeepsRunning ==
  \A t \in Task :
    <>[](recurring[t] /\ \A p \in Proc : boot[p] # "blind") =>
    []<>(\E c \in Call : c.task = t /\ call[c].at \in {"running", "queueing"})
===========================================================================
