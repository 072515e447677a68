---------------------------- MODULE TaskRunner -----------------------------
(***************************************************************************)
(* How tasks are run: src/src/routes/tasks.ts (/chat and /create-task,     *)
(* runTaskInBackground, /stop, /confirm), the queue of src/src/index.ts    *)
(* (drainQueueForUser and its task timers) and what of the agent in        *)
(* src/src/lib/agent-extension.ts touches the task's row: its progress     *)
(* messages and its two ways of asking for permission.                     *)
(*                                                                         *)
(* A row of the tasks table is its status, and the status of its latest    *)
(* permission request; the output column is left out.  A run is one call   *)
(* of runTaskInBackground; the agent it races against its 240 s timer is   *)
(* a process of its own, which goes on when the timer wins.  Time is       *)
(* abstracted: a timer or a poll may end at any moment, the 240 s only for *)
(* tasks in Late.  Each await ends a step, except that a database write    *)
(* and the lines after it are one.                                         *)
(***************************************************************************)
EXTENDS Naturals

CONSTANTS
  User, Task, OwnerOf,
  Destructive,  \* tasks the classifier holds for destructive
  Queued,       \* tasks the scheduler has queued
  Drain,        \* connections of an extension that drain the queue
  DrainOf,      \* whose extension it is
  MaxRuns,      \* runs; no bound if at least one per task and per drain of a queued task
  Late,         \* tasks whose agent may need longer than 240 s
  Stops,        \* bound: the stops that may come, each of a task and in a user's name
  DbMayFail,    \* what is written and asked about permissions may fail
  None

ASSUME TaskAssumption ==
  /\ OwnerOf \in [Task -> User] /\ DrainOf \in [Drain -> User]
  /\ Destructive \subseteq Task /\ Queued \subseteq Task
  /\ Destructive \cap Queued = {}
  /\ MaxRuns \in Nat \ {0}
  /\ None \notin Task \cup (1..MaxRuns) \cup User
  /\ Late \subseteq Task
  /\ DbMayFail \in BOOLEAN
  /\ Stops \subseteq Task \X User

Run == 1..MaxRuns

VARIABLES
  status, perm,    \* the row of each task, and of its permission request
  creation,        \* where the request that creates the task is
  stop, stopper,   \* where the request that stops it is, and the user it names
  runningTasksPerUser,
  taskAbortControllers,  \* task -> the run whose signal it aborts
  runningTasks,    \* tasks an agent works on
  taskOf, byDrain, \* of each run
  main,            \* where runTaskInBackground is
  aborted,         \* its signal
  agent,           \* where its agent is
  timer,           \* the 180 s timer a drain set for it
  activeTaskTimeouts,  \* task -> the run whose timer is remembered
  drain            \* where each drain is: the rows it read, and the one at hand

rowVars == <<status, perm>>
memVars == <<runningTasksPerUser, taskAbortControllers>>
runVars == <<taskOf, byDrain, main, aborted>>
agentVars == <<runningTasks, agent>>
timerVars == <<timer, activeTaskTimeouts>>
stopVars == <<stop, stopper>>
vars == <<rowVars, creation, stopVars, memVars, runVars, agentVars, timerVars, drain>>

Active == {"starting", "racing", "saving", "failing", "leaving"}
Working == {"working", "reporting", "asking", "reviewing"}

TypeOK ==
  /\ status \in [Task -> {"absent", "queued", "running", "waiting", "done", "error"}]
  /\ perm \in [Task -> {"none", "pending", "approved", "denied"}]
  /\ creation \in [Task -> {"none", "deciding", "polling", "approved", "over"}]
  /\ stop \in [Task -> {"none", "asked", "written", "over"}]
  /\ stopper \in [Task -> User \cup {None}]
  /\ runningTasksPerUser \in [User -> BOOLEAN]
  /\ taskAbortControllers \in [Task -> Run \cup {None}]
  /\ runningTasks \subseteq Task
  /\ taskOf \in [Run -> Task \cup {None}]
  /\ byDrain \in [Run -> BOOLEAN]
  /\ main \in [Run -> Active \cup {"none", "refused", "over"}]
  /\ aborted \in [Run -> BOOLEAN]
  /\ agent \in [Run -> Working \cup {"none", "returned"}]
  /\ timer \in [Run -> {"off", "armed"}]
  /\ activeTaskTimeouts \in [Task -> Run \cup {None}]
  /\ drain \in [Drain -> [todo: SUBSET Task, at: Task \cup {None}, began: BOOLEAN]]

Init ==
  /\ status = [t \in Task |-> IF t \in Queued THEN "queued" ELSE "absent"]
  /\ perm = [t \in Task |-> "none"]
  /\ creation = [t \in Task |-> IF t \in Queued THEN "over" ELSE "none"]
  /\ stop = [t \in Task |-> "none"]
  /\ stopper = [t \in Task |-> None]
  /\ runningTasksPerUser = [u \in User |-> FALSE]
  /\ taskAbortControllers = [t \in Task |-> None]
  /\ runningTasks = {}
  /\ taskOf = [r \in Run |-> None]
  /\ byDrain = [r \in Run |-> FALSE]
  /\ main = [r \in Run |-> "none"]
  /\ aborted = [r \in Run |-> FALSE]
  /\ agent = [r \in Run |-> "none"]
  /\ timer = [r \in Run |-> "off"]
  /\ activeTaskTimeouts = [t \in Task |-> None]
  /\ drain = [d \in Drain |-> [todo |-> {}, at |-> None, began |-> FALSE]]

SetStatus(t, st) == status' = [status EXCEPT ![t] = st]
---------------------------------------------------------------------------
(* runTaskInBackground                                                     *)

Unused == {r \in Run : main[r] = "none"}
NextRun == CHOOSE r \in Unused : TRUE

(* Mutant of Busy: the flag is not looked at.                              *)
NeverBusy(u) == FALSE

Busy(u) == runningTasksPerUser[u]

(* The call: refused if the user's flag is up, which it raises otherwise.  *)
Start(t, drained) ==
  LET r == NextRun IN
  /\ Unused # {}
  /\ taskOf' = [taskOf EXCEPT ![r] = t]
  /\ byDrain' = [byDrain EXCEPT ![r] = drained]
  /\ UNCHANGED aborted
  /\ IF Busy(OwnerOf[t])
     THEN /\ main' = [main EXCEPT ![r] = "refused"]
          /\ UNCHANGED memVars
     ELSE /\ main' = [main EXCEPT ![r] = "starting"]
          /\ runningTasksPerUser' = [runningTasksPerUser EXCEPT ![OwnerOf[t]] = TRUE]
          /\ taskAbortControllers' = [taskAbortControllers EXCEPT ![t] = r]

(* The drain's then: clearTaskTimeout.                                     *)
ClearTimeout(t) ==
  LET r == activeTaskTimeouts[t] IN
  /\ timer' = [q \in Run |-> IF q = r THEN "off" ELSE timer[q]]
  /\ activeTaskTimeouts' = [activeTaskTimeouts EXCEPT ![t] = None]

Settled(r) == IF byDrain[r] THEN ClearTimeout(taskOf[r]) ELSE UNCHANGED timerVars

(* Mutant of Refused: it just returns.                                     *)
RefusedSilently(r) ==
  /\ main[r] = "refused"
  /\ main' = [main EXCEPT ![r] = "over"]
  /\ Settled(r)
  /\ UNCHANGED <<rowVars, creation, stopVars, memVars, taskOf, byDrain, aborted, agentVars, drain>>

Refused(r) ==
  /\ main[r] = "refused"
  /\ SetStatus(taskOf[r], "error")
  /\ main' = [main EXCEPT ![r] = "over"]
  /\ Settled(r)
  /\ UNCHANGED <<perm, creation, stopVars, memVars, taskOf, byDrain, aborted, agentVars, drain>>

(* The first message is written, and the agent set off: not if the task    *)
(* was stopped by now, and with an error if an agent works on it already.  *)
Started(r) ==
  LET t == taskOf[r] IN
  /\ main[r] = "starting"
  /\ SetStatus(t, "running")
  /\ IF aborted[r]
     THEN /\ agent' = [agent EXCEPT ![r] = "returned"]
          /\ main' = [main EXCEPT ![r] = "racing"]
          /\ UNCHANGED runningTasks
     ELSE IF t \in runningTasks
     THEN /\ main' = [main EXCEPT ![r] = "failing"]
          /\ UNCHANGED agentVars
     ELSE /\ agent' = [agent EXCEPT ![r] = "working"]
          /\ runningTasks' = runningTasks \cup {t}
          /\ main' = [main EXCEPT ![r] = "racing"]
  /\ UNCHANGED <<perm, creation, stopVars, memVars, taskOf, byDrain, aborted, timerVars, drain>>

AgentWins(r) ==
  /\ main[r] = "racing" /\ agent[r] = "returned"
  /\ main' = [main EXCEPT ![r] = "saving"]
  /\ UNCHANGED <<rowVars, creation, stopVars, memVars, taskOf, byDrain, aborted, agentVars,
                 timerVars, drain>>

(* TASK_TIMEOUT_MS: nobody tells the agent.                                *)
TimeUp(r) ==
  /\ taskOf[r] \in Late /\ main[r] = "racing"
  /\ main' = [main EXCEPT ![r] = "failing"]
  /\ UNCHANGED <<rowVars, creation, stopVars, memVars, taskOf, byDrain, aborted, agentVars,
                 timerVars, drain>>

Save(r) ==
  /\ main[r] \in {"saving", "failing"}
  /\ SetStatus(taskOf[r], IF main[r] = "saving" THEN "done" ELSE "error")
  /\ main' = [main EXCEPT ![r] = "leaving"]
  /\ UNCHANGED <<perm, creation, stopVars, memVars, taskOf, byDrain, aborted, agentVars,
                 timerVars, drain>>

(* Mutant of LowerFlag: it is lowered only if nobody stopped the task,     *)
(* since /stop has lowered it then.                                        *)
LowerFlagUnlessStopped(r) ==
  runningTasksPerUser' = IF aborted[r] THEN runningTasksPerUser
                         ELSE [runningTasksPerUser EXCEPT ![OwnerOf[taskOf[r]]] = FALSE]

LowerFlag(r) ==
  runningTasksPerUser' = [runningTasksPerUser EXCEPT ![OwnerOf[taskOf[r]]] = FALSE]

(* finally                                                                 *)
Leave(r) ==
  /\ main[r] = "leaving"
  /\ main' = [main EXCEPT ![r] = "over"]
  /\ taskAbortControllers' = [taskAbortControllers EXCEPT ![taskOf[r]] = None]
  /\ LowerFlag(r)
  /\ Settled(r)
  /\ UNCHANGED <<rowVars, creation, stopVars, taskOf, byDrain, aborted, agentVars, drain>>
---------------------------------------------------------------------------
(* The agent                                                               *)

AgentOnly == UNCHANGED <<creation, stopVars, memVars, runVars, timerVars, drain>>

(* onProgress: the signal is looked at, then the row is read ...           *)
AgentReports(r) ==
  /\ agent[r] = "working" /\ ~aborted[r]
  /\ agent' = [agent EXCEPT ![r] = "reporting"]
  /\ UNCHANGED <<rowVars, runningTasks>> /\ AgentOnly

(* ... and written back, as running.                                       *)
ReportWritten(r) ==
  /\ agent[r] = "reporting"
  /\ SetStatus(taskOf[r], "running")
  /\ agent' = [agent EXCEPT ![r] = "working"]
  /\ UNCHANGED <<perm, runningTasks>> /\ AgentOnly

(* ask_permission, skipped if the task was approved upfront, and           *)
(* draft_content.  Whether the request was stored is not looked at.        *)
AgentAsks(r, how) ==
  /\ agent[r] = "working"
  /\ how = "asking" => taskOf[r] \notin Destructive
  /\ agent' = [agent EXCEPT ![r] = how]
  /\ \/ perm' = [perm EXCEPT ![taskOf[r]] = "pending"]
     \/ DbMayFail /\ UNCHANGED perm
  /\ SetStatus(taskOf[r], "waiting")
  /\ UNCHANGED runningTasks /\ AgentOnly

(* The two polls take no row for an approval, and so a query that failed.  *)
(* That of draft_content asks for pending rows only.                       *)
Approved(r) ==
  /\ ~aborted[r]
  /\ \/ agent[r] = "asking" /\ perm[taskOf[r]] \in {"approved", "none"}
     \/ agent[r] = "reviewing" /\ perm[taskOf[r]] # "pending"
     \/ agent[r] \in {"asking", "reviewing"} /\ DbMayFail

AgentApproved(r) ==
  /\ Approved(r)
  /\ agent' = [agent EXCEPT ![r] = "working"]
  /\ SetStatus(taskOf[r], "running")
  /\ UNCHANGED <<perm, runningTasks>> /\ AgentOnly

AgentReturns(r) ==
  /\ agent' = [agent EXCEPT ![r] = "returned"]
  /\ runningTasks' = runningTasks \ {taskOf[r]}

(* Denied, or stopped while it waits.                                      *)
AgentDenied(r) ==
  /\ \/ agent[r] \in {"asking", "reviewing"} /\ aborted[r]
     \/ agent[r] = "asking" /\ perm[taskOf[r]] = "denied"
  /\ AgentReturns(r)
  /\ SetStatus(taskOf[r], "running")
  /\ UNCHANGED perm /\ AgentOnly

(* Ten minutes without an answer.                                          *)
AgentGivesUp(r) ==
  /\ agent[r] \in {"asking", "reviewing"}
  /\ AgentReturns(r)
  /\ IF agent[r] = "reviewing" THEN SetStatus(taskOf[r], "running") ELSE UNCHANGED status
  /\ UNCHANGED perm /\ AgentOnly

(* It is through, or sees the signal.                                      *)
AgentEnds(r) ==
  /\ agent[r] = "working"
  /\ AgentReturns(r)
  /\ UNCHANGED rowVars /\ AgentOnly
---------------------------------------------------------------------------
(* The routes                                                              *)

RouteOnly == UNCHANGED <<agentVars, timerVars, drain>>

(* /chat and /create-task: the flag is looked at when the request comes.   *)
Requested(t) ==
  /\ creation[t] = "none" /\ ~Busy(OwnerOf[t])
  /\ creation' = [creation EXCEPT ![t] = "deciding"]
  /\ UNCHANGED <<rowVars, stopVars, memVars, runVars>> /\ RouteOnly

(* The task is run at once, or waits for the user's confirmation.          *)
Created(t) ==
  /\ creation[t] = "deciding"
  /\ IF t \in Destructive
     THEN /\ SetStatus(t, "waiting")
          /\ \/ perm' = [perm EXCEPT ![t] = "pending"]
             \/ DbMayFail /\ UNCHANGED perm
          /\ creation' = [creation EXCEPT ![t] = "polling"]
          /\ UNCHANGED <<memVars, runVars>>
     ELSE /\ SetStatus(t, "running")
          /\ creation' = [creation EXCEPT ![t] = "over"]
          /\ Start(t, FALSE)
          /\ UNCHANGED perm
  /\ UNCHANGED stopVars /\ RouteOnly

(* Mutant of Consent: the poll takes any answer for a yes, as the one of   *)
(* draft_content does.                                                     *)
AnyAnswer(t) == perm[t] # "pending"

Consent(t) == perm[t] = "approved"

PollApproved(t) ==
  /\ creation[t] = "polling" /\ Consent(t)
  /\ SetStatus(t, "running")
  /\ creation' = [creation EXCEPT ![t] = "approved"]
  /\ UNCHANGED <<perm, stopVars, memVars, runVars>> /\ RouteOnly

RunApproved(t) ==
  /\ creation[t] = "approved"
  /\ creation' = [creation EXCEPT ![t] = "over"]
  /\ Start(t, FALSE)
  /\ UNCHANGED <<rowVars, stopVars>> /\ RouteOnly

(* Denied, or 300 polls without an answer.                                 *)
PollEnds(t) ==
  /\ creation[t] = "polling"
  /\ creation' = [creation EXCEPT ![t] = "over"]
  /\ SetStatus(t, "done")
  /\ UNCHANGED <<perm, stopVars, memVars, runVars>> /\ RouteOnly

Confirm(t, answer) ==
  /\ perm[t] = "pending"
  /\ perm' = [perm EXCEPT ![t] = answer]
  /\ UNCHANGED <<status, creation, stopVars, memVars, runVars>> /\ RouteOnly

(* /stop, of any task and in the name of any user: the signal, then the    *)
(* row if it is that user's, then that user's flag.  (One of a task there  *)
(* is not lowers the flag, as one of a task that is over does.)  Bound:    *)
(* once per task, and those of Stops.                                      *)
StopAsked(t, u) ==
  LET r == taskAbortControllers[t] IN
  /\ <<t, u>> \in Stops
  /\ stop[t] = "none" /\ status[t] # "absent"
  /\ stop' = [stop EXCEPT ![t] = "asked"]
  /\ stopper' = [stopper EXCEPT ![t] = u]
  /\ aborted' = [q \in Run |-> aborted[q] \/ q = r]
  /\ taskAbortControllers' = [taskAbortControllers EXCEPT ![t] = None]
  /\ UNCHANGED <<rowVars, creation, runningTasksPerUser, taskOf, byDrain, main>> /\ RouteOnly

StopWritten(t) ==
  /\ stop[t] = "asked"
  /\ stop' = [stop EXCEPT ![t] = "written"]
  /\ IF stopper[t] = OwnerOf[t] THEN SetStatus(t, "done") ELSE UNCHANGED status
  /\ UNCHANGED <<perm, creation, stopper, memVars, runVars>> /\ RouteOnly

StopDone(t) ==
  /\ stop[t] = "written"
  /\ stop' = [stop EXCEPT ![t] = "over"]
  /\ runningTasksPerUser' = [runningTasksPerUser EXCEPT ![stopper[t]] = FALSE]
  /\ UNCHANGED <<rowVars, creation, stopper, taskAbortControllers, runVars>> /\ RouteOnly
---------------------------------------------------------------------------
(* drainQueueForUser                                                       *)

DrainReads(d) ==
  /\ ~drain[d].began
  /\ drain' = [drain EXCEPT ![d] =
       [todo |-> {t \in Task : OwnerOf[t] = DrainOf[d] /\ status[t] = "queued"},
        at |-> None, began |-> TRUE]]
  /\ UNCHANGED <<rowVars, creation, stopVars, memVars, runVars, agentVars, timerVars>>

DrainUpdates(d, t) ==
  /\ drain[d].at = None /\ t \in drain[d].todo
  /\ SetStatus(t, "running")
  /\ drain' = [drain EXCEPT ![d].todo = @ \ {t}, ![d].at = t]
  /\ UNCHANGED <<perm, creation, stopVars, memVars, runVars, agentVars, timerVars>>

(* The timer is set and the run started, not waited for.                   *)
DrainRuns(d) ==
  LET t == drain[d].at IN
  /\ t # None
  /\ Start(t, TRUE)
  /\ timer' = [timer EXCEPT ![NextRun] = "armed"]
  /\ activeTaskTimeouts' = [activeTaskTimeouts EXCEPT ![t] = NextRun]
  /\ drain' = [drain EXCEPT ![d].at = None]
  /\ UNCHANGED <<rowVars, creation, stopVars, agentVars>>

(* setTaskTimeout                                                          *)
TimerFires(r) ==
  LET t == taskOf[r] IN
  /\ timer[r] = "armed"
  /\ timer' = [timer EXCEPT ![r] = "off"]
  /\ activeTaskTimeouts' = [activeTaskTimeouts EXCEPT ![t] = None]
  /\ status' = [status EXCEPT ![t] = IF @ = "running" THEN "error" ELSE @]
  /\ UNCHANGED <<perm, creation, stopVars, memVars, runVars, agentVars, drain>>
---------------------------------------------------------------------------
MainStep(r) == Refused(r) \/ Started(r) \/ AgentWins(r) \/ Save(r) \/ Leave(r)

AgentAnswered(r) == AgentApproved(r) \/ AgentDenied(r) \/ AgentGivesUp(r)

AgentStep(r) ==
  \/ AgentReports(r) \/ ReportWritten(r) \/ AgentAnswered(r) \/ AgentEnds(r)
  \/ \E how \in {"asking", "reviewing"} : AgentAsks(r, how)

RouteStep(t) ==
  \/ Created(t) \/ PollApproved(t) \/ RunApproved(t) \/ PollEnds(t)
  \/ StopWritten(t) \/ StopDone(t)

DrainStep(d) == DrainRuns(d) \/ \E t \in Task : DrainUpdates(d, t)

Next ==
  \/ \E r \in Run : MainStep(r) \/ TimeUp(r) \/ AgentStep(r) \/ TimerFires(r)
  \/ \E t \in Task : RouteStep(t) \/ Requested(t) \/ \E u \in User : StopAsked(t, u)
  \/ \E t \in Task, answer \in {"approved", "denied"} : Confirm(t, answer)
  \/ \E d \in Drain : DrainStep(d) \/ DrainReads(d)

Spec == Init /\ [][Next]_vars

(* Awaited calls answer, polls are bounded, and so are the agent's         *)
(* iterations: it cannot report or ask for ever.                           *)
RunGoesOn(r) ==
  WF_vars(MainStep(r)) /\ WF_vars(ReportWritten(r)) /\ WF_vars(AgentAnswered(r))
  /\ SF_vars(AgentEnds(r))

RequestGoesOn(t) == WF_vars(RouteStep(t))

DrainGoesOn(d) == WF_vars(DrainStep(d))

EverythingGoesOn ==
  /\ \A r \in Run : RunGoesOn(r)
  /\ \A t \in Task : RequestGoesOn(t)
  /\ \A d \in Drain : DrainGoesOn(d)

FairSpec == Spec /\ EverythingGoesOn
---------------------------------------------------------------------------
(* What must hold of the task runner                                       *)

ActiveRuns(u) == {r \in Run : main[r] \in Active /\ OwnerOf[taskOf[r]] = u}

NeverStopped(u) == \A t \in Task : stopper[t] # u

(* As long as nothing was stopped in their name, a user has one task       *)
(* running at a time ("You already have a task running. Please wait for it *)
(* to finish before starting a new one."), though the routes look at the   *)
(* flag long before they start a run, and drains do not look at all.       *)
OneRunPerUser ==
  \A u \in User : NeverStopped(u) => \A q, r \in ActiveRuns(u) : q = r

(* The flag is never left up: a user is turned away only while a task of   *)
(* theirs is being run, however stops, timeouts and errors interleave.     *)
NeverLockedOut == \A u \in User : Busy(u) => ActiveRuns(u) # {}

(* No destructive task is begun without the user's yes, whatever timeouts, *)
(* stops and drains do in between.                                         *)
ConsentFirst ==
  [][\A r \in Run : main[r] = "none" /\ main'[r] # "none" /\ taskOf'[r] \in Destructive
       => perm[taskOf'[r]] = "approved"]_vars

(* No row is left "running" by a run that is over, unless its agent may go *)
(* on reporting after the run's 240 s.                                     *)
TasksSettle == \A t \in Task \ Late : <>[](status[t] # "running")

(* "Wait for user approval": an agent that asked goes on after a yes only. *)
ApprovalHonoured ==
  [][\A r \in Run : agent[r] \in {"asking", "reviewing"} /\ agent'[r] = "working"
       => perm[taskOf[r]] = "approved"]_vars
===========================================================================
