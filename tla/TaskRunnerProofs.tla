------------------------- MODULE TaskRunnerProofs --------------------------
(* Theorems about TaskRunner, for every set of users, tasks, runs and      *)
(* drains.                                                                 *)
EXTENDS TaskRunner, TLAPS

(* A stop of t comes, in anybody's name.                                   *)
Stopping(t) == \E u \in User : StopAsked(t, u)

USE TaskAssumption DEF stopVars, Stopping

LEMMA UnusedRun == Unused # {} => NextRun \in Run /\ main[NextRun] = "none"
  BY DEF Unused, NextRun

(***************************************************************************)
(* Type correctness.                                                       *)
(***************************************************************************)

LEMMA StatusTyped ==
  ASSUME TypeOK, NEW t \in Task,
         NEW st \in {"absent", "queued", "running", "waiting", "done", "error"},
         SetStatus(t, st)
  PROVE  status' \in [Task -> {"absent", "queued", "running", "waiting", "done", "error"}]
  BY DEF TypeOK, SetStatus

LEMMA StartTyped ==
  ASSUME TypeOK, NEW t \in Task, NEW drained \in BOOLEAN, Start(t, drained)
  PROVE  /\ runningTasksPerUser' \in [User -> BOOLEAN]
         /\ taskAbortControllers' \in [Task -> Run \cup {None}]
         /\ taskOf' \in [Run -> Task \cup {None}]
         /\ byDrain' \in [Run -> BOOLEAN]
         /\ main' \in [Run -> Active \cup {"none", "refused", "over"}]
         /\ aborted' \in [Run -> BOOLEAN]
<1>1. NextRun \in Run
  BY UnusedRun DEF Start
<1>2. CASE Busy(OwnerOf[t])
  BY <1>1, <1>2 DEF Start, TypeOK, memVars, Active
<1>3. CASE ~Busy(OwnerOf[t])
  <2>1. /\ runningTasksPerUser' = [runningTasksPerUser EXCEPT ![OwnerOf[t]] = TRUE]
        /\ taskAbortControllers' = [taskAbortControllers EXCEPT ![t] = NextRun]
        /\ main' = [main EXCEPT ![NextRun] = "starting"]
        /\ taskOf' = [taskOf EXCEPT ![NextRun] = t]
        /\ byDrain' = [byDrain EXCEPT ![NextRun] = drained]
        /\ aborted' = aborted
    BY <1>3 DEF Start
  <2>2. main' \in [Run -> Active \cup {"none", "refused", "over"}]
    BY <1>1, <2>1 DEF TypeOK, Active
  <2> QED
    BY <1>1, <2>1, <2>2 DEF TypeOK
<1> QED
  BY <1>2, <1>3

LEMMA SettledTyped ==
  ASSUME TypeOK, NEW r \in Run, taskOf[r] \in Task, Settled(r)
  PROVE  /\ timer' \in [Run -> {"off", "armed"}]
         /\ activeTaskTimeouts' \in [Task -> Run \cup {None}]
  BY DEF TypeOK, Settled, ClearTimeout, timerVars

(* A run that was begun has a task; only its own start and end change main *)
(* for an agent or a timer.                                                *)
RunsHaveTasks ==
  \A r \in Run :
    /\ main[r] # "none" => taskOf[r] \in Task
    /\ agent[r] # "none" => main[r] # "none"
    /\ timer[r] = "armed" => main[r] # "none"

LEMMA MainTyped ==
  ASSUME TypeOK, RunsHaveTasks, NEW r \in Run, MainStep(r) \/ TimeUp(r)
  PROVE  TypeOK'
<1> USE DEF TypeOK, rowVars, memVars, runVars, agentVars, timerVars
<1>1. CASE Refused(r)
  BY <1>1, StatusTyped, SettledTyped DEF Refused, RunsHaveTasks
<1>2. CASE Started(r)
  <2>1. taskOf[r] \in Task
    BY <1>2 DEF Started, RunsHaveTasks
  <2>2. status' \in [Task -> {"absent", "queued", "running", "waiting", "done", "error"}]
    BY <1>2, <2>1, StatusTyped DEF Started
  <2> QED
    BY <1>2, <2>1, <2>2 DEF Started, Active, Working
<1>3. CASE AgentWins(r) \/ TimeUp(r)
  BY <1>3 DEF AgentWins, TimeUp, Active
<1>4. CASE Save(r)
  BY <1>4, StatusTyped DEF Save, RunsHaveTasks, Active
<1>5. CASE Leave(r)
  <2>1. taskOf[r] \in Task /\ Settled(r)
    BY <1>5 DEF Leave, RunsHaveTasks
  <2>2. /\ timer' \in [Run -> {"off", "armed"}]
        /\ activeTaskTimeouts' \in [Task -> Run \cup {None}]
    BY <2>1, SettledTyped
  <2> QED
    BY <1>5, <2>1, <2>2 DEF Leave, LowerFlag
<1> QED
  BY <1>1, <1>2, <1>3, <1>4, <1>5 DEF MainStep

LEMMA AgentTyped ==
  ASSUME TypeOK, RunsHaveTasks, NEW r \in Run, AgentStep(r)
  PROVE  TypeOK'
<1> USE DEF TypeOK, rowVars, memVars, runVars, timerVars, AgentOnly, Working
<1>1. CASE AgentReports(r)
  BY <1>1 DEF AgentReports
<1>2. CASE ReportWritten(r)
  BY <1>2, StatusTyped DEF ReportWritten, RunsHaveTasks
<1>3. CASE AgentApproved(r)
  BY <1>3, StatusTyped DEF AgentApproved, Approved, RunsHaveTasks
<1>4. CASE AgentDenied(r)
  BY <1>4, StatusTyped DEF AgentDenied, AgentReturns, RunsHaveTasks
<1>5. CASE AgentGivesUp(r)
  BY <1>5, StatusTyped DEF AgentGivesUp, AgentReturns, RunsHaveTasks
<1>6. CASE AgentEnds(r)
  BY <1>6 DEF AgentEnds, AgentReturns
<1>7. ASSUME NEW how \in {"asking", "reviewing"}, AgentAsks(r, how)
      PROVE  TypeOK'
  BY <1>7, StatusTyped DEF AgentAsks, RunsHaveTasks
<1> QED
  BY <1>1, <1>2, <1>3, <1>4, <1>5, <1>6, <1>7 DEF AgentStep, AgentAnswered

LEMMA RouteTyped ==
  ASSUME TypeOK, NEW t \in Task,
         \/ RouteStep(t) \/ Requested(t) \/ Stopping(t)
         \/ \E answer \in {"approved", "denied"} : Confirm(t, answer)
  PROVE  TypeOK'
<1> USE DEF TypeOK, rowVars, memVars, runVars, agentVars, timerVars, RouteOnly
<1>1. CASE Created(t)
  <2>1. CASE t \in Destructive
    <3>1. /\ SetStatus(t, "waiting")
          /\ perm' = [perm EXCEPT ![t] = "pending"] \/ perm' = perm
          /\ creation' = [creation EXCEPT ![t] = "polling"]
          /\ UNCHANGED <<memVars, runVars, stopVars, agentVars, timerVars, drain>>
      BY <1>1, <2>1 DEF Created
    <3> QED
      BY <3>1, StatusTyped
  <2>2. CASE t \notin Destructive
    <3>1. /\ SetStatus(t, "running")
          /\ creation' = [creation EXCEPT ![t] = "over"]
          /\ Start(t, FALSE)
          /\ UNCHANGED <<perm, stopVars, agentVars, timerVars, drain>>
      BY <1>1, <2>2 DEF Created
    <3>2. creation' \in [Task -> {"none", "deciding", "polling", "approved", "over"}]
      BY <3>1
    <3> QED
      BY <3>1, <3>2, StatusTyped, StartTyped
  <2> QED
    BY <2>1, <2>2
<1>2. CASE RunApproved(t)
  BY <1>2, StartTyped DEF RunApproved
<1>3. CASE PollApproved(t) \/ PollEnds(t)
  <2>1. \E st \in {"running", "done"} : SetStatus(t, st)
    BY <1>3 DEF PollApproved, PollEnds
  <2>2. creation' \in [Task -> {"none", "deciding", "polling", "approved", "over"}]
    BY <1>3 DEF PollApproved, PollEnds
  <2> QED
    BY <1>3, <2>1, <2>2, StatusTyped DEF PollApproved, PollEnds
<1>4. CASE StopWritten(t) \/ StopDone(t)
  <2>1. CASE StopWritten(t)
    BY <1>4, <2>1, StatusTyped DEF StopWritten
  <2>2. CASE StopDone(t)
    BY <1>4, <2>2 DEF StopDone
  <2> QED
    BY <1>4, <2>1, <2>2
<1>5. CASE Stopping(t)
  BY <1>5 DEF StopAsked
<1>6. CASE Requested(t) \/ \E answer \in {"approved", "denied"} : Confirm(t, answer)
  <2>1. CASE Requested(t)
    BY <1>6, <2>1 DEF Requested
  <2>2. ASSUME NEW answer \in {"approved", "denied"}, Confirm(t, answer)
        PROVE  TypeOK'
    BY <2>2 DEF Confirm
  <2> QED
    BY <1>6, <2>1, <2>2
<1> QED
  BY <1>1, <1>2, <1>3, <1>4, <1>5, <1>6 DEF RouteStep

LEMMA DrainTyped ==
  ASSUME TypeOK, RunsHaveTasks,
         \/ \E d \in Drain : DrainStep(d) \/ DrainReads(d)
         \/ \E r \in Run : TimerFires(r)
  PROVE  TypeOK'
<1> USE DEF TypeOK, rowVars, memVars, runVars, agentVars, timerVars
<1>1. ASSUME NEW d \in Drain, DrainReads(d)
      PROVE  TypeOK'
  BY <1>1 DEF DrainReads
<1>2. ASSUME NEW d \in Drain, NEW t \in Task, DrainUpdates(d, t)
      PROVE  TypeOK'
  BY <1>2, StatusTyped DEF DrainUpdates
<1>3. ASSUME NEW d \in Drain, DrainRuns(d)
      PROVE  TypeOK'
  <2>1. drain[d].at \in Task /\ NextRun \in Run
    BY <1>3, UnusedRun DEF DrainRuns, Start
  <2>2. Start(drain[d].at, TRUE)
    BY <1>3 DEF DrainRuns
  <2>3. /\ timer' \in [Run -> {"off", "armed"}]
        /\ activeTaskTimeouts' \in [Task -> Run \cup {None}]
        /\ drain' \in [Drain -> [todo: SUBSET Task, at: Task \cup {None}, began: BOOLEAN]]
    <3>1. timer' \in [Run -> {"off", "armed"}]
      BY <1>3, <2>1 DEF DrainRuns
    <3>2. activeTaskTimeouts' \in [Task -> Run \cup {None}]
      BY <1>3, <2>1 DEF DrainRuns
    <3>3. drain' \in [Drain -> [todo: SUBSET Task, at: Task \cup {None}, began: BOOLEAN]]
      <4>1. drain \in [Drain -> [todo: SUBSET Task, at: Task \cup {None}, began: BOOLEAN]]
        OBVIOUS
      <4>2. drain' = [drain EXCEPT ![d].at = None]
        BY <1>3 DEF DrainRuns
      <4> HIDE DEF TypeOK
      <4> QED
        BY <4>1, <4>2
    <3> QED
      BY <3>1, <3>2, <3>3
  <2> QED
    BY <1>3, <2>1, <2>2, <2>3, StartTyped DEF DrainRuns
<1>4. ASSUME NEW r \in Run, TimerFires(r)
      PROVE  TypeOK'
  BY <1>4 DEF TimerFires, RunsHaveTasks
<1> QED
  BY <1>1, <1>2, <1>3, <1>4 DEF DrainStep

(***************************************************************************)
(* What each step may do to the runs: every later invariant rests on       *)
(* this.                                                                   *)
(***************************************************************************)

(* Nothing that belongs to the runs and the flag moves.                    *)
RunsStay == UNCHANGED <<main, taskOf, byDrain, runningTasksPerUser>>

(* One run goes on, without beginning or ending.                           *)
Advances(r) ==
  /\ main[r] \in Active /\ main' = [main EXCEPT ![r] = main'[r]] /\ main'[r] \in Active
  /\ UNCHANGED <<taskOf, byDrain, runningTasksPerUser>>

Turned(r) ==
  /\ main[r] = "refused" /\ main' = [main EXCEPT ![r] = "over"]
  /\ UNCHANGED <<taskOf, byDrain, runningTasksPerUser>>

LEMMA Steps ==
  ASSUME TypeOK, RunsHaveTasks, [Next]_vars
  PROVE  \/ RunsStay
         \/ \E r \in Run : Advances(r) \/ Turned(r) \/ Leave(r)
         \/ \E t \in Task : creation[t] \in {"deciding", "approved"} /\ Start(t, FALSE)
                            /\ (creation[t] = "deciding" => t \notin Destructive)
                            /\ creation' = [creation EXCEPT ![t] = "over"]
         \/ \E d \in Drain : drain[d].at \in Task /\ Start(drain[d].at, TRUE)
         \/ \E t \in Task : StopDone(t)
<1> USE DEF memVars, runVars, RunsStay
<1>1. ASSUME NEW r \in Run, MainStep(r) \/ TimeUp(r)
      PROVE  Advances(r) \/ Turned(r) \/ Leave(r)
  <2>1. CASE Refused(r)
    BY <2>1 DEF Refused, Turned
  <2>2. CASE Started(r)
    BY <2>2 DEF Started, Advances, Active, TypeOK
  <2>3. CASE AgentWins(r) \/ TimeUp(r)
    BY <2>3 DEF AgentWins, TimeUp, Advances, Active, TypeOK
  <2>4. CASE Save(r)
    BY <2>4 DEF Save, Advances, Active, TypeOK
  <2> QED
    BY <1>1, <2>1, <2>2, <2>3, <2>4 DEF MainStep
<1>2. ASSUME NEW r \in Run, AgentStep(r) \/ TimerFires(r)
      PROVE  RunsStay
  BY <1>2 DEF AgentStep, AgentAnswered, AgentReports, ReportWritten, AgentApproved, AgentDenied,
       AgentGivesUp, AgentEnds, AgentAsks, AgentOnly, TimerFires
<1>3. ASSUME NEW t \in Task, Created(t) \/ RunApproved(t)
      PROVE  \/ RunsStay
             \/ creation[t] \in {"deciding", "approved"} /\ Start(t, FALSE)
                /\ (creation[t] = "deciding" => t \notin Destructive)
                /\ creation' = [creation EXCEPT ![t] = "over"]
  BY <1>3 DEF Created, RunApproved
<1>4. ASSUME NEW t \in Task,
             \/ PollApproved(t) \/ PollEnds(t) \/ StopWritten(t) \/ Requested(t) \/ Stopping(t)
             \/ \E answer \in {"approved", "denied"} : Confirm(t, answer)
      PROVE  RunsStay
  BY <1>4 DEF PollApproved, PollEnds, StopWritten, Requested, StopAsked, Confirm
<1>5. ASSUME NEW d \in Drain, DrainReads(d) \/ \E t \in Task : DrainUpdates(d, t)
      PROVE  RunsStay
  BY <1>5 DEF DrainReads, DrainUpdates
<1>6. ASSUME NEW d \in Drain, DrainRuns(d)
      PROVE  drain[d].at \in Task /\ Start(drain[d].at, TRUE)
  BY <1>6 DEF DrainRuns, TypeOK
<1>7. CASE UNCHANGED vars
  BY <1>7 DEF vars
<1> QED
  BY <1>1, <1>2, <1>3, <1>4, <1>5, <1>6, <1>7 DEF Next, RouteStep, DrainStep

LEMMA MainForward ==
  ASSUME TypeOK, RunsHaveTasks, [Next]_vars, NEW r \in Run, main[r] # "none"
  PROVE  main'[r] # "none" /\ taskOf'[r] = taskOf[r] /\ byDrain'[r] = byDrain[r]
<1> USE DEF TypeOK, Active
<1>1. CASE RunsStay
  BY <1>1 DEF RunsStay
<1>2. ASSUME NEW q \in Run, Advances(q) \/ Turned(q) \/ Leave(q)
      PROVE  main'[r] # "none" /\ taskOf'[r] = taskOf[r] /\ byDrain'[r] = byDrain[r]
  BY <1>2 DEF Advances, Turned, Leave
<1>3. ASSUME NEW t \in Task, NEW drained \in BOOLEAN, Start(t, drained)
      PROVE  main'[r] # "none" /\ taskOf'[r] = taskOf[r] /\ byDrain'[r] = byDrain[r]
  <2>1. NextRun \in Run /\ NextRun # r
    BY <1>3, UnusedRun DEF Start
  <2> QED
    BY <1>3, <2>1 DEF Start, memVars
<1>4. ASSUME NEW t \in Task, StopDone(t)
      PROVE  main'[r] # "none" /\ taskOf'[r] = taskOf[r] /\ byDrain'[r] = byDrain[r]
  BY <1>4 DEF StopDone, runVars
<1> QED
  BY <1>1, <1>2, <1>3, <1>4, Steps

LEMMA NewRuns ==
  ASSUME TypeOK, RunsHaveTasks, [Next]_vars, NEW r \in Run, main[r] = "none", main'[r] # "none"
  PROVE  /\ \E t \in Task, drained \in BOOLEAN : Start(t, drained)
         /\ r = NextRun /\ taskOf'[r] \in Task
<1> USE DEF TypeOK, Active
<1>1. CASE RunsStay
  BY <1>1 DEF RunsStay
<1>2. ASSUME NEW q \in Run, Advances(q) \/ Turned(q) \/ Leave(q)
      PROVE  FALSE
  BY <1>2 DEF Advances, Turned, Leave
<1>3. ASSUME NEW t \in Task, NEW drained \in BOOLEAN, Start(t, drained)
      PROVE  r = NextRun /\ taskOf'[r] \in Task
  BY <1>3, UnusedRun DEF Start
<1>4. ASSUME NEW t \in Task, StopDone(t)
      PROVE  FALSE
  BY <1>4 DEF StopDone, runVars
<1> QED
  BY <1>1, <1>2, <1>3, <1>4, Steps

LEMMA RunsHaveTasksStep ==
  ASSUME TypeOK, RunsHaveTasks, [Next]_vars
  PROVE  RunsHaveTasks'
<1>1. ASSUME NEW r \in Run
      PROVE  main'[r] # "none" => taskOf'[r] \in Task
  BY MainForward, NewRuns DEF RunsHaveTasks
<1>2. ASSUME NEW r \in Run, agent'[r] # "none"
      PROVE  main'[r] # "none"
  <2>1. CASE main[r] # "none"
    BY <2>1, MainForward
  <2>2. CASE UNCHANGED agent
    BY <1>2, <2>2, MainForward DEF RunsHaveTasks
  <2>3. ASSUME NEW q \in Run, Started(q) \/ AgentStep(q)
        PROVE  main'[r] # "none"
    <3>1. main[q] # "none"
      BY <2>3 DEF Started, AgentStep, AgentAnswered, AgentReports, ReportWritten, AgentApproved,
           Approved, AgentDenied, AgentGivesUp, AgentEnds, AgentAsks, RunsHaveTasks
    <3>2. r # q => agent'[r] = agent[r]
      BY <2>3 DEF TypeOK, Started, agentVars, AgentStep, AgentAnswered, AgentReports,
           ReportWritten, AgentApproved, AgentDenied, AgentGivesUp, AgentEnds, AgentAsks,
           AgentReturns
    <3> QED
      BY <1>2, <3>1, <3>2, MainForward DEF RunsHaveTasks
  <2> QED
    BY <2>2, <2>3 DEF Next, MainStep, Refused, AgentWins, TimeUp, Save, Leave, TimerFires,
         RouteStep, Created, PollApproved, RunApproved, PollEnds, StopWritten, StopDone,
         Requested, StopAsked, Confirm, RouteOnly, DrainStep, DrainReads, DrainUpdates, DrainRuns,
         agentVars, vars
<1>3. ASSUME NEW r \in Run, timer'[r] = "armed"
      PROVE  main'[r] # "none"
  <2>1. CASE timer[r] = "armed"
    BY <2>1, MainForward DEF RunsHaveTasks
  <2>2. ASSUME NEW d \in Drain, DrainRuns(d), r = NextRun
        PROVE  main'[r] # "none"
    BY <2>2, UnusedRun DEF DrainRuns, Start, TypeOK
  <2>3. CASE timer[r] # "armed"
    <3>1. ASSUME NEW q \in Run, MainStep(q) \/ TimeUp(q) \/ AgentStep(q) \/ TimerFires(q)
          PROVE  FALSE
      <4>1. CASE Settled(q)
        BY <1>3, <2>3, <4>1 DEF Settled, ClearTimeout, timerVars, TypeOK
      <4> QED
        BY <1>3, <2>3, <3>1, <4>1 DEF MainStep, Refused, Started, AgentWins, Save, Leave, TimeUp,
             AgentStep, AgentAnswered, AgentReports, ReportWritten, AgentApproved, AgentDenied,
             AgentGivesUp, AgentEnds, AgentAsks, AgentOnly, TimerFires, timerVars, TypeOK
    <3>2. ASSUME NEW d \in Drain, DrainRuns(d)
          PROVE  r = NextRun
      BY <1>3, <2>3, <3>2 DEF DrainRuns, TypeOK
    <3> QED
      BY <1>3, <2>2, <2>3, <3>1, <3>2 DEF Next, RouteStep, Created, PollApproved, RunApproved,
           PollEnds, StopWritten, StopDone, Requested, StopAsked, Confirm, RouteOnly, DrainStep,
           DrainReads, DrainUpdates, timerVars, vars
  <2> QED
    BY <2>1, <2>3
<1> QED
  BY <1>1, <1>2, <1>3 DEF RunsHaveTasks

(***************************************************************************)
(* Types and runs, together, are inductive.                                *)
(***************************************************************************)
TaskInv == TypeOK /\ RunsHaveTasks

LEMMA TaskInvInit == Init => TaskInv
<1> SUFFICES ASSUME Init PROVE TaskInv
  OBVIOUS
<1>1. drain \in [Drain -> [todo: SUBSET Task, at: Task \cup {None}, began: BOOLEAN]]
  BY DEF Init
<1>2. RunsHaveTasks
  BY DEF Init, RunsHaveTasks
<1> QED
  BY <1>1, <1>2 DEF Init, TaskInv, TypeOK, Active, Working

LEMMA TaskInvStep == TaskInv /\ [Next]_vars => TaskInv'
<1> SUFFICES ASSUME TaskInv, [Next]_vars PROVE TaskInv'
  OBVIOUS
<1> USE DEF TaskInv
<1>1. CASE UNCHANGED vars
  BY <1>1 DEF TypeOK, RunsHaveTasks, vars, rowVars, memVars, runVars, agentVars, timerVars
<1>2. CASE Next
  BY <1>2, RunsHaveTasksStep, MainTyped, AgentTyped, RouteTyped, DrainTyped DEF Next
<1> QED
  BY <1>1, <1>2

(* Every variable stays of its type.                                       *)
THEOREM TypeCorrect == Spec => []TypeOK
<1>1. TaskInv => TypeOK
  BY DEF TaskInv
<1> QED
  BY <1>1, TaskInvInit, TaskInvStep, PTL DEF Spec

(***************************************************************************)
(* The flag.                                                               *)
(***************************************************************************)

LEMMA LockStep ==
  ASSUME TaskInv, NeverLockedOut, [Next]_vars
  PROVE  NeverLockedOut'
<1> USE DEF NeverLockedOut, ActiveRuns, Busy
<1>0. /\ main \in [Run -> Active \cup {"none", "refused", "over"}]
      /\ runningTasksPerUser \in [User -> BOOLEAN]
      /\ taskOf \in [Run -> Task \cup {None}]
      /\ RunsHaveTasks /\ TypeOK
  BY DEF TaskInv, TypeOK
<1>1. CASE RunsStay
  BY <1>1 DEF RunsStay
<1>2. ASSUME NEW r \in Run, Advances(r) \/ Turned(r)
      PROVE  NeverLockedOut'
  BY <1>0, <1>2 DEF Advances, Turned, Active
<1>3. ASSUME NEW r \in Run, Leave(r)
      PROVE  NeverLockedOut'
  <2>1. taskOf[r] \in Task
    BY <1>0, <1>3 DEF Leave, RunsHaveTasks
  <2>2. /\ \A u \in User \ {OwnerOf[taskOf[r]]} :
             runningTasksPerUser'[u] = runningTasksPerUser[u]
        /\ ~runningTasksPerUser'[OwnerOf[taskOf[r]]]
        /\ \A q \in Run \ {r} : main'[q] = main[q]
        /\ taskOf' = taskOf
    BY <1>0, <1>3, <2>1, TaskAssumption DEF Leave, LowerFlag
  <2>3. ASSUME NEW u \in User, Busy(u)'
        PROVE  ActiveRuns(u)' # {}
    <3>1. u # OwnerOf[taskOf[r]] /\ Busy(u)
      BY <2>2, <2>3
    <3>2. PICK q \in ActiveRuns(u) : TRUE
      BY <3>1
    <3> QED
      BY <2>2, <3>1, <3>2
  <2> QED
    BY <2>3
<1>4. ASSUME NEW t \in Task, NEW drained \in BOOLEAN, Start(t, drained)
      PROVE  NeverLockedOut'
  <2>1. NextRun \in Run /\ main[NextRun] = "none"
    BY <1>4, UnusedRun DEF Start
  <2>2. /\ \A q \in Run \ {NextRun} : main'[q] = main[q] /\ taskOf'[q] = taskOf[q]
        /\ taskOf'[NextRun] = t
        /\ \A u \in User \ {OwnerOf[t]} : runningTasksPerUser'[u] = runningTasksPerUser[u]
    BY <1>0, <1>4, <2>1 DEF Start, memVars
  <2>3. Busy(OwnerOf[t]) \/ main'[NextRun] = "starting"
    BY <1>0, <1>4, <2>1 DEF Start
  <2>4. ASSUME NEW u \in User, Busy(u)'
        PROVE  ActiveRuns(u)' # {}
    <3>1. CASE Busy(u)
      <4>1. PICK q \in ActiveRuns(u) : TRUE
        BY <3>1
      <4>2. q # NextRun
        BY <2>1, <4>1 DEF Active
      <4> QED
        BY <2>2, <4>1, <4>2
    <3>2. CASE ~Busy(u)
      <4>1. u = OwnerOf[t] /\ main'[NextRun] = "starting"
        BY <2>2, <2>3, <2>4, <3>2
      <4> QED
        BY <2>1, <2>2, <4>1 DEF Active
    <3> QED
      BY <3>1, <3>2
  <2> QED
    BY <2>4
<1>5. ASSUME NEW t \in Task, StopDone(t)
      PROVE  NeverLockedOut'
  BY <1>0, <1>5 DEF StopDone, runVars
<1> QED
  BY <1>0, <1>1, <1>2, <1>3, <1>4, <1>5, Steps

(* The flag runningTasksPerUser is up only while a task of the user is     *)
(* being run: no order of stops, timeouts, refusals and errors leaves a    *)
(* user locked out.                                                        *)
THEOREM NoUserLockedOut == Spec => []NeverLockedOut
<1>1. Init => NeverLockedOut
  BY DEF Init, NeverLockedOut, Busy
<1> QED
  BY <1>1, TaskInvInit, TaskInvStep, LockStep, PTL DEF Spec

(***************************************************************************)
(* One run per user.  /stop lowers the flag of the user it names whatever  *)
(* is running, so it is about users nobody named in a stop.                *)
(***************************************************************************)
FlagUpWhileActive ==
  \A u \in User : NeverStopped(u) =>
    /\ ~Busy(u) => ActiveRuns(u) = {}
    /\ \A q, r \in ActiveRuns(u) : q = r

(* A stop names a user, and what it named is never taken back.             *)
StopsNamed == \A t \in Task : stop[t] = "none" <=> stopper[t] = None

LEMMA StopsStay ==
  ASSUME TypeOK, StopsNamed, [Next]_vars
  PROVE  StopsNamed' /\ \A u \in User : NeverStopped(u)' => NeverStopped(u)
<1>1. CASE UNCHANGED stopVars
  BY <1>1 DEF NeverStopped, StopsNamed
<1>2. ASSUME NEW t \in Task, StopWritten(t) \/ StopDone(t)
      PROVE  StopsNamed' /\ \A u \in User : NeverStopped(u)' => NeverStopped(u)
  BY <1>2 DEF StopWritten, StopDone, NeverStopped, StopsNamed, TypeOK
<1>3. ASSUME NEW t \in Task, NEW v \in User, StopAsked(t, v)
      PROVE  StopsNamed' /\ \A u \in User : NeverStopped(u)' => NeverStopped(u)
  <2>1. /\ stop[t] = "none" /\ stopper[t] = None
        /\ stop' = [stop EXCEPT ![t] = "asked"] /\ stopper' = [stopper EXCEPT ![t] = v]
    BY <1>3 DEF StopAsked, StopsNamed
  <2> QED
    BY <2>1 DEF NeverStopped, StopsNamed, TypeOK
<1> QED
  BY <1>1, <1>2, <1>3
  DEF Next, MainStep, Refused, Started, AgentWins, TimeUp, Save, Leave, AgentStep,
     AgentAnswered, AgentReports, ReportWritten, AgentApproved, AgentDenied, AgentGivesUp,
     AgentEnds, AgentAsks, AgentOnly, TimerFires, RouteStep, Created, PollApproved, RunApproved,
     PollEnds, Requested, Confirm, DrainStep, DrainReads, DrainUpdates, DrainRuns, vars

LEMMA FlagStep ==
  ASSUME TaskInv, StopsNamed, FlagUpWhileActive, [Next]_vars
  PROVE  FlagUpWhileActive'
<1> USE DEF TaskInv, FlagUpWhileActive, Busy
<1>0. \A u \in User : NeverStopped(u)' => NeverStopped(u)
  BY StopsStay
<1>1. CASE RunsStay
  BY <1>0, <1>1 DEF RunsStay, ActiveRuns
<1>2. ASSUME NEW r \in Run, Advances(r) \/ Turned(r)
      PROVE  FlagUpWhileActive'
  <2>1. \A u \in User : ActiveRuns(u)' = ActiveRuns(u)
    BY <1>2 DEF Advances, Turned, Active, ActiveRuns, TypeOK
  <2> QED
    BY <1>0, <1>2, <2>1 DEF Advances, Turned
<1>3. ASSUME NEW r \in Run, Leave(r)
      PROVE  FlagUpWhileActive'
  <2>1. taskOf[r] \in Task /\ main[r] \in Active
    BY <1>3 DEF Leave, RunsHaveTasks, Active
  <2>2. /\ \A u \in User \ {OwnerOf[taskOf[r]]} :
             runningTasksPerUser'[u] = runningTasksPerUser[u]
        /\ \A u \in User : ActiveRuns(u)' = ActiveRuns(u) \ {r}
    BY <1>3, <2>1 DEF Leave, LowerFlag, Active, ActiveRuns, TypeOK
  <2>3. r \in ActiveRuns(OwnerOf[taskOf[r]])
    BY <2>1 DEF ActiveRuns
  <2>4. NeverStopped(OwnerOf[taskOf[r]]) =>
          \A q \in ActiveRuns(OwnerOf[taskOf[r]]) : q = r
    BY <2>1, <2>3, TaskAssumption
  <2> QED
    BY <1>0, <2>1, <2>2, <2>4
<1>4. ASSUME NEW t \in Task, NEW drained \in BOOLEAN, Start(t, drained)
      PROVE  FlagUpWhileActive'
  <2>1. NextRun \in Run /\ main[NextRun] = "none" /\ OwnerOf[t] \in User
    BY <1>4, UnusedRun, TaskAssumption DEF Start
  <2>2. CASE Busy(OwnerOf[t])
    <3>1. /\ main' = [main EXCEPT ![NextRun] = "refused"]
          /\ taskOf' = [taskOf EXCEPT ![NextRun] = t]
          /\ runningTasksPerUser' = runningTasksPerUser
      BY <1>4, <2>2 DEF Start, memVars
    <3>2. \A u \in User : ActiveRuns(u)' = ActiveRuns(u)
      BY <2>1, <3>1 DEF Active, ActiveRuns, TypeOK
    <3> QED
      BY <1>0, <3>1, <3>2
  <2>3. CASE ~Busy(OwnerOf[t])
    <3>1. /\ main' = [main EXCEPT ![NextRun] = "starting"]
          /\ taskOf' = [taskOf EXCEPT ![NextRun] = t]
          /\ runningTasksPerUser' = [runningTasksPerUser EXCEPT ![OwnerOf[t]] = TRUE]
      BY <1>4, <2>3 DEF Start
    <3>2. /\ ActiveRuns(OwnerOf[t])' = ActiveRuns(OwnerOf[t]) \cup {NextRun}
          /\ \A u \in User \ {OwnerOf[t]} : ActiveRuns(u)' = ActiveRuns(u)
      BY <2>1, <3>1 DEF Active, ActiveRuns, TypeOK
    <3>3. NeverStopped(OwnerOf[t]) => ActiveRuns(OwnerOf[t]) = {}
      BY <2>1, <2>3
    <3>4. /\ runningTasksPerUser'[OwnerOf[t]]
          /\ \A u \in User \ {OwnerOf[t]} : runningTasksPerUser'[u] = runningTasksPerUser[u]
      BY <2>1, <3>1 DEF TypeOK
    <3> QED
      BY <1>0, <3>2, <3>3, <3>4
  <2> QED
    BY <2>2, <2>3
<1>5. ASSUME NEW t \in Task, StopDone(t)
      PROVE  FlagUpWhileActive'
  <2>1. stopper[t] \in User /\ ~NeverStopped(stopper[t])
    BY <1>5 DEF StopDone, StopsNamed, NeverStopped, TypeOK
  <2>2. /\ \A u \in User \ {stopper[t]} : runningTasksPerUser'[u] = runningTasksPerUser[u]
        /\ \A u \in User : ActiveRuns(u)' = ActiveRuns(u)
    BY <1>5, <2>1 DEF StopDone, runVars, ActiveRuns, TypeOK
  <2> QED
    BY <1>0, <2>1, <2>2
<1> QED
  BY <1>1, <1>2, <1>3, <1>4, <1>5, Steps

(* A user nobody named in a stop never has two runs active at once, though *)
(* /chat and /create-task look at the flag many awaits before the run      *)
(* begins, and drains do not look at all.                                  *)
THEOREM OneRunAtATime == Spec => []OneRunPerUser
<1> DEFINE I == TaskInv /\ StopsNamed /\ FlagUpWhileActive
<1>1. Init => I
  BY TaskInvInit DEF Init, StopsNamed, FlagUpWhileActive, ActiveRuns, Busy, Active
<1>2. I /\ [Next]_vars => I'
  <2> SUFFICES ASSUME I, [Next]_vars PROVE I'
    OBVIOUS
  <2> QED
    BY TaskInvStep, FlagStep, StopsStay DEF TaskInv
<1>3. I => OneRunPerUser
  BY DEF FlagUpWhileActive, OneRunPerUser
<1> QED
  BY <1>1, <1>2, <1>3, PTL DEF Spec

(***************************************************************************)
(* Consent.                                                                *)
(***************************************************************************)

(* Until its creation is over, a destructive task has no run, so nobody    *)
(* but the user touches its permission; queued tasks are never             *)
(* destructive.                                                            *)
ConsentInv ==
  /\ \A t \in Destructive :
       /\ creation[t] # "over" => \A r \in Run : main[r] # "none" => taskOf[r] # t
       /\ creation[t] = "approved" => perm[t] = "approved"
       /\ status[t] # "queued"
  /\ \A d \in Drain : drain[d].todo \cap Destructive = {} /\ drain[d].at \notin Destructive

LEMMA ConsentRuns ==
  ASSUME TaskInv, ConsentInv, [Next]_vars, NEW r \in Run, main[r] = "none", main'[r] # "none"
  PROVE  taskOf'[r] \in Destructive =>
           creation[taskOf'[r]] = "approved" /\ creation'[taskOf'[r]] = "over"
<1> USE DEF TaskInv
<1>1. r = NextRun /\ \E t \in Task, drained \in BOOLEAN : Start(t, drained)
  BY NewRuns
<1>2. \A t, drained : Start(t, drained) => taskOf'[r] = t
  BY <1>1, UnusedRun DEF Start, TypeOK
<1>3. ~RunsStay
  BY DEF RunsStay
<1>4. ASSUME NEW q \in Run, Advances(q) \/ Turned(q) \/ Leave(q)
      PROVE  FALSE
  BY <1>4 DEF Advances, Turned, Leave, Active, TypeOK
<1>5. ASSUME NEW t \in Task, StopDone(t)
      PROVE  FALSE
  BY <1>5 DEF StopDone, runVars
<1>6. ASSUME NEW t \in Task, creation[t] \in {"deciding", "approved"}, Start(t, FALSE),
             creation[t] = "deciding" => t \notin Destructive,
             creation' = [creation EXCEPT ![t] = "over"]
      PROVE  taskOf'[r] \in Destructive =>
               creation[taskOf'[r]] = "approved" /\ creation'[taskOf'[r]] = "over"
  BY <1>2, <1>6 DEF TypeOK
<1>7. ASSUME NEW d \in Drain, Start(drain[d].at, TRUE)
      PROVE  taskOf'[r] \notin Destructive
  BY <1>2, <1>7 DEF ConsentInv
<1> QED
  BY <1>3, <1>4, <1>5, <1>6, <1>7, Steps

(* The steps of the runs, the agents and the drains leave the requests     *)
(* alone, and only an agent that asks touches a permission.                *)
LEMMA QuietSteps ==
  ASSUME [Next]_vars
  PROVE  \/ UNCHANGED <<perm, creation>>
         \/ \E r \in Run, how \in {"asking", "reviewing"} : AgentAsks(r, how)
         \/ \E t \in Task :
              Created(t) \/ PollApproved(t) \/ RunApproved(t) \/ PollEnds(t) \/ Requested(t)
         \/ \E t \in Task, answer \in {"approved", "denied"} : Confirm(t, answer)
<1>1. ASSUME NEW r \in Run, MainStep(r) \/ TimeUp(r) \/ TimerFires(r)
      PROVE  UNCHANGED <<perm, creation>>
  BY <1>1 DEF MainStep, Refused, Started, AgentWins, TimeUp, Save, Leave, TimerFires, rowVars
<1>2. ASSUME NEW r \in Run, AgentStep(r), ~\E how \in {"asking", "reviewing"} : AgentAsks(r, how)
      PROVE  UNCHANGED <<perm, creation>>
  BY <1>2 DEF AgentStep, AgentAnswered, AgentReports, ReportWritten, AgentApproved, AgentDenied,
     AgentGivesUp, AgentEnds, AgentOnly, rowVars
<1>3. ASSUME NEW t \in Task, StopWritten(t) \/ StopDone(t) \/ Stopping(t)
      PROVE  UNCHANGED <<perm, creation>>
  BY <1>3 DEF StopWritten, StopDone, StopAsked, rowVars
<1>4. ASSUME NEW d \in Drain, DrainStep(d) \/ DrainReads(d)
      PROVE  UNCHANGED <<perm, creation>>
  BY <1>4 DEF DrainStep, DrainReads, DrainUpdates, DrainRuns, rowVars
<1>5. CASE UNCHANGED vars
  BY <1>5 DEF vars, rowVars
<1> QED
  BY <1>1, <1>2, <1>3, <1>4, <1>5 DEF Next, RouteStep

(* A request for creation goes forward.                                    *)
LEMMA CreationForward ==
  ASSUME TypeOK, [Next]_vars, NEW t \in Task, creation[t] = "over"
  PROVE  creation'[t] = "over"
<1>1. ASSUME NEW q \in Task,
             Created(q) \/ PollApproved(q) \/ RunApproved(q) \/ PollEnds(q) \/ Requested(q)
      PROVE  creation'[t] = "over"
  <2>1. creation[q] # "over"
    BY <1>1 DEF Created, PollApproved, RunApproved, PollEnds, Requested
  <2>2. \E c : creation' = [creation EXCEPT ![q] = c]
    BY <1>1 DEF Created, PollApproved, RunApproved, PollEnds, Requested
  <2> QED
    BY <2>1, <2>2 DEF TypeOK
<1>2. \A r \in Run, how \in {"asking", "reviewing"} : AgentAsks(r, how) => UNCHANGED creation
  BY DEF AgentAsks, AgentOnly
<1>3. \A q \in Task, answer \in {"approved", "denied"} : Confirm(q, answer) => UNCHANGED creation
  BY DEF Confirm
<1>4. CASE UNCHANGED <<perm, creation>>
  BY <1>4
<1>5. CASE UNCHANGED creation
  BY <1>5
<1> QED
  BY <1>1, <1>2, <1>3, <1>4, <1>5, QuietSteps

(* An approval stays: only an answer to a pending request, or an agent     *)
(* that asks, writes it.                                                   *)
LEMMA ApprovalStays ==
  ASSUME TaskInv, ConsentInv, [Next]_vars, NEW t \in Destructive, creation'[t] = "approved"
  PROVE  perm'[t] = "approved"
<1> USE DEF TaskInv, TypeOK
<1>1. CASE UNCHANGED <<perm, creation>>
  BY <1>1 DEF ConsentInv
<1>2. ASSUME NEW q \in Task, PollApproved(q)
      PROVE  perm'[t] = "approved"
  BY <1>2 DEF PollApproved, Consent, ConsentInv
<1>3. ASSUME NEW q \in Task,
             Created(q) \/ RunApproved(q) \/ PollEnds(q) \/ Requested(q)
      PROVE  perm'[t] = "approved"
  <2>1. t # q
    BY <1>3 DEF Created, RunApproved, PollEnds, Requested
  <2>2. creation'[t] = creation[t] /\ perm'[t] = perm[t]
    BY <1>3, <2>1 DEF Created, RunApproved, PollEnds, Requested, rowVars
  <2> QED
    BY <2>2 DEF ConsentInv
<1>4. ASSUME NEW q \in Task, NEW answer \in {"approved", "denied"}, Confirm(q, answer)
      PROVE  perm'[t] = "approved"
  BY <1>4 DEF Confirm, ConsentInv
<1>5. ASSUME NEW r \in Run, NEW how \in {"asking", "reviewing"}, AgentAsks(r, how)
      PROVE  perm'[t] = "approved"
  <2>1. taskOf[r] # t /\ UNCHANGED creation
    BY <1>5 DEF AgentAsks, AgentOnly, ConsentInv, RunsHaveTasks
  <2> QED
    BY <1>5, <2>1 DEF AgentAsks, ConsentInv
<1> QED
  BY <1>1, <1>2, <1>3, <1>4, <1>5, QuietSteps

(* No step makes a row queued: that is the scheduler's doing.              *)
LEMMA NobodyQueues ==
  ASSUME TypeOK, [Next]_vars, NEW t \in Task, status[t] # "queued"
  PROVE  status'[t] # "queued"
<1> USE DEF TypeOK, SetStatus, rowVars
<1>1. ASSUME NEW r \in Run, MainStep(r) \/ TimeUp(r) \/ TimerFires(r)
      PROVE  status'[t] # "queued"
  BY <1>1 DEF MainStep, Refused, Started, AgentWins, TimeUp, Save, Leave, TimerFires
<1>2. ASSUME NEW r \in Run, AgentStep(r)
      PROVE  status'[t] # "queued"
  BY <1>2 DEF AgentStep, AgentAnswered, AgentReports, ReportWritten, AgentApproved, AgentDenied,
     AgentGivesUp, AgentEnds, AgentAsks
<1>3. ASSUME NEW q \in Task, RouteStep(q) \/ Requested(q) \/ Stopping(q)
      PROVE  status'[t] # "queued"
  <2>1. CASE Created(q)
    <3>1. status' = [status EXCEPT ![q] = "waiting"] \/ status' = [status EXCEPT ![q] = "running"]
      BY <2>1 DEF Created
    <3> QED
      BY <3>1
  <2>2. CASE PollApproved(q) \/ PollEnds(q) \/ StopWritten(q)
    BY <2>2 DEF PollApproved, PollEnds, StopWritten
  <2>3. CASE RunApproved(q) \/ StopDone(q) \/ Requested(q) \/ Stopping(q)
    BY <2>3 DEF RunApproved, StopDone, Requested, StopAsked
  <2> QED
    BY <1>3, <2>1, <2>2, <2>3 DEF RouteStep
<1>4. ASSUME NEW q \in Task, NEW answer \in {"approved", "denied"}, Confirm(q, answer)
      PROVE  status'[t] # "queued"
  BY <1>4 DEF Confirm
<1>5. ASSUME NEW d \in Drain, DrainStep(d) \/ DrainReads(d)
      PROVE  status'[t] # "queued"
  BY <1>5 DEF DrainStep, DrainReads, DrainUpdates, DrainRuns
<1>6. CASE UNCHANGED vars
  BY <1>6 DEF vars
<1> QED
  BY <1>1, <1>2, <1>3, <1>4, <1>5, <1>6 DEF Next

LEMMA ConsentStep ==
  ASSUME TaskInv, ConsentInv, [Next]_vars
  PROVE  ConsentInv'
<1> USE DEF TaskInv
<1>1. ASSUME NEW t \in Destructive, creation'[t] # "over", NEW r \in Run, main'[r] # "none"
      PROVE  taskOf'[r] # t
  <2>1. creation[t] # "over"
    BY <1>1, CreationForward
  <2> QED
    BY <1>1, <2>1, ConsentRuns, MainForward DEF ConsentInv
<1>2. ASSUME NEW d \in Drain
      PROVE  drain'[d].todo \cap Destructive = {} /\ drain'[d].at \notin Destructive
  <2>1. CASE UNCHANGED drain
    BY <2>1 DEF ConsentInv
  <2>2. ASSUME NEW c \in Drain, DrainReads(c)
        PROVE  drain'[d].todo \cap Destructive = {} /\ drain'[d].at \notin Destructive
    BY <2>2 DEF DrainReads, TypeOK, ConsentInv
  <2>3. ASSUME NEW c \in Drain, NEW t \in Task, DrainUpdates(c, t)
        PROVE  drain'[d].todo \cap Destructive = {} /\ drain'[d].at \notin Destructive
    BY <2>3 DEF DrainUpdates, TypeOK, ConsentInv
  <2>4. ASSUME NEW c \in Drain, DrainRuns(c)
        PROVE  drain'[d].todo \cap Destructive = {} /\ drain'[d].at \notin Destructive
    BY <2>4 DEF DrainRuns, TypeOK, ConsentInv
  <2> QED
    BY <2>1, <2>2, <2>3, <2>4 DEF Next, MainStep, Refused, Started, AgentWins, TimeUp, Save, Leave,
       AgentStep, AgentAnswered, AgentReports, ReportWritten, AgentApproved, AgentDenied,
       AgentGivesUp, AgentEnds, AgentAsks, AgentOnly, TimerFires, RouteStep, Created, PollApproved,
       RunApproved, PollEnds, StopWritten, StopDone, Requested, StopAsked, Confirm, RouteOnly,
       DrainStep, vars
<1>3. \A t \in Destructive : status'[t] # "queued"
  BY NobodyQueues DEF ConsentInv
<1> QED
  BY <1>1, <1>2, <1>3, ApprovalStays DEF ConsentInv

(* However polls, timeouts, stops and drains interleave, a run of a        *)
(* destructive task begins only when the user has said yes to it.          *)
THEOREM ConsentComesFirst == Spec => ConsentFirst
<1>1. Init => ConsentInv
  BY DEF Init, ConsentInv, TypeOK
<1>2. TaskInv /\ ConsentInv /\ [Next]_vars
        => \A r \in Run : main[r] = "none" /\ main'[r] # "none" /\ taskOf'[r] \in Destructive
                            => perm[taskOf'[r]] = "approved"
  BY ConsentRuns DEF ConsentInv
<1> QED
  BY <1>1, <1>2, TaskInvInit, TaskInvStep, ConsentStep, PTL DEF Spec, ConsentFirst
---------------------------------------------------------------------------
(***************************************************************************)
(* Rows that say running.  The heart of TasksSettle: nobody may leave a    *)
(* row running without somebody who is to write it again.                  *)
(***************************************************************************)
ToSettle == {"refused", "starting", "racing", "saving", "failing"}

Owns(r, t) == taskOf[r] = t /\ main[r] \in ToSettle

Owned(t) ==
  \/ \E r \in Run : Owns(r, t)
  \/ creation[t] = "approved"
  \/ \E d \in Drain : drain[d].at = t

(* Every row that says running has a run that will write how it ended, or  *)
(* is about to get one from its request or from a drain; of a task whose   *)
(* agent may outlive the run this cannot be said.                          *)
RunningIsOwned == \A t \in Task \ Late : status[t] = "running" => Owned(t)

(* An agent that is in time works during the race only.                    *)
AgentsRaced ==
  \A r \in Run :
    /\ agent[r] \in Working /\ taskOf[r] \notin Late => main[r] = "racing"
    /\ main[r] = "racing" => agent[r] \in Working \cup {"returned"}

DrainsBegin == \A d \in Drain : ~drain[d].began => drain[d].at = None

LEMMA OtherOwners ==
  ASSUME TaskInv, NEW r \in Run, NEW t \in Task, taskOf[r] # t,
         main' = [main EXCEPT ![r] = main'[r]], UNCHANGED <<taskOf, creation, drain>>, Owned(t)
  PROVE  Owned(t)'
<1>1. ASSUME NEW q \in Run, Owns(q, t)
      PROVE  Owns(q, t)'
  BY <1>1 DEF Owns, TaskInv, TypeOK
<1> QED
  BY <1>1 DEF Owned

LEMMA StartOwns ==
  ASSUME TaskInv, NEW t \in Task, NEW drained \in BOOLEAN, Start(t, drained)
  PROVE  /\ \E r \in Run : Owns(r, t)'
         /\ \A r \in Run, q \in Task : Owns(r, q) => Owns(r, q)'
<1>1. NextRun \in Run /\ main[NextRun] = "none"
  BY UnusedRun DEF Start
<1>2. /\ taskOf' = [taskOf EXCEPT ![NextRun] = t]
      /\ \E m \in {"refused", "starting"} : main' = [main EXCEPT ![NextRun] = m]
  BY DEF Start
<1> QED
  BY <1>1, <1>2 DEF Owns, ToSettle, TaskInv, TypeOK

LEMMA MainOwned ==
  ASSUME TaskInv, RunningIsOwned, AgentsRaced, NEW r \in Run, MainStep(r) \/ TimeUp(r)
  PROVE  RunningIsOwned' /\ AgentsRaced'
<1> USE DEF TaskInv
<1>0. /\ main[r] # "none" /\ taskOf[r] \in Task
      /\ UNCHANGED <<taskOf, creation, drain>> /\ main' = [main EXCEPT ![r] = main'[r]]
  BY DEF MainStep, Refused, Started, AgentWins, TimeUp, Save, Leave, RunsHaveTasks, TypeOK
<1>1. ASSUME NEW t \in Task \ Late, status'[t] = "running", taskOf[r] # t
      PROVE  Owned(t)'
  <2>1. status[t] = "running"
    BY <1>0, <1>1 DEF MainStep, Refused, Started, AgentWins, TimeUp, Save, Leave, SetStatus,
       TypeOK, rowVars
  <2> QED
    BY <1>0, <1>1, <2>1, OtherOwners DEF RunningIsOwned
<1>2. ASSUME status'[taskOf[r]] = "running", taskOf[r] \notin Late
      PROVE  Owned(taskOf[r])'
  <2>1. CASE Refused(r) \/ Save(r)
    BY <1>0, <1>2, <2>1 DEF Refused, Save, SetStatus, TypeOK
  <2>2. CASE Started(r) \/ AgentWins(r) \/ TimeUp(r)
    <3>1. taskOf'[r] = taskOf[r] /\ main'[r] \in ToSettle
      BY <1>0, <2>2 DEF Started, AgentWins, TimeUp, ToSettle, TypeOK
    <3> QED
      BY <3>1 DEF Owned, Owns
  <2>3. CASE Leave(r)
    <3>1. Owned(taskOf[r]) /\ ~Owns(r, taskOf[r])
      BY <1>0, <1>2, <2>3 DEF Leave, RunningIsOwned, Owns, ToSettle, rowVars
    <3>2. \A q \in Run : Owns(q, taskOf[r]) => Owns(q, taskOf[r])'
      BY <1>0, <3>1 DEF Owns, TypeOK
    <3> QED
      BY <1>0, <3>1, <3>2 DEF Owned
  <2> QED
    BY <2>1, <2>2, <2>3 DEF MainStep
<1>3. AgentsRaced'
  <2>1. ASSUME NEW q \in Run, q # r
        PROVE  agent'[q] = agent[q] /\ main'[q] = main[q] /\ taskOf'[q] = taskOf[q]
    BY <1>0, <2>1 DEF MainStep, Refused, Started, AgentWins, TimeUp, Save, Leave, agentVars, TypeOK
  <2>2. /\ agent'[r] \in Working /\ taskOf'[r] \notin Late => main'[r] = "racing"
        /\ main'[r] = "racing" => agent'[r] \in Working \cup {"returned"}
    BY <1>0 DEF MainStep, Refused, Started, AgentWins, TimeUp, Save, Leave, agentVars, TypeOK,
       AgentsRaced, Working
  <2> QED
    BY <2>1, <2>2 DEF AgentsRaced
<1> QED
  BY <1>0, <1>1, <1>2, <1>3 DEF RunningIsOwned

LEMMA AgentOwned ==
  ASSUME TaskInv, RunningIsOwned, AgentsRaced, NEW r \in Run, AgentStep(r) \/ TimerFires(r)
  PROVE  RunningIsOwned' /\ AgentsRaced'
<1> USE DEF TaskInv
<1>0. UNCHANGED <<main, taskOf, creation, drain>>
  BY DEF AgentStep, AgentAnswered, AgentReports, ReportWritten, AgentApproved, AgentDenied,
     AgentGivesUp, AgentEnds, AgentAsks, AgentOnly, TimerFires, runVars
<1>1. \A t \in Task : Owned(t)' <=> Owned(t)
  BY <1>0 DEF Owned, Owns
<1>2. CASE TimerFires(r)
  <2>1. \A t \in Task : status'[t] = "running" => status[t] = "running"
    BY <1>2 DEF TimerFires, TypeOK
  <2> QED
    BY <1>0, <1>1, <1>2, <2>1 DEF TimerFires, RunningIsOwned, AgentsRaced, agentVars
<1>3. CASE AgentStep(r)
  <2>1. /\ agent[r] \in Working /\ taskOf[r] \in Task
        /\ \A q \in Run \ {r} : agent'[q] = agent[q]
        /\ agent'[r] \in Working \cup {"returned"}
        /\ \A t \in Task \ {taskOf[r]} : status'[t] = status[t]
    BY <1>3 DEF AgentStep, AgentAnswered, AgentReports, ReportWritten, AgentApproved, AgentDenied,
       AgentGivesUp, AgentEnds, AgentAsks, AgentReturns, Approved, SetStatus, Working, rowVars,
       TypeOK, RunsHaveTasks
  <2>2. taskOf[r] \notin Late => Owned(taskOf[r])
    BY <2>1 DEF AgentsRaced, Owned, Owns, ToSettle
  <2>3. RunningIsOwned'
    BY <1>1, <2>1, <2>2 DEF RunningIsOwned
  <2>4. AgentsRaced'
    BY <1>0, <2>1 DEF AgentsRaced
  <2> QED
    BY <2>3, <2>4
<1> QED
  BY <1>2, <1>3

LEMMA RouteOwned ==
  ASSUME TaskInv, RunningIsOwned, NEW t \in Task,
         \/ RouteStep(t) \/ Requested(t) \/ Stopping(t)
         \/ \E answer \in {"approved", "denied"} : Confirm(t, answer)
  PROVE  RunningIsOwned'
<1> USE DEF TaskInv
<1>0. ASSUME NEW q \in Task, Owned(q), UNCHANGED <<drain>>, q # t \/ creation[t] # "approved",
             creation' = [creation EXCEPT ![t] = creation'[t]],
             \A r \in Run : Owns(r, q) => Owns(r, q)'
      PROVE  Owned(q)'
  BY <1>0 DEF Owned, TypeOK
<1>1. ASSUME UNCHANGED <<main, taskOf>> PROVE \A r \in Run, q \in Task : Owns(r, q) => Owns(r, q)'
  BY <1>1 DEF Owns
<1>2. /\ UNCHANGED drain /\ creation' = [creation EXCEPT ![t] = creation'[t]]
      /\ \A q \in Task \ {t} : status'[q] = status[q]
  <2>1. CASE Created(t) \/ RunApproved(t) \/ PollApproved(t) \/ PollEnds(t) \/ Requested(t)
    <3>1. /\ UNCHANGED drain
          /\ \E c : creation' = [creation EXCEPT ![t] = c]
      BY <2>1 DEF Created, PollApproved, RunApproved, PollEnds, Requested, RouteOnly
    <3>2. UNCHANGED status \/ \E st : SetStatus(t, st)
      BY <2>1 DEF Created, PollApproved, RunApproved, PollEnds, Requested, rowVars
    <3> QED
      BY <3>1, <3>2 DEF SetStatus, TypeOK
  <2>2. CASE \/ StopWritten(t) \/ StopDone(t) \/ Stopping(t)
             \/ \E answer \in {"approved", "denied"} : Confirm(t, answer)
    <3>1. UNCHANGED <<drain, creation>> /\ (UNCHANGED status \/ SetStatus(t, "done"))
      BY <2>2 DEF StopWritten, StopDone, StopAsked, Confirm, RouteOnly, rowVars
    <3> QED
      BY <3>1 DEF SetStatus, TypeOK
  <2> QED
    BY <2>1, <2>2 DEF RouteStep
<1>3. CASE Start(t, FALSE)
  <2>1. /\ \E r \in Run : Owns(r, t)'
        /\ \A r \in Run, q \in Task : Owns(r, q) => Owns(r, q)'
    BY <1>3, StartOwns
  <2>2. Owned(t)'
    BY <2>1 DEF Owned
  <2> QED
    BY <1>0, <1>2, <2>1, <2>2 DEF RunningIsOwned
<1>4. CASE UNCHANGED <<main, taskOf>>
  <2>1. CASE creation'[t] = "approved"
    <3>1. Owned(t)'
      BY <2>1 DEF Owned
    <3> QED
      BY <1>0, <1>1, <1>2, <1>4, <3>1 DEF RunningIsOwned
  <2>2. CASE creation'[t] # "approved" /\ creation[t] # "approved" /\ status'[t] # "running"
    BY <1>0, <1>1, <1>2, <1>4, <2>2 DEF RunningIsOwned
  <2>3. CASE creation'[t] # "approved" /\ creation[t] # "approved" /\ status'[t] = status[t]
    BY <1>0, <1>1, <1>2, <1>4, <2>3 DEF RunningIsOwned
  <2>4. CASE Requested(t) \/ PollApproved(t) \/ PollEnds(t)
    BY <2>1, <2>2, <2>3, <2>4 DEF PollApproved, PollEnds, Requested, SetStatus, rowVars, TypeOK
  <2>5. CASE StopWritten(t) \/ StopDone(t) \/ Stopping(t)
             \/ \E answer \in {"approved", "denied"} : Confirm(t, answer)
    <3>1. creation' = creation /\ (status' = status \/ SetStatus(t, "done"))
      BY <2>5 DEF StopWritten, StopDone, StopAsked, Confirm, rowVars
    <3>2. CASE creation[t] = "approved"
      BY <2>1, <3>1, <3>2
    <3>3. CASE creation[t] # "approved" /\ status' = status
      BY <2>3, <3>1, <3>3
    <3>4. CASE creation[t] # "approved" /\ SetStatus(t, "done")
      BY <2>2, <3>1, <3>4 DEF SetStatus, TypeOK
    <3> QED
      BY <3>1, <3>2, <3>3, <3>4
  <2>6. CASE Created(t) /\ t \in Destructive
    BY <2>1, <2>2, <2>3, <2>6 DEF Created, SetStatus, TypeOK
  <2> QED
    BY <1>3, <2>4, <2>5, <2>6 DEF RouteStep, Created, RunApproved
<1> QED
  BY <1>3, <1>4 DEF RouteStep, Created, PollApproved, RunApproved, PollEnds, StopWritten, StopDone,
     Requested, StopAsked, Confirm, runVars

LEMMA DrainOwned ==
  ASSUME TaskInv, RunningIsOwned, DrainsBegin, NEW d \in Drain, DrainStep(d) \/ DrainReads(d)
  PROVE  RunningIsOwned' /\ DrainsBegin'
<1> USE DEF TaskInv
<1>1. CASE DrainReads(d)
  <2>1. \A q \in Task : Owned(q) => Owned(q)'
    BY <1>1 DEF DrainReads, DrainsBegin, Owned, Owns, runVars, TypeOK
  <2>2. DrainsBegin'
    BY <1>1 DEF DrainReads, DrainsBegin, TypeOK
  <2> QED
    BY <1>1, <2>1, <2>2 DEF DrainReads, RunningIsOwned, rowVars
<1>2. ASSUME NEW t \in Task, DrainUpdates(d, t)
      PROVE  RunningIsOwned' /\ DrainsBegin'
  <2>1. /\ drain[d].at = None /\ drain'[d].at = t /\ drain'[d].began = drain[d].began
        /\ \A e \in Drain \ {d} : drain'[e] = drain[e]
    BY <1>2 DEF DrainUpdates, TypeOK
  <2>2. /\ \A q \in Task : Owned(q) => Owned(q)'
        /\ Owned(t)'
    BY <1>2, <2>1 DEF DrainUpdates, Owned, Owns, runVars
  <2>3. \A q \in Task \ {t} : status'[q] = status[q]
    BY <1>2 DEF DrainUpdates, SetStatus, TypeOK
  <2>4. drain[d].began
    BY <1>2 DEF DrainUpdates, DrainsBegin, TypeOK
  <2> QED
    BY <2>1, <2>2, <2>3, <2>4 DEF RunningIsOwned, DrainsBegin
<1>3. CASE DrainRuns(d)
  <2> DEFINE t == drain[d].at
  <2>0. t \in Task /\ Start(t, TRUE) /\ drain' = [drain EXCEPT ![d].at = None]
    BY <1>3 DEF DrainRuns, TypeOK
  <2>1. drain'[d].at = None /\ \A e \in Drain \ {d} : drain'[e] = drain[e]
    <3>1. drain \in [Drain -> [todo: SUBSET Task, at: Task \cup {None}, began: BOOLEAN]]
      BY DEF TypeOK
    <3> QED
      BY <2>0, <3>1
  <2>2. /\ \E r \in Run : taskOf'[r] = t /\ main'[r] \in ToSettle
        /\ \A r \in Run, q \in Task : Owns(r, q) => Owns(r, q)'
    <3> HIDE DEF t
    <3> QED
      BY <2>0, StartOwns DEF Owns
  <2>3. ASSUME NEW q \in Task, Owned(q)
        PROVE  Owned(q)'
    <3>1. CASE q = t
      BY <2>2, <3>1 DEF Owned, Owns
    <3>2. CASE q # t
      BY <1>3, <2>1, <2>2, <2>3, <3>2 DEF DrainRuns, Owned
    <3> QED
      BY <3>1, <3>2
  <2> QED
    BY <1>3, <2>1, <2>3 DEF DrainRuns, RunningIsOwned, DrainsBegin, rowVars
<1> QED
  BY <1>1, <1>2, <1>3 DEF DrainStep

LEMMA AgentsRacedStart ==
  ASSUME TaskInv, AgentsRaced, NEW t \in Task, NEW drained \in BOOLEAN, Start(t, drained),
         UNCHANGED agent
  PROVE  AgentsRaced'
<1>1. NextRun \in Run /\ main[NextRun] = "none"
  BY UnusedRun DEF Start
<1>2. agent[NextRun] = "none" /\ main'[NextRun] \in {"refused", "starting"}
  BY <1>1 DEF Start, TaskInv, TypeOK, RunsHaveTasks
<1>3. \A r \in Run \ {NextRun} : main'[r] = main[r] /\ taskOf'[r] = taskOf[r]
  BY <1>1 DEF Start, TaskInv, TypeOK
<1> QED
  BY <1>1, <1>2, <1>3 DEF AgentsRaced, Working

LEMMA OwnedStep ==
  ASSUME TaskInv, RunningIsOwned, AgentsRaced, DrainsBegin, [Next]_vars
  PROVE  RunningIsOwned' /\ AgentsRaced' /\ DrainsBegin'
<1> USE DEF TaskInv
<1>0. UNCHANGED drain => DrainsBegin'
  BY DEF DrainsBegin
<1>1. ASSUME NEW r \in Run, MainStep(r) \/ TimeUp(r) \/ AgentStep(r) \/ TimerFires(r)
      PROVE  RunningIsOwned' /\ AgentsRaced' /\ DrainsBegin'
  <2>1. UNCHANGED drain
    BY <1>1 DEF MainStep, Refused, Started, AgentWins, TimeUp, Save, Leave, AgentStep,
       AgentAnswered, AgentReports, ReportWritten, AgentApproved, AgentDenied, AgentGivesUp,
       AgentEnds, AgentAsks, AgentOnly, TimerFires
  <2> QED
    BY <1>0, <1>1, <2>1, MainOwned, AgentOwned
<1>2. ASSUME NEW t \in Task,
             \/ RouteStep(t) \/ Requested(t) \/ Stopping(t)
             \/ \E answer \in {"approved", "denied"} : Confirm(t, answer)
      PROVE  RunningIsOwned' /\ AgentsRaced' /\ DrainsBegin'
  <2>1. /\ UNCHANGED <<agent, drain>>
        /\ UNCHANGED <<main, taskOf>> \/ Start(t, FALSE)
    BY <1>2 DEF RouteStep, Created, PollApproved, RunApproved, PollEnds, StopWritten, StopDone,
       Requested, StopAsked, Confirm, RouteOnly, agentVars, runVars
  <2>2. AgentsRaced'
    BY <2>1, AgentsRacedStart DEF AgentsRaced
  <2> QED
    BY <1>0, <1>2, <2>1, <2>2, RouteOwned
<1>3. ASSUME NEW d \in Drain, DrainStep(d) \/ DrainReads(d)
      PROVE  RunningIsOwned' /\ AgentsRaced' /\ DrainsBegin'
  <2>1. /\ UNCHANGED agent
        /\ UNCHANGED <<main, taskOf>> \/ \E t \in Task : Start(t, TRUE)
    BY <1>3 DEF DrainStep, DrainReads, DrainUpdates, DrainRuns, agentVars, runVars, TypeOK
  <2>2. AgentsRaced'
    BY <2>1, AgentsRacedStart DEF AgentsRaced
  <2> QED
    BY <1>3, <2>2, DrainOwned
<1>4. CASE UNCHANGED vars
  BY <1>4 DEF vars, rowVars, runVars, agentVars, RunningIsOwned, Owned, Owns, AgentsRaced, DrainsBegin
<1> QED
  BY <1>1, <1>2, <1>3, <1>4 DEF Next

OwnedInv == TaskInv /\ RunningIsOwned /\ AgentsRaced /\ DrainsBegin

LEMMA OwnedInvariant == Spec => []OwnedInv
<1>1. Init => OwnedInv
  BY TaskInvInit DEF Init, OwnedInv, RunningIsOwned, AgentsRaced, DrainsBegin, Working
<1>2. OwnedInv /\ [Next]_vars => OwnedInv'
  BY TaskInvStep, OwnedStep DEF OwnedInv
<1> QED
  BY <1>1, <1>2, PTL DEF Spec

(* No row is left running by nobody, whatever timeouts, stops, refusals    *)
(* and errors interleave.                                                  *)
THEOREM RunningRowsAreOwned == Spec => []RunningIsOwned
<1>1. OwnedInv => RunningIsOwned
  BY DEF OwnedInv
<1> QED
  BY <1>1, OwnedInvariant, PTL
---------------------------------------------------------------------------
(***************************************************************************)
(* Every run ends.  The fairness of FairSpec speaks of ENABLED, which the  *)
(* provers leave opaque: the theorem names the facts about it that it      *)
(* rests on, one for each action that is fair.                             *)
(***************************************************************************)
MainDue(r) ==
  \/ main[r] \in {"refused", "starting", "saving", "failing", "leaving"}
  \/ main[r] = "racing" /\ agent[r] = "returned"

StepsCanHappen(r) ==
  /\ MainDue(r) => ENABLED <<MainStep(r)>>_vars
  /\ agent[r] = "reporting" => ENABLED <<ReportWritten(r)>>_vars
  /\ agent[r] \in {"asking", "reviewing"} => ENABLED <<AgentAnswered(r)>>_vars
  /\ agent[r] = "working" => ENABLED <<AgentEnds(r)>>_vars

GoesOn == []OwnedInv /\ [][Next]_vars

(* What a step of anybody does to a run, and to its agent.                 *)
MainMoves(r) ==
  \/ main[r] = "none"
  \/ main'[r] = main[r]
  \/ main[r] = "refused" /\ main'[r] = "over"
  \/ main[r] = "starting" /\ main'[r] \in {"racing", "failing"}
  \/ main[r] = "racing" /\ main'[r] \in {"saving", "failing"}
  \/ main[r] \in {"saving", "failing"} /\ main'[r] = "leaving"
  \/ main[r] = "leaving" /\ main'[r] = "over"

AgentMoves(r) ==
  \/ agent'[r] = agent[r]
  \/ agent[r] = "none"
  \/ agent[r] = "working" /\ agent'[r] \in Working \cup {"returned"}
  \/ agent[r] \in Working /\ agent'[r] \in {"working", "returned"}

LEMMA RunMoves ==
  ASSUME TaskInv, AgentsRaced, NEW r \in Run, [Next]_vars
  PROVE  MainMoves(r) /\ (main[r] = "racing" => AgentMoves(r))
<1> USE DEF TaskInv
<1>1. ASSUME NEW q \in Run, MainStep(q) \/ TimeUp(q)
      PROVE  MainMoves(r) /\ (main[r] = "racing" => AgentMoves(r))
  <2>1. q = r \/ (main'[r] = main[r] /\ agent'[r] = agent[r])
    BY <1>1 DEF MainStep, Refused, Started, AgentWins, TimeUp, Save, Leave, TypeOK, agentVars
  <2>2. q = r => MainMoves(r)
    BY <1>1 DEF MainStep, Refused, Started, AgentWins, TimeUp, Save, Leave, TypeOK, MainMoves
  <2>3. q = r /\ main[r] = "racing" => agent'[r] = agent[r]
    BY <1>1 DEF MainStep, Refused, Started, AgentWins, TimeUp, Save, Leave, agentVars
  <2> QED
    BY <2>1, <2>2, <2>3 DEF MainMoves, AgentMoves
<1>2. ASSUME NEW q \in Run, AgentStep(q)
      PROVE  UNCHANGED main /\ AgentMoves(r)
  BY <1>2 DEF AgentStep, AgentAnswered, AgentReports, ReportWritten, AgentApproved, AgentDenied,
     AgentGivesUp, AgentEnds, AgentAsks, AgentReturns, Approved, AgentOnly, runVars, TypeOK,
     AgentMoves, Working
<1>3. ASSUME \/ \E q \in Run : TimerFires(q)
             \/ \E t \in Task : RouteStep(t) \/ Requested(t) \/ Stopping(t)
             \/ \E t \in Task, answer \in {"approved", "denied"} : Confirm(t, answer)
             \/ \E d \in Drain : DrainStep(d) \/ DrainReads(d)
             \/ UNCHANGED vars
      PROVE  UNCHANGED agent /\ (UNCHANGED main \/ \E t \in Task, y \in BOOLEAN : Start(t, y))
  BY <1>3 DEF TimerFires, RouteStep, Created, PollApproved, RunApproved, PollEnds, StopWritten,
     StopDone, Requested, StopAsked, Confirm, RouteOnly, DrainStep, DrainReads, DrainUpdates,
     DrainRuns, agentVars, runVars, vars, TypeOK
<1>4. ASSUME NEW t \in Task, NEW y \in BOOLEAN, Start(t, y)
      PROVE  MainMoves(r)
  BY <1>4, UnusedRun DEF Start, MainMoves, TypeOK
<1> QED
  BY <1>1, <1>2, <1>3, <1>4 DEF Next, MainMoves, AgentMoves

(* ... and what its own steps do.                                          *)
LEMMA OwnSteps ==
  ASSUME TaskInv, NEW r \in Run
  PROVE  /\ <<MainStep(r)>>_vars => main'[r] # main[r] /\ main[r] \notin {"none", "over"}
         /\ <<ReportWritten(r)>>_vars => agent'[r] = "working"
         /\ <<AgentAnswered(r)>>_vars => agent'[r] \in {"working", "returned"}
         /\ <<AgentEnds(r)>>_vars => agent'[r] = "returned"
<1> USE DEF TaskInv, TypeOK
<1>1. MainStep(r) => main'[r] # main[r] /\ main[r] \notin {"none", "over"}
  BY DEF MainStep, Refused, Started, AgentWins, Save, Leave
<1>2. ReportWritten(r) => agent'[r] = "working"
  BY DEF ReportWritten
<1>3. AgentAnswered(r) => agent'[r] \in {"working", "returned"}
  BY DEF AgentAnswered, AgentApproved, AgentDenied, AgentGivesUp, AgentReturns
<1>4. AgentEnds(r) => agent'[r] = "returned"
  BY DEF AgentEnds, AgentReturns
<1> QED
  BY <1>1, <1>2, <1>3, <1>4

(* The race ends: if the agent stays away for good, it works again and     *)
(* again, and so ends.                                                     *)
LEMMA RaceEnds ==
  ASSUME NEW r \in Run
  PROVE  GoesOn /\ RunGoesOn(r) /\ []StepsCanHappen(r)
           => (main[r] = "racing" ~> (main[r] = "saving" \/ main[r] = "failing"))
<1> DEFINE Racing == main[r] = "racing"
           Raced  == main[r] = "saving" \/ main[r] = "failing"
           Works  == agent[r] = "working"
           Writes == agent[r] = "reporting"
           Waits  == agent[r] \in {"asking", "reviewing"}
           Back   == agent[r] = "returned"
<1>1. OwnedInv /\ Racing => Works \/ Writes \/ Waits \/ Back
  BY DEF OwnedInv, AgentsRaced, Working
<1>2. OwnedInv /\ Racing /\ [Next]_vars => Racing' \/ Raced'
  BY RunMoves DEF OwnedInv, MainMoves
<1>3. OwnedInv /\ Racing /\ Back /\ [Next]_vars => Back' \/ Raced'
  BY RunMoves DEF OwnedInv, AgentMoves, Working
<1>4. OwnedInv /\ Racing /\ Writes /\ [Next]_vars => Writes' \/ Works' \/ Back'
  BY RunMoves DEF OwnedInv, AgentMoves, Working
<1>5. OwnedInv /\ Racing /\ Waits /\ [Next]_vars => Waits' \/ Works' \/ Back'
  BY RunMoves DEF OwnedInv, AgentMoves, Working
<1>6. OwnedInv => /\ <<MainStep(r)>>_vars => ~Racing \/ Raced'
                  /\ <<ReportWritten(r)>>_vars => Works'
                  /\ <<AgentAnswered(r)>>_vars => Works' \/ Back'
                  /\ <<AgentEnds(r)>>_vars => Back'
  <2>1. ASSUME OwnedInv, <<MainStep(r)>>_vars, Racing
        PROVE  Raced'
    BY <2>1, OwnSteps, RunMoves DEF OwnedInv, MainMoves, Next
  <2> QED
    BY <2>1, OwnSteps DEF OwnedInv
<1>7. StepsCanHappen(r) => /\ Racing /\ Back => ENABLED <<MainStep(r)>>_vars
                           /\ Writes => ENABLED <<ReportWritten(r)>>_vars
                           /\ Waits => ENABLED <<AgentAnswered(r)>>_vars
                           /\ Works => ENABLED <<AgentEnds(r)>>_vars
  BY DEF StepsCanHappen, MainDue
<1>8. Racing => ~Raced
  OBVIOUS
<1> HIDE DEF Racing, Raced, Works, Writes, Waits, Back
<1>9. GoesOn /\ RunGoesOn(r) /\ []StepsCanHappen(r) => (Racing ~> Raced)
  BY <1>1, <1>2, <1>3, <1>4, <1>5, <1>6, <1>7, <1>8, PTL DEF GoesOn, RunGoesOn
<1> QED
  BY <1>9 DEF Racing, Raced

LEMMA RunEnds ==
  ASSUME NEW r \in Run
  PROVE  GoesOn /\ RunGoesOn(r) /\ []StepsCanHappen(r) => (main[r] # "none" ~> main[r] = "over")
<1> DEFINE At(m) == main[r] = m
<1>1. OwnedInv /\ main[r] # "none"
        => \/ At("refused") \/ At("starting") \/ At("racing") \/ At("saving") \/ At("failing")
           \/ At("leaving") \/ At("over")
  BY DEF OwnedInv, TaskInv, TypeOK, Active
<1>2. OwnedInv /\ [Next]_vars
        => /\ At("refused") => At("refused")' \/ At("over")'
           /\ At("starting") => At("starting")' \/ At("racing")' \/ At("failing")'
           /\ At("saving") => At("saving")' \/ At("leaving")'
           /\ At("failing") => At("failing")' \/ At("leaving")'
           /\ At("leaving") => At("leaving")' \/ At("over")'
  BY RunMoves DEF OwnedInv, MainMoves
<1>3. OwnedInv /\ <<MainStep(r)>>_vars
        => /\ At("refused") => ~At("refused")'
           /\ At("starting") => ~At("starting")'
           /\ At("saving") => ~At("saving")'
           /\ At("failing") => ~At("failing")'
           /\ At("leaving") => ~At("leaving")'
  BY OwnSteps DEF OwnedInv
<1>4. StepsCanHappen(r)
        => (\/ At("refused") \/ At("starting") \/ At("saving") \/ At("failing") \/ At("leaving")
              => ENABLED <<MainStep(r)>>_vars)
  BY DEF StepsCanHappen, MainDue
<1>5. GoesOn /\ RunGoesOn(r) /\ []StepsCanHappen(r)
        => (At("racing") ~> (At("saving") \/ At("failing")))
  BY RaceEnds
<1> HIDE DEF At
<1>6. GoesOn /\ RunGoesOn(r) /\ []StepsCanHappen(r)
        => /\ At("leaving") ~> At("over")
           /\ At("refused") ~> At("over")
           /\ At("saving") ~> At("leaving")
           /\ At("failing") ~> At("leaving")
           /\ At("starting") ~> (At("racing") \/ At("failing"))
  BY <1>2, <1>3, <1>4, PTL DEF GoesOn, RunGoesOn
<1>7. GoesOn /\ RunGoesOn(r) /\ []StepsCanHappen(r)
        => ((\/ At("refused") \/ At("starting") \/ At("racing") \/ At("saving") \/ At("failing")
             \/ At("leaving") \/ At("over")) ~> At("over"))
  BY <1>5, <1>6, PTL
<1>8. GoesOn /\ RunGoesOn(r) /\ []StepsCanHappen(r) => (main[r] # "none" ~> At("over"))
  BY <1>1, <1>7, PTL DEF GoesOn
<1> QED
  BY <1>8 DEF At

AllStepsCanHappen == \A r \in Run : StepsCanHappen(r)

EndsInTheEnd(r) == main[r] # "none" ~> main[r] = "over"

(* Every run that is begun ends, refused, failed or done, its finally      *)
(* included, though its agent may ask and report and ask again, and nobody *)
(* may answer.                                                             *)
THEOREM RunsEnd == FairSpec /\ []AllStepsCanHappen => \A r \in Run : EndsInTheEnd(r)
<1> SUFFICES ASSUME NEW r \in Run
             PROVE  FairSpec /\ []AllStepsCanHappen => EndsInTheEnd(r)
  OBVIOUS
<1>1. AllStepsCanHappen => StepsCanHappen(r)
  BY DEF AllStepsCanHappen
<1>2. FairSpec => Spec /\ RunGoesOn(r)
  BY DEF FairSpec, EverythingGoesOn
<1> QED
  BY <1>1, <1>2, RunEnds, OwnedInvariant, PTL DEF Spec, GoesOn, EndsInTheEnd
---------------------------------------------------------------------------
(***************************************************************************)
(* No row stays at running.  Whoever owns it writes it when its run comes  *)
(* to its end, and nobody else takes it away from its run.                 *)
(***************************************************************************)
IsRunning(t) == status[t] = "running"

LEMMA OwnersWrite ==
  ASSUME OwnedInv, NEW r \in Run, NEW t \in Task, Owns(r, t), [Next]_vars
  PROVE  Owns(r, t)' \/ ~IsRunning(t)'
<1> USE DEF OwnedInv, TaskInv, TypeOK
<1>1. ASSUME UNCHANGED taskOf, main'[r] = main[r]
      PROVE  Owns(r, t)'
  BY <1>1 DEF Owns
<1>2. ASSUME NEW q \in Run, MainStep(q) \/ TimeUp(q)
      PROVE  Owns(r, t)' \/ ~IsRunning(t)'
  <2>1. UNCHANGED taskOf /\ (q = r \/ main'[r] = main[r])
    BY <1>2 DEF MainStep, Refused, Started, AgentWins, TimeUp, Save, Leave
  <2>2. CASE q = r /\ (Refused(r) \/ Save(r))
    BY <2>2 DEF Owns, Refused, Save, SetStatus, IsRunning
  <2>3. CASE q = r /\ ~(Refused(r) \/ Save(r))
    BY <1>2, <2>1, <2>3 DEF Owns, ToSettle, MainStep, Started, AgentWins, TimeUp, Leave
  <2> QED
    BY <1>1, <2>1, <2>2, <2>3
<1>3. ASSUME NEW q \in Task, NEW y \in BOOLEAN, Start(q, y)
      PROVE  Owns(r, t)'
  BY <1>3, StartOwns
<1>4. ASSUME \/ \E q \in Run : AgentStep(q) \/ TimerFires(q)
             \/ \E q \in Task : RouteStep(q) \/ Requested(q) \/ Stopping(q)
             \/ \E q \in Task, answer \in {"approved", "denied"} : Confirm(q, answer)
             \/ \E d \in Drain : DrainStep(d) \/ DrainReads(d)
             \/ UNCHANGED vars
      PROVE  UNCHANGED <<main, taskOf>> \/ \E q \in Task, y \in BOOLEAN : Start(q, y)
  BY <1>4 DEF AgentStep, AgentAnswered, AgentReports, ReportWritten, AgentApproved, AgentDenied,
     AgentGivesUp, AgentEnds, AgentAsks, AgentOnly, TimerFires, RouteStep, Created,
     PollApproved, RunApproved, PollEnds, StopWritten, StopDone, Requested, StopAsked, Confirm,
     RouteOnly, DrainStep, DrainReads, DrainUpdates, DrainRuns, runVars, vars
<1> QED
  BY <1>1, <1>2, <1>3, <1>4 DEF Next

(* A run that is to settle a row does, before it is over.                  *)
SettlesRow(r, t) == Owns(r, t) => <>(~IsRunning(t))

LEMMA OwnersSettle ==
  ASSUME NEW r \in Run, NEW t \in Task
  PROVE  GoesOn /\ RunGoesOn(r) /\ []StepsCanHappen(r) => []SettlesRow(r, t)
<1>1. OwnedInv /\ Owns(r, t) /\ [Next]_vars => Owns(r, t)' \/ ~IsRunning(t)'
  BY OwnersWrite
<1>2. Owns(r, t) => main[r] # "none" /\ ~(main[r] = "over")
  BY DEF Owns, ToSettle
<1> QED
  BY <1>1, <1>2, RunEnds, PTL DEF GoesOn, SettlesRow

(* Who is about to begin a run of the task begins it.                      *)
SomebodyOwns(t) == \E r \in Run : Owns(r, t)

RequestCanGoOn(t) == creation[t] = "approved" => ENABLED <<RouteStep(t)>>_vars

DrainCanGoOn(d) == drain[d].at # None => ENABLED <<DrainStep(d)>>_vars

RequestBegins(t) == creation[t] = "approved" => <>(SomebodyOwns(t) \/ ~IsRunning(t))

DrainBegins(d, t) == drain[d].at = t => <>SomebodyOwns(t)

LEMMA RoutesMove ==
  ASSUME OwnedInv, NEW t \in Task, [Next]_vars
  PROVE  /\ creation[t] = "approved" => UNCHANGED creation[t] \/ Start(t, FALSE)
         /\ stop[t] = "over" => UNCHANGED stop[t]
         /\ stop[t] = "written" => stop'[t] \in {"written", "over"}
<1> USE DEF OwnedInv, TaskInv, TypeOK
<1>1. ASSUME \/ \E q \in Run : MainStep(q) \/ TimeUp(q) \/ AgentStep(q) \/ TimerFires(q)
             \/ \E q \in Task, answer \in {"approved", "denied"} : Confirm(q, answer)
             \/ \E d \in Drain : DrainStep(d) \/ DrainReads(d)
             \/ UNCHANGED vars
      PROVE  UNCHANGED <<creation, stop>>
  BY <1>1 DEF MainStep, Refused, Started, AgentWins, TimeUp, Save, Leave, AgentStep,
     AgentAnswered, AgentReports, ReportWritten, AgentApproved, AgentDenied, AgentGivesUp,
     AgentEnds, AgentAsks, AgentOnly, TimerFires, Confirm, DrainStep, DrainReads, DrainUpdates,
     DrainRuns, vars
<1>2. ASSUME NEW q \in Task, RouteStep(q) \/ Requested(q) \/ Stopping(q), q # t
      PROVE  UNCHANGED <<creation[t], stop[t]>>
  <2>1. /\ \E x : creation' = [creation EXCEPT ![q] = x] \/ UNCHANGED creation
        /\ \E x : stop' = [stop EXCEPT ![q] = x] \/ UNCHANGED stop
    BY <1>2 DEF RouteStep, Created, PollApproved, RunApproved, PollEnds, StopWritten, StopDone,
       Requested, StopAsked
  <2> QED
    BY <1>2, <2>1
<1>3. ASSUME RouteStep(t) \/ Requested(t) \/ Stopping(t)
      PROVE  /\ creation[t] = "approved" => UNCHANGED creation[t] \/ Start(t, FALSE)
             /\ stop[t] = "over" => UNCHANGED stop[t]
             /\ stop[t] = "written" => stop'[t] \in {"written", "over"}
  <2>1. CASE StopWritten(t) \/ StopDone(t) \/ Stopping(t)
    <3>1. /\ creation' = creation
          /\ \/ stop[t] = "asked" /\ stop' = [stop EXCEPT ![t] = "written"]
             \/ stop[t] = "written" /\ stop' = [stop EXCEPT ![t] = "over"]
             \/ stop[t] = "none"
      BY <2>1 DEF StopWritten, StopDone, StopAsked
    <3> QED
      BY <3>1
  <2>2. CASE Created(t) \/ PollApproved(t) \/ RunApproved(t) \/ PollEnds(t) \/ Requested(t)
    BY <2>2 DEF Created, PollApproved, RunApproved, PollEnds, Requested
  <2> QED
    BY <1>3, <2>1, <2>2 DEF RouteStep
<1>4. CASE UNCHANGED <<creation[t], stop[t]>>
  BY <1>4
<1>5. CASE UNCHANGED <<creation, stop>>
  BY <1>4, <1>5
<1>6. CASE \E q \in Task : RouteStep(q) \/ Requested(q) \/ Stopping(q)
  <2>1. PICK q \in Task : RouteStep(q) \/ Requested(q) \/ Stopping(q)
    BY <1>6
  <2>2. CASE q = t
    BY <1>3, <2>1, <2>2
  <2>3. CASE q # t
    BY <1>2, <1>4, <2>1, <2>3
  <2> QED
    BY <2>2, <2>3
<1>7. UNCHANGED <<creation, stop>> \/ \E q \in Task : RouteStep(q) \/ Requested(q) \/ Stopping(q)
  BY <1>1 DEF Next
<1> QED
  BY <1>5, <1>6, <1>7

LEMMA DrainsMove ==
  ASSUME OwnedInv, NEW d \in Drain, NEW t \in Task, [Next]_vars, drain[d].at = t
  PROVE  UNCHANGED drain[d] \/ Start(t, TRUE)
<1> USE DEF OwnedInv, TaskInv, TypeOK
<1>1. ASSUME \/ \E q \in Run : MainStep(q) \/ TimeUp(q) \/ AgentStep(q) \/ TimerFires(q)
             \/ \E q \in Task : RouteStep(q) \/ Requested(q) \/ Stopping(q)
             \/ \E q \in Task, answer \in {"approved", "denied"} : Confirm(q, answer)
             \/ UNCHANGED vars
      PROVE  UNCHANGED drain
  BY <1>1 DEF MainStep, Refused, Started, AgentWins, TimeUp, Save, Leave, AgentStep,
     AgentAnswered, AgentReports, ReportWritten, AgentApproved, AgentDenied, AgentGivesUp,
     AgentEnds, AgentAsks, AgentOnly, TimerFires, RouteStep, Created, PollApproved,
     RunApproved, PollEnds, StopWritten, StopDone, Requested, StopAsked, RouteOnly, Confirm, vars
<1>2. ASSUME NEW e \in Drain, DrainStep(e) \/ DrainReads(e), e # d
      PROVE  UNCHANGED drain[d]
  <2>1. CASE DrainReads(e)
    BY <1>2, <2>1 DEF DrainReads
  <2>2. ASSUME NEW q \in Task, DrainUpdates(e, q)
        PROVE  UNCHANGED drain[d]
    BY <1>2, <2>2 DEF DrainUpdates
  <2>3. CASE DrainRuns(e)
    BY <1>2, <2>3 DEF DrainRuns
  <2> QED
    BY <1>2, <2>1, <2>2, <2>3 DEF DrainStep
<1>3. ASSUME DrainStep(d) \/ DrainReads(d)
      PROVE  Start(t, TRUE)
  BY <1>3, TaskAssumption DEF DrainStep, DrainReads, DrainUpdates, DrainRuns, DrainsBegin
<1> QED
  BY <1>1, <1>2, <1>3 DEF Next

LEMMA RequestsBegin ==
  ASSUME NEW t \in Task
  PROVE  GoesOn /\ RequestGoesOn(t) /\ []RequestCanGoOn(t) => []RequestBegins(t)
<1> DEFINE Due == creation[t] = "approved"
           Begun == SomebodyOwns(t) \/ ~IsRunning(t)
           Written == stop[t] \in {"written", "over"}
           Stopped == stop[t] = "over"
<1>1. OwnedInv /\ Due /\ [Next]_vars => Due' \/ Begun'
  <2> SUFFICES ASSUME OwnedInv, Due, [Next]_vars PROVE Due' \/ Begun'
    OBVIOUS
  <2>1. UNCHANGED creation[t] \/ Start(t, FALSE)
    BY RoutesMove
  <2> QED
    BY <2>1, StartOwns DEF SomebodyOwns, OwnedInv
<1>2. OwnedInv /\ [Next]_vars => (Written => Written') /\ (Stopped => Stopped')
  BY RoutesMove
<1>3. OwnedInv /\ Due /\ <<RouteStep(t)>>_vars =>
        Begun' \/ (~Written /\ Written') \/ (~Stopped /\ Stopped')
  <2> SUFFICES ASSUME OwnedInv, Due, RouteStep(t)
               PROVE  Begun' \/ (~Written /\ Written') \/ (~Stopped /\ Stopped')
    OBVIOUS
  <2>1. Start(t, FALSE) \/ (~Written /\ Written') \/ (~Stopped /\ Stopped')
    BY DEF OwnedInv, TaskInv, TypeOK, RouteStep, Created, PollApproved, RunApproved, PollEnds,
       StopWritten, StopDone
  <2> QED
    BY <2>1, StartOwns DEF SomebodyOwns, OwnedInv
<1>4. RequestCanGoOn(t) => (Due => ENABLED <<RouteStep(t)>>_vars)
  BY DEF RequestCanGoOn
<1> HIDE DEF Due, Begun, Written, Stopped
<1>5. GoesOn /\ RequestGoesOn(t) /\ []RequestCanGoOn(t) => [](Due => <>Begun)
  BY <1>1, <1>2, <1>3, <1>4, PTL DEF GoesOn, RequestGoesOn
<1> QED
  BY <1>5, PTL DEF RequestBegins, Due, Begun

LEMMA DrainsGoOn ==
  ASSUME NEW d \in Drain, NEW t \in Task
  PROVE  GoesOn /\ DrainGoesOn(d) /\ []DrainCanGoOn(d) => []DrainBegins(d, t)
<1> DEFINE Due == drain[d].at = t
           Begun == SomebodyOwns(t)
<1>1. OwnedInv /\ Due /\ [Next]_vars => Due' \/ Begun'
  <2> SUFFICES ASSUME OwnedInv, Due, [Next]_vars PROVE Due' \/ Begun'
    OBVIOUS
  <2>1. UNCHANGED drain[d] \/ Start(t, TRUE)
    BY DrainsMove
  <2> QED
    BY <2>1, StartOwns DEF SomebodyOwns, OwnedInv
<1>2. OwnedInv /\ Due /\ <<DrainStep(d)>>_vars => Begun'
  <2> SUFFICES ASSUME OwnedInv, Due, DrainStep(d) PROVE Begun'
    OBVIOUS
  <2>1. Start(t, TRUE)
    BY TaskAssumption DEF OwnedInv, TaskInv, TypeOK, DrainStep, DrainUpdates, DrainRuns
  <2> QED
    BY <2>1, StartOwns DEF SomebodyOwns, OwnedInv
<1>3. DrainCanGoOn(d) => (Due => ENABLED <<DrainStep(d)>>_vars)
  BY TaskAssumption DEF DrainCanGoOn
<1> HIDE DEF Due, Begun
<1>4. GoesOn /\ DrainGoesOn(d) /\ []DrainCanGoOn(d) => [](Due => <>Begun)
  BY <1>1, <1>2, <1>3, PTL DEF GoesOn, DrainGoesOn
<1> QED
  BY <1>4, PTL DEF DrainBegins, Due, Begun

EverythingCanGoOn ==
  /\ \A r \in Run : StepsCanHappen(r)
  /\ \A t \in Task : RequestCanGoOn(t)
  /\ \A d \in Drain : DrainCanGoOn(d)

(* All three at all times; the boxes let the provers take the run, the     *)
(* request or the drain that is there in whatever state is at hand.        *)
RowsGoOn(t) ==
  /\ \A r \in Run : SettlesRow(r, t)
  /\ RequestBegins(t)
  /\ \A d \in Drain : DrainBegins(d, t)

LEMMA RowsMove ==
  ASSUME NEW t \in Task, []OwnedInv, [][Next]_vars, []EverythingGoesOn, []EverythingCanGoOn
  PROVE  []RowsGoOn(t)
<1>1. EverythingGoesOn /\ GoesOn
  BY PTL DEF GoesOn
<1>2. ASSUME NEW r \in Run PROVE SettlesRow(r, t)
  <2>1. EverythingCanGoOn => StepsCanHappen(r)
    BY DEF EverythingCanGoOn
  <2>2. RunGoesOn(r)
    BY <1>1 DEF EverythingGoesOn
  <2>3. []StepsCanHappen(r)
    BY <2>1, PTL
  <2> QED
    BY <1>1, <2>2, <2>3, OwnersSettle, PTL
<1>3. RequestBegins(t)
  <2>1. EverythingCanGoOn => RequestCanGoOn(t)
    BY DEF EverythingCanGoOn
  <2>2. RequestGoesOn(t)
    BY <1>1 DEF EverythingGoesOn
  <2>3. []RequestCanGoOn(t)
    BY <2>1, PTL
  <2> QED
    BY <1>1, <2>2, <2>3, RequestsBegin, PTL
<1>4. ASSUME NEW d \in Drain PROVE DrainBegins(d, t)
  <2>1. EverythingCanGoOn => DrainCanGoOn(d)
    BY DEF EverythingCanGoOn
  <2>2. DrainGoesOn(d)
    BY <1>1 DEF EverythingGoesOn
  <2>3. []DrainCanGoOn(d)
    BY <2>1, PTL
  <2> QED
    BY <1>1, <2>2, <2>3, DrainsGoOn, PTL
<1>5. RowsGoOn(t)
  BY <1>2, <1>3, <1>4 DEF RowsGoOn
<1> QED
  BY <1>5, PTL

LEMMA OwnedRowsAreWritten ==
  ASSUME NEW t \in Task, []RowsGoOn(t)
  PROVE  [](SomebodyOwns(t) => <>(~IsRunning(t)))
<1>1. RowsGoOn(t)
  BY PTL
<1>2. ASSUME NEW r \in Run PROVE Owns(r, t) => <>(~IsRunning(t))
  <2>1. SettlesRow(r, t)
    BY <1>1 DEF RowsGoOn
  <2> QED
    BY <2>1 DEF SettlesRow
<1>3. SomebodyOwns(t) => \E r \in Run : Owns(r, t)
  BY DEF SomebodyOwns
<1>4. SomebodyOwns(t) => <>(~IsRunning(t))
  BY <1>2, <1>3
<1> QED
  BY <1>4, PTL

LEMMA DrainedRowsAreOwned ==
  ASSUME NEW t \in Task, []RowsGoOn(t)
  PROVE  []((\E d \in Drain : drain[d].at = t) => <>SomebodyOwns(t))
<1>1. RowsGoOn(t)
  BY PTL
<1>2. ASSUME NEW d \in Drain PROVE drain[d].at = t => <>SomebodyOwns(t)
  <2>1. DrainBegins(d, t)
    BY <1>1 DEF RowsGoOn
  <2> QED
    BY <2>1 DEF DrainBegins
<1>3. (\E d \in Drain : drain[d].at = t) => <>SomebodyOwns(t)
  BY <1>2
<1> QED
  BY <1>3, PTL

IsSettled(t) == status[t] = "running" ~> status[t] # "running"

LEMMA RowIsSettled ==
  ASSUME NEW t \in Task \ Late, []OwnedInv, []RowsGoOn(t)
  PROVE  IsSettled(t)
<1> DEFINE Drained == \E d \in Drain : drain[d].at = t
           Allowed  == creation[t] = "approved"
<1>1. OwnedInv /\ IsRunning(t) => SomebodyOwns(t) \/ Allowed \/ Drained
  BY DEF OwnedInv, RunningIsOwned, IsRunning, Owned, SomebodyOwns
<1>2. RowsGoOn(t) => RequestBegins(t)
  BY DEF RowsGoOn
<1>3. [](Allowed => <>(SomebodyOwns(t) \/ ~IsRunning(t)))
  BY <1>2, PTL DEF RequestBegins
<1>4. [](Drained => <>SomebodyOwns(t))
  BY DrainedRowsAreOwned
<1>5. [](SomebodyOwns(t) => <>(~IsRunning(t)))
  BY OwnedRowsAreWritten
<1> HIDE DEF Drained, Allowed
<1>6. IsRunning(t) ~> ~IsRunning(t)
  BY <1>1, <1>3, <1>4, <1>5, PTL
<1>7. /\ IsRunning(t) <=> status[t] = "running"
      /\ ~IsRunning(t) <=> status[t] # "running"
  BY DEF IsRunning
<1> QED
  BY <1>6, <1>7, PTL DEF IsSettled

(* No row stays "running", whatever its user, the drains and the stops do, *)
(* if its agent is in time: of TasksSettle what does not need that runs    *)
(* are finitely many.  The boxes ask no more than FairSpec does.           *)
THEOREM RowsAreSettled ==
  Spec /\ []EverythingGoesOn /\ []EverythingCanGoOn => \A t \in Task \ Late : IsSettled(t)
<1> SUFFICES ASSUME NEW t \in Task \ Late
             PROVE  Spec /\ []EverythingGoesOn /\ []EverythingCanGoOn => IsSettled(t)
  OBVIOUS
<1>1. []OwnedInv /\ [][Next]_vars /\ []EverythingGoesOn /\ []EverythingCanGoOn => []RowsGoOn(t)
  BY RowsMove
<1>2. []OwnedInv /\ []RowsGoOn(t) => IsSettled(t)
  BY RowIsSettled
<1> QED
  BY <1>1, <1>2, OwnedInvariant, PTL DEF Spec

==============================================================================
