------------------------- MODULE HeartbeatWakeProofs -------------------------
(***************************************************************************)
(* That no wake-up is lost, left without a timer or lowered in priority,   *)
(* that the newest runner goes on beating, and that a handler is called    *)
(* once at a time: for any targets and any number of runners and batches.  *)
(***************************************************************************)
EXTENDS HeartbeatWake, TLAPS

Full == [by : Runner, all : Wakes, todo : SUBSET Target, at : Target, refused : BOOLEAN]

LEMMA ActiveIsFull ==
  ASSUME TypeOK, NEW b \in Batch
  PROVE  /\ Active(b) => batch[b] \in Full
         /\ ~Active(b) => batch[b] = Free
  BY DEF TypeOK, BatchState, Full, Active

LEMMA CallIsFull ==
  ASSUME TypeOK, NEW r \in Runner, NEW all \in Wakes, NEW todo \in SUBSET Target,
         NEW t \in Target
  PROVE  /\ Call(r, all, todo, t) \in Full
         /\ Call(r, all, todo, t) # Free
         /\ Call(r, all, todo, t).by = r /\ Call(r, all, todo, t).all = all
         /\ Call(r, all, todo, t).todo = todo \ {t} /\ Call(r, all, todo, t).at = t
         /\ Call(r, all, todo, t).refused = Refuses(r)
<1>1. Call(r, all, todo, t) \in Full
  BY DEF Call, Full, Refuses
<1>2. Call(r, all, todo, t).by # Free.by
  BY DEF Call, Free, NoRunner, Runner
<1> QED
  BY <1>1, <1>2 DEF Call

LEMMA HigherIsHigher ==
  ASSUME NEW p \in Priority \cup {Nothing}, NEW q \in Priority \cup {Nothing}
  PROVE  /\ Higher(p, q) \in Priority \cup {Nothing}
         /\ Higher(p, q) >= p /\ Higher(p, q) >= q /\ Higher(p, q) \in {p, q}
  BY DEF Higher, Priority, Nothing, Retry, Interval, Default, Action

Timers == {"off", "normal", "retry"}

LEMMA ScheduledType ==
  ASSUME NEW armed \in Timers, NEW kind \in {"normal", "retry"}
  PROVE  Scheduled(armed, kind) \subseteq {"normal", "retry"}
  BY DEF Scheduled, Timers

LEMMA MainIsTarget == Main \in Target
  BY WakeAssumption

(***************************************************************************)
(* Types                                                                   *)
(***************************************************************************)

LEMMA InitType == Init => TypeOK
<1> SUFFICES ASSUME Init PROVE TypeOK
  OBVIOUS
<1>1. pendingWakes \in Wakes /\ due \in Wakes
  BY DEF Init, Wakes
<1>2. batch \in [Batch -> BatchState]
  BY DEF Init, BatchState
<1>3. started \in 0..Runners
  BY WakeAssumption DEF Init
<1> QED
  BY <1>1, <1>2, <1>3 DEF Init, TypeOK

LEMMA RequestType ==
  ASSUME TypeOK, NEW t \in Target, NEW p \in Priority, Request(t, p)
  PROVE  pendingWakes' \in Wakes /\ due' \in Wakes /\ timer' \in Timers
<1>1. timer' \in Timers
  BY ScheduledType DEF Request, TypeOK, Timers
<1>2. /\ pendingWakes' = [pendingWakes EXCEPT ![t] = Higher(pendingWakes[t], p)]
      /\ due' = [due EXCEPT ![t] = Higher(due[t], p)]
  BY DEF Request, Queued
<1>3. /\ Higher(pendingWakes[t], p) \in Priority \cup {Nothing}
      /\ Higher(due[t], p) \in Priority \cup {Nothing}
  BY HigherIsHigher DEF TypeOK, Wakes
<1> QED
  BY <1>1, <1>2, <1>3 DEF TypeOK, Wakes

LEMMA TimerFiresType == TypeOK /\ TimerFires => TypeOK'
<1> SUFFICES ASSUME TypeOK, TimerFires PROVE TypeOK'
  OBVIOUS
<1> USE DEF TypeOK, runnerVars
<1>1. CASE handler = NoRunner \/ UnderWay
  BY <1>1 DEF TimerFires
<1>2. CASE handler # NoRunner /\ ~UnderWay
  <2>1. PICK b \in Batch, t \in Waiting(pendingWakes) :
          /\ batch' = [batch EXCEPT
               ![b] = Call(handler, pendingWakes, Waiting(pendingWakes), t)]
          /\ due' = [due EXCEPT ![t] = Nothing]
    BY <1>2 DEF TimerFires
  <2>2. Call(handler, pendingWakes, Waiting(pendingWakes), t) \in BatchState
    BY <1>2, CallIsFull DEF Full, BatchState, Waiting
  <2>3. batch' \in [Batch -> BatchState] /\ due' \in Wakes
    BY <2>1, <2>2 DEF Wakes
  <2>4. /\ timer' = "off" /\ scheduled' = FALSE /\ running' = TRUE
        /\ pendingWakes' = [u \in Target |-> Nothing]
        /\ UNCHANGED <<handler, started, stopped, beat, agents>>
    BY <1>2 DEF TimerFires
  <2>5. pendingWakes' \in Wakes
    BY <2>4 DEF Wakes
  <2> QED
    BY <2>3, <2>4, <2>5
<1> QED
  BY <1>1, <1>2

LEMMA NextBeatType ==
  ASSUME TypeOK, NEW r \in Runner
  PROVE  NextBeat(r) \subseteq Runner
  BY DEF NextBeat, TypeOK

LEMMA GoOnType ==
  ASSUME TypeOK, NEW b \in Batch, Active(b), NEW armed \in Timers, GoOn(b, armed)
  PROVE  /\ batch' \in [Batch -> BatchState] /\ due' \in Wakes
         /\ timer' \in Timers /\ running' \in BOOLEAN
<1>1. batch[b] \in Full
  BY ActiveIsFull
<1>2. CASE batch[b].todo # {}
  <2>1. PICK t \in batch[b].todo :
          /\ batch' = [batch EXCEPT
               ![b] = Call(batch[b].by, batch[b].all, batch[b].todo, t)]
          /\ due' = IF batch[b].by = handler THEN [due EXCEPT ![t] = Nothing] ELSE due
          /\ timer' = armed
          /\ UNCHANGED running
    BY <1>2 DEF GoOn
  <2>2. Call(batch[b].by, batch[b].all, batch[b].todo, t) \in BatchState
    BY <1>1, CallIsFull DEF Full, BatchState
  <2> QED
    BY <2>1, <2>2 DEF TypeOK, Wakes
<1>3. CASE batch[b].todo = {}
  <2>1. /\ batch' = [batch EXCEPT ![b] = Free] /\ running' = FALSE /\ UNCHANGED due
        /\ timer' = armed \/ timer' \in Scheduled(armed, "normal")
    BY <1>3 DEF GoOn
  <2>2. timer' \in Timers
    BY <2>1, ScheduledType DEF Timers
  <2> QED
    BY <2>1, <2>2 DEF TypeOK, BatchState
<1> QED
  BY <1>2, <1>3

LEMMA ServedType ==
  ASSUME TypeOK, NEW b \in Batch, Served(b)
  PROVE  TypeOK'
<1>1. batch[b] \in Full
  BY ActiveIsFull DEF Served
<1>2. beat' \subseteq Runner
  BY <1>1, NextBeatType DEF Served, TypeOK, Full
<1>3. /\ batch' \in [Batch -> BatchState] /\ due' \in Wakes
      /\ timer' \in Timers /\ running' \in BOOLEAN
  BY GoOnType DEF Served, TypeOK, Timers
<1>4. UNCHANGED <<pendingWakes, handler, scheduled, started, stopped, agents>>
  BY DEF Served
<1> QED
  BY <1>2, <1>3, <1>4 DEF TypeOK, Timers

LEMMA LaneBusyType ==
  ASSUME TypeOK, NEW b \in Batch, LaneBusy(b)
  PROVE  TypeOK'
<1> DEFINE t == batch[b].at
           p == batch[b].all[t]
<1>1. batch[b] \in Full
  BY ActiveIsFull DEF LaneBusy
<1>2. t \in Target /\ p \in Priority \cup {Nothing}
  BY <1>1 DEF Full, Wakes
<1>3. beat' \subseteq Runner
  BY <1>1, NextBeatType DEF LaneBusy, TypeOK, Full
<1>4. pendingWakes' \in Wakes
  <2>1. pendingWakes' = [pendingWakes EXCEPT ![t] = Higher(pendingWakes[t], p)]
    BY DEF LaneBusy, Queued
  <2>2. Higher(pendingWakes[t], p) \in Priority \cup {Nothing}
    BY <1>2, HigherIsHigher DEF TypeOK, Wakes
  <2> QED
    BY <2>1, <2>2 DEF TypeOK, Wakes
<1>5. Higher(due[t], p) \in Priority \cup {Nothing}
  BY <1>2, HigherIsHigher DEF TypeOK, Wakes
<1>6. PICK armed \in Scheduled(timer, "retry") :
        IF batch[b].todo # {}
        THEN \E u \in batch[b].todo :
               /\ batch' = [batch EXCEPT ![b] = Call(@.by, @.all, @.todo, u)]
               /\ due' = [x \in Target |-> CASE x = t -> Higher(due[t], p)
                                             [] x = u /\ batch[b].by = handler -> Nothing
                                             [] OTHER -> due[x]]
               /\ timer' = armed
               /\ UNCHANGED running
        ELSE /\ batch' = [batch EXCEPT ![b] = Free]
             /\ due' = [due EXCEPT ![t] = Higher(@, p)]
             /\ running' = FALSE
             /\ timer' \in Scheduled(armed, "normal")
  BY DEF LaneBusy
<1>7. armed \in {"normal", "retry"}
  BY <1>6, ScheduledType DEF TypeOK, Timers
<1>8. /\ batch' \in [Batch -> BatchState] /\ due' \in Wakes
      /\ timer' \in Timers /\ running' \in BOOLEAN
  <2>1. CASE batch[b].todo # {}
    <3>1. PICK u \in batch[b].todo :
            /\ batch' = [batch EXCEPT
                 ![b] = Call(batch[b].by, batch[b].all, batch[b].todo, u)]
            /\ due' = [x \in Target |-> CASE x = t -> Higher(due[t], p)
                                          [] x = u /\ batch[b].by = handler -> Nothing
                                          [] OTHER -> due[x]]
            /\ timer' = armed
            /\ UNCHANGED running
      BY <1>6, <2>1
    <3>2. Call(batch[b].by, batch[b].all, batch[b].todo, u) \in BatchState
      BY <1>1, CallIsFull DEF Full, BatchState
    <3>3. batch' \in [Batch -> BatchState]
      BY <3>1, <3>2 DEF TypeOK
    <3>4. due' \in Wakes
      BY <1>5, <3>1 DEF TypeOK, Wakes
    <3> QED
      BY <1>7, <3>1, <3>3, <3>4 DEF TypeOK, Timers
  <2>2. CASE batch[b].todo = {}
    <3>1. timer' \in Timers
      BY <1>6, <1>7, <2>2, ScheduledType DEF Timers
    <3>2. due' \in Wakes
      BY <1>2, <1>5, <1>6, <2>2 DEF TypeOK, Wakes
    <3>3. batch' \in [Batch -> BatchState] /\ running' \in BOOLEAN
      BY <1>6, <2>2 DEF TypeOK, BatchState
    <3> QED
      BY <3>1, <3>2, <3>3
  <2> QED
    BY <2>1, <2>2
<1>9. UNCHANGED <<handler, scheduled, started, stopped, agents>>
  BY DEF LaneBusy
<1> QED
  BY <1>3, <1>4, <1>8, <1>9 DEF TypeOK, Timers

LEMMA HandlerThrowsType ==
  ASSUME TypeOK, NEW b \in Batch, HandlerThrows(b)
  PROVE  TypeOK'
<1> DEFINE all == batch[b].all
           t == batch[b].at
<1>1. batch[b] \in Full
  BY ActiveIsFull DEF HandlerThrows
<1>2. all \in Wakes /\ t \in Target
  BY <1>1 DEF Full
<1>3. pendingWakes' \in Wakes
  <2>1. \A u \in Target : Higher(pendingWakes[u], all[u]) \in Priority \cup {Nothing}
    BY <1>2, HigherIsHigher DEF TypeOK, Wakes
  <2>2. pendingWakes' = [u \in Target |-> Higher(pendingWakes[u], all[u])]
    BY DEF HandlerThrows, Queued
  <2> QED
    BY <2>1, <2>2 DEF Wakes
<1>4. due' \in Wakes
  <2>1. Higher(due[t], all[t]) \in Priority \cup {Nothing}
    BY <1>2, HigherIsHigher DEF TypeOK, Wakes
  <2>2. due' = [due EXCEPT ![t] = Higher(due[t], all[t])]
    BY DEF HandlerThrows
  <2> QED
    BY <2>1, <2>2 DEF TypeOK, Wakes
<1>5. timer' \in Timers
  <2>1. PICK armed \in Scheduled(timer, "retry") : timer' \in Scheduled(armed, "normal")
    BY DEF HandlerThrows
  <2>2. armed \in Timers
    BY ScheduledType DEF TypeOK, Timers
  <2> QED
    BY <2>1, <2>2, ScheduledType DEF Timers
<1>6. batch' \in [Batch -> BatchState]
  BY DEF HandlerThrows, TypeOK, BatchState
<1>7. running' = FALSE /\ UNCHANGED <<handler, scheduled, started, stopped, beat, agents>>
  BY DEF HandlerThrows, runnerVars
<1> QED
  BY <1>3, <1>4, <1>5, <1>6, <1>7 DEF TypeOK, Timers

LEMMA RunnerType ==
  ASSUME TypeOK, NEW r \in Runner, NEW on \in BOOLEAN,
         Stop(r) \/ BeatDue(r) \/ UpdateConfig(r, on)
  PROVE  TypeOK'
<1>1. CASE Stop(r)
  BY <1>1 DEF Stop, Disposed, OnlyPendingDue, TypeOK
<1>2. CASE BeatDue(r)
  <2>1. pendingWakes' \in Wakes /\ due' \in Wakes /\ timer' \in Timers
    BY <1>2, RequestType, MainIsTarget DEF BeatDue, Priority
  <2> QED
    BY <1>2, <2>1 DEF BeatDue, TypeOK, Timers
<1>3. CASE UpdateConfig(r, on)
  BY <1>3 DEF UpdateConfig, wakeVars, TypeOK
<1> QED
  BY <1>1, <1>2, <1>3

LEMMA StartType ==
  ASSUME TypeOK, NEW on \in BOOLEAN, Start(on)
  PROVE  TypeOK'
<1>1. started + 1 \in Runner /\ started + 1 \in 0..Runners
  BY WakeAssumption DEF Start, TypeOK, Runner
<1>2. timer' \in {"off", "normal", "retry"} /\ scheduled' = FALSE /\ running' = FALSE
  BY DEF Start, Rearmed, ClearedFlags
<1>3. /\ started' = started + 1 /\ handler' = started + 1 /\ due' = pendingWakes
      /\ UNCHANGED <<pendingWakes, batch, stopped>>
  BY DEF Start, OnlyPendingDue
<1>4. agents' \subseteq Runner /\ beat' \subseteq Runner
  BY <1>1 DEF Start, TypeOK
<1> QED
  BY <1>1, <1>2, <1>3, <1>4 DEF TypeOK

LEMMA TypeInvariant == TypeOK /\ [Next]_vars => TypeOK'
<1> SUFFICES ASSUME TypeOK, [Next]_vars PROVE TypeOK'
  OBVIOUS
<1>1. CASE UNCHANGED vars
  BY <1>1 DEF vars, wakeVars, runnerVars, TypeOK
<1>2. ASSUME NEW t \in Target, NEW p \in Asked, Requested(t, p)
      PROVE  TypeOK'
  <2>1. p \in Priority
    BY WakeAssumption DEF Priority, Retry, Interval, Default, Action
  <2>2. pendingWakes' \in Wakes /\ due' \in Wakes /\ timer' \in Timers
    BY <1>2, <2>1, RequestType DEF Requested
  <2> QED
    BY <1>2, <2>2 DEF Requested, runnerVars, TypeOK, Timers
<1> QED
  BY <1>1, <1>2, TimerFiresType, ServedType, LaneBusyType, HandlerThrowsType, StartType,
     RunnerType DEF Next, BatchEnds

(* Every variable keeps its type.                                          *)
THEOREM TypeCorrect == Spec => []TypeOK
  BY InitType, TypeInvariant, PTL DEF Spec

(***************************************************************************)
(* What a batch is made of, and how it goes on                             *)
(***************************************************************************)

(* What a batch calls for was pending, and is called for once.             *)
BatchOK(w) ==
  /\ w.all[w.at] # Nothing
  /\ w.at \notin w.todo
  /\ \A t \in w.todo : w.all[t] # Nothing
  /\ w.by <= started

BatchesMade == \A b \in Batch : Active(b) => BatchOK(batch[b])

(* The handler is the newest runner's, until that is stopped.              *)
HandlerNewest ==
  /\ stopped \subseteq 1..started
  /\ agents \subseteq 1..started
  /\ handler = IF started \in Runner \ stopped THEN started ELSE NoRunner

(* A batch goes on with another target, or is over.                        *)
NextCall(b, u) == Call(batch[b].by, batch[b].all, batch[b].todo, u)

GoesOn(b) == \E u \in batch[b].todo : batch' = [batch EXCEPT ![b] = NextCall(b, u)]

IsOver(b) == batch' = [batch EXCEPT ![b] = Free]

LEMMA BatchStep ==
  ASSUME NEW b \in Batch, BatchEnds(b)
  PROVE  Active(b) /\ (GoesOn(b) \/ IsOver(b)) /\ UNCHANGED <<handler, started, stopped, agents>>
<1>1. CASE Served(b)
  BY <1>1 DEF Served, GoOn, GoesOn, IsOver, NextCall
<1>2. CASE LaneBusy(b)
  <2>1. CASE batch[b].todo # {}
    BY <1>2, <2>1 DEF LaneBusy, GoesOn, NextCall
  <2>2. CASE batch[b].todo = {}
    BY <1>2, <2>2 DEF LaneBusy, IsOver
  <2> QED
    BY <1>2, <2>1, <2>2 DEF LaneBusy
<1>3. CASE HandlerThrows(b)
  BY <1>3 DEF HandlerThrows, IsOver, runnerVars
<1> QED
  BY <1>1, <1>2, <1>3 DEF BatchEnds

(* The batch a timer begins.                                               *)
Begun(b, t) ==
  /\ t \in Target /\ pendingWakes[t] # Nothing
  /\ handler # NoRunner /\ ~running /\ ~Active(b)
  /\ batch' = [batch EXCEPT ![b] = Call(handler, pendingWakes, Waiting(pendingWakes), t)]
  /\ due' = [due EXCEPT ![t] = Nothing]
  /\ pendingWakes' = [u \in Target |-> Nothing]
  /\ timer' = "off" /\ scheduled' = FALSE /\ running' = TRUE

LEMMA TimerStep ==
  ASSUME TimerFires
  PROVE  /\ \/ \E b \in Batch, t \in Target : Begun(b, t)
            \/ /\ UNCHANGED <<pendingWakes, running, batch, due>>
               /\ \/ handler = NoRunner /\ timer' = "off" /\ scheduled' = FALSE
                  \/ timer' = timer /\ timer # "off"
         /\ UNCHANGED <<handler, started, stopped, beat, agents>>
<1>1. CASE handler = NoRunner
  BY <1>1 DEF TimerFires, runnerVars
<1>2. CASE handler # NoRunner /\ running
  BY <1>2 DEF TimerFires, UnderWay, runnerVars
<1>3. CASE handler # NoRunner /\ ~running
  <2>1. PICK b \in Batch, t \in Waiting(pendingWakes) :
          /\ ~Active(b)
          /\ batch' = [batch EXCEPT
               ![b] = Call(handler, pendingWakes, Waiting(pendingWakes), t)]
          /\ due' = [due EXCEPT ![t] = Nothing]
    BY <1>3 DEF TimerFires, UnderWay
  <2>2. Begun(b, t)
    BY <1>3, <2>1 DEF TimerFires, UnderWay, Begun, Waiting
  <2>3. UNCHANGED <<handler, started, stopped, beat, agents>>
    BY DEF TimerFires, runnerVars
  <2> QED
    BY <2>2, <2>3 DEF Begun
<1> QED
  BY <1>1, <1>2, <1>3

LEMMA BatchesStep ==
  ASSUME TypeOK, HandlerNewest, BatchesMade, [Next]_vars
  PROVE  BatchesMade'
<1>4. started \in Nat
  BY WakeAssumption DEF TypeOK
<1>1. ASSUME UNCHANGED batch, started' >= started
      PROVE  BatchesMade'
  <2>1. SUFFICES ASSUME NEW b \in Batch, Active(b)
                 PROVE  batch[b].by <= started'
    BY <1>1 DEF BatchesMade, BatchOK, Active
  <2>2. batch[b].by \in Nat /\ batch[b].by <= started /\ started \in Nat /\ started' \in Nat
    BY <2>1, ActiveIsFull, TypeInvariant, WakeAssumption DEF BatchesMade, BatchOK, Full, Runner, TypeOK
  <2> QED
    BY <1>1, <2>2
<1>2. ASSUME NEW b \in Batch, BatchEnds(b)
      PROVE  BatchesMade'
  <2>1. /\ Active(b) /\ (GoesOn(b) \/ IsOver(b)) /\ UNCHANGED started
    BY <1>2, BatchStep
  <2>2. batch[b] \in Full /\ BatchOK(batch[b])
    BY <2>1, ActiveIsFull DEF BatchesMade
  <2>3. CASE IsOver(b)
    BY <2>1, <2>3 DEF IsOver, BatchesMade, Active, BatchOK, TypeOK
  <2>4. ASSUME NEW u \in batch[b].todo, batch' = [batch EXCEPT ![b] = NextCall(b, u)]
        PROVE  BatchesMade'
    <3>1. BatchOK(NextCall(b, u))
      <4>1. /\ batch[b].by \in Runner /\ batch[b].all \in Wakes
            /\ batch[b].todo \in SUBSET Target /\ u \in Target
        BY <2>2, <2>4 DEF Full
      <4>2. /\ NextCall(b, u).by = batch[b].by /\ NextCall(b, u).all = batch[b].all
            /\ NextCall(b, u).todo = batch[b].todo \ {u} /\ NextCall(b, u).at = u
        BY DEF NextCall, Call
      <4> QED
        BY <2>2, <2>4, <4>2 DEF BatchOK
    <3>2. batch'[b] = NextCall(b, u) /\ \A c \in Batch \ {b} : batch'[c] = batch[c]
      BY <2>4 DEF TypeOK
    <3> QED
      BY <2>1, <3>1, <3>2 DEF BatchesMade, Active, BatchOK
  <2> QED
    BY <2>1, <2>3, <2>4 DEF GoesOn
<1>3. CASE TimerFires
  <2>1. ASSUME NEW b \in Batch, NEW t \in Target, Begun(b, t)
        PROVE  BatchesMade'
    <3> DEFINE new == Call(handler, pendingWakes, Waiting(pendingWakes), t)
    <3>1. handler \in Runner /\ handler <= started /\ UNCHANGED started
      BY <1>3, <2>1, TimerStep DEF Begun, HandlerNewest, NoRunner, TypeOK, Runner
    <3>2. BatchOK(new)
      <4>1. pendingWakes \in Wakes /\ Waiting(pendingWakes) \in SUBSET Target
        BY DEF TypeOK, Waiting
      <4>2. /\ new.by = handler /\ new.all = pendingWakes /\ new.at = t
            /\ new.todo = Waiting(pendingWakes) \ {t}
        BY <3>1, <4>1, CallIsFull
      <4> QED
        BY <2>1, <3>1, <4>2 DEF BatchOK, Begun, Waiting
    <3>3. batch'[b] = new /\ \A c \in Batch \ {b} : batch'[c] = batch[c]
      BY <2>1 DEF TypeOK, Begun
    <3> QED
      BY <3>1, <3>2, <3>3 DEF BatchesMade, Active, BatchOK
  <2> QED
    <3>1. UNCHANGED started /\ (UNCHANGED batch \/ \E b \in Batch, t \in Target : Begun(b, t))
      BY <1>3, TimerStep
    <3>2. started' >= started
      BY <1>4, <3>1
    <3> QED
      BY <1>1, <2>1, <3>1, <3>2
<1>5. ASSUME NEW on \in BOOLEAN, Start(on)
      PROVE  BatchesMade'
  BY <1>1, <1>4, <1>5 DEF Start
<1>6. ASSUME NEW r \in Runner, NEW on \in BOOLEAN,
             Stop(r) \/ BeatDue(r) \/ UpdateConfig(r, on)
      PROVE  BatchesMade'
  BY <1>1, <1>4, <1>6 DEF Stop, BeatDue, UpdateConfig, wakeVars
<1>7. CASE (\E t \in Target, p \in Asked : Requested(t, p)) \/ UNCHANGED vars
  BY <1>1, <1>4, <1>7 DEF Requested, vars, wakeVars, runnerVars
<1> QED
  BY <1>2, <1>3, <1>5, <1>6, <1>7 DEF Next

LEMMA HandlerStep ==
  ASSUME TypeOK, HandlerNewest, [Next]_vars
  PROVE  HandlerNewest'
<1>1. ASSUME UNCHANGED <<handler, started, stopped>>, agents' \subseteq agents \cup 1..started
      PROVE  HandlerNewest'
  BY <1>1 DEF HandlerNewest
<1>2. ASSUME NEW on \in BOOLEAN, Start(on)
      PROVE  HandlerNewest'
  <2>1. /\ started' = started + 1 /\ handler' = started + 1 /\ stopped' = stopped
        /\ agents' \subseteq agents \cup {started + 1} /\ started + 1 \in Runner
        /\ started \in Nat
    BY <1>2, WakeAssumption DEF Start, TypeOK, Runner
  <2>2. started + 1 \notin stopped
    BY <2>1 DEF HandlerNewest
  <2> QED
    BY <2>1, <2>2 DEF HandlerNewest
<1>3. ASSUME NEW r \in Runner, Stop(r)
      PROVE  HandlerNewest'
  <2>1. /\ r <= started /\ r \in 1..started /\ r \notin stopped
        /\ stopped' = stopped \cup {r} /\ UNCHANGED <<started, agents>>
    BY <1>3, WakeAssumption DEF Stop, TypeOK, Runner
  <2>2. handler' = IF handler = r THEN NoRunner ELSE handler
    BY <1>3 DEF Stop, Disposed, OnlyPendingDue
  <2> QED
    BY <2>1, <2>2 DEF HandlerNewest, NoRunner, Runner
<1>4. ASSUME NEW r \in Runner, NEW on \in BOOLEAN, BeatDue(r) \/ UpdateConfig(r, on)
      PROVE  HandlerNewest'
  BY <1>1, <1>4, WakeAssumption DEF BeatDue, UpdateConfig, wakeVars, Runner, TypeOK
<1>5. CASE \/ TimerFires \/ (\E b \in Batch : BatchEnds(b)) \/ UNCHANGED vars
           \/ \E t \in Target, p \in Asked : Requested(t, p)
  BY <1>1, <1>5, TimerStep, BatchStep DEF Requested, vars, wakeVars, runnerVars
<1> QED
  BY <1>2, <1>3, <1>4, <1>5 DEF Next

(***************************************************************************)
(* Timers                                                                  *)
(***************************************************************************)

(* A timer that found a batch under way is armed again: "scheduled".       *)
Watched ==
  /\ WakesWatched
  /\ scheduled => timer # "off"

LEMMA RequestWatched ==
  ASSUME TypeOK, NEW t \in Target, NEW p \in Priority, Request(t, p)
  PROVE  timer' # "off" /\ Waiting(pendingWakes') # {}
<1>1. timer' # "off"
  BY ScheduledType DEF Request, TypeOK, Timers
<1>2. pendingWakes'[t] # Nothing
  <2>1. pendingWakes'[t] = Higher(pendingWakes[t], p)
    BY DEF Request, Queued, TypeOK, Wakes
  <2>2. pendingWakes[t] \in Priority \cup {Nothing}
    BY DEF TypeOK, Wakes
  <2> QED
    BY <2>1, <2>2 DEF Higher, Priority, Nothing, Retry, Interval, Default, Action
<1> QED
  BY <1>1, <1>2 DEF Waiting

LEMMA GoOnWatched ==
  ASSUME TypeOK, Watched, NEW b \in Batch, Active(b), NEW armed \in Timers, GoOn(b, armed),
         handler' = handler, scheduled' = scheduled,
         handler # NoRunner /\ Waiting(pendingWakes') # {} => armed # "off",
         armed # "off" => Waiting(pendingWakes') # {},
         scheduled => armed # "off"
  PROVE  Watched'
<1>1. CASE batch[b].todo # {}
  <2>1. timer' = armed /\ running' = running /\ GoesOn(b)
    BY <1>1 DEF GoOn, GoesOn, NextCall
  <2>2. ASSUME handler # NoRunner, running
        PROVE  \E c \in Batch : batch'[c].by = handler
    <3>1. PICK c \in Batch : batch[c].by = handler
      BY <2>2 DEF Watched, WakesWatched
    <3>2. PICK u \in batch[b].todo : batch' = [batch EXCEPT ![b] = NextCall(b, u)]
      BY <2>1 DEF GoesOn
    <3>3. NextCall(b, u).by = batch[b].by
      BY DEF NextCall, Call
    <3> QED
      BY <3>1, <3>2, <3>3 DEF TypeOK
  <2> QED
    BY <2>1, <2>2 DEF Watched, WakesWatched
<1>2. CASE batch[b].todo = {}
  <2>1. /\ running' = FALSE
        /\ timer' \in IF scheduled \/ Waiting(pendingWakes') # {}
                     THEN Scheduled(armed, "normal") ELSE {armed}
    BY <1>2 DEF GoOn
  <2>2. Scheduled(armed, "normal") \subseteq {"normal", "retry"}
    BY ScheduledType
  <2> QED
    BY <2>1, <2>2 DEF Watched, WakesWatched
<1> QED
  BY <1>1, <1>2

LEMMA WatchedStep ==
  ASSUME TypeOK, BatchesMade, HandlerNewest, Watched, [Next]_vars
  PROVE  Watched'
<1> USE DEF Watched, WakesWatched
<1>1. ASSUME NEW t \in Target, NEW p \in Asked, Requested(t, p)
      PROVE  Watched'
  <2>1. p \in Priority
    BY WakeAssumption DEF Priority, Retry, Interval, Default, Action
  <2>2. /\ timer' # "off" /\ Waiting(pendingWakes') # {}
        /\ UNCHANGED <<handler, running, scheduled, batch>>
    BY <1>1, <2>1, RequestWatched DEF Requested
  <2> QED
    BY <2>2
<1>2. CASE TimerFires
  <2>1. ASSUME NEW b \in Batch, NEW t \in Target, Begun(b, t)
        PROVE  Watched'
    <3>1. Waiting(pendingWakes') = {}
      BY <2>1 DEF Begun, Waiting
    <3>2. batch'[b].by = handler
      BY <2>1 DEF Begun, Call, TypeOK
    <3>3. timer' = "off" /\ scheduled' = FALSE /\ handler' = handler
      BY <1>2, <2>1, TimerStep DEF Begun
    <3> QED
      BY <3>1, <3>2, <3>3
  <2>2. CASE handler = NoRunner /\ timer' = "off" /\ scheduled' = FALSE
    BY <1>2, <2>2, TimerStep
  <2>3. CASE timer' = timer /\ timer # "off" /\ UNCHANGED <<pendingWakes, running, batch>>
    BY <1>2, <2>3, TimerStep
  <2> QED
    BY <1>2, <2>1, <2>2, <2>3, TimerStep
<1>3. ASSUME NEW b \in Batch, Served(b)
      PROVE  Watched'
  <2>1. /\ Active(b) /\ GoOn(b, timer) /\ UNCHANGED <<pendingWakes, handler, scheduled>>
        /\ timer \in Timers
    BY <1>3 DEF Served, TypeOK, Timers
  <2> QED
    BY <2>1, GoOnWatched
<1>4. ASSUME NEW b \in Batch, LaneBusy(b)
      PROVE  Watched'
  <2> DEFINE t == batch[b].at
             p == batch[b].all[t]
  <2>1. batch[b] \in Full /\ BatchOK(batch[b]) /\ UNCHANGED <<handler, scheduled>>
    BY <1>4, ActiveIsFull DEF LaneBusy, BatchesMade
  <2>2. Waiting(pendingWakes') # {}
    <3>1. t \in Target /\ p \in Priority
      BY <2>1 DEF BatchOK, Full, Wakes
    <3>2. pendingWakes'[t] = Higher(pendingWakes[t], p)
      BY <1>4, <3>1 DEF LaneBusy, Queued, TypeOK, Wakes
    <3>3. pendingWakes[t] \in Priority \cup {Nothing}
      BY <3>1 DEF TypeOK, Wakes
    <3>4. pendingWakes'[t] # Nothing
      BY <3>1, <3>2, <3>3 DEF Higher, Priority, Nothing, Retry, Interval, Default, Action
    <3> QED
      BY <3>1, <3>4 DEF Waiting
  <2>3. PICK armed \in Scheduled(timer, "retry") :
          IF batch[b].todo # {}
          THEN GoesOn(b) /\ timer' = armed /\ UNCHANGED running
          ELSE running' = FALSE /\ timer' \in Scheduled(armed, "normal")
    BY <1>4 DEF LaneBusy, GoesOn, NextCall
  <2>4. armed \in {"normal", "retry"} /\ timer' # "off"
    <3>1. armed \in {"normal", "retry"}
      BY ScheduledType DEF TypeOK, Timers
    <3>2. Scheduled(armed, "normal") \subseteq {"normal", "retry"}
      BY <3>1, ScheduledType DEF Timers
    <3> QED
      BY <2>3, <3>1, <3>2
  <2>5. ASSUME handler # NoRunner, running'
        PROVE  \E c \in Batch : batch'[c].by = handler
    <3>1. running /\ GoesOn(b)
      BY <2>3, <2>5
    <3>2. PICK c \in Batch : batch[c].by = handler
      BY <2>5, <3>1
    <3>3. PICK u \in batch[b].todo : batch' = [batch EXCEPT ![b] = NextCall(b, u)]
      BY <3>1 DEF GoesOn
    <3>4. NextCall(b, u).by = batch[b].by
      BY DEF NextCall, Call
    <3> QED
      BY <3>2, <3>3, <3>4 DEF TypeOK
  <2> QED
    BY <2>1, <2>2, <2>4, <2>5
<1>5. ASSUME NEW b \in Batch, HandlerThrows(b)
      PROVE  Watched'
  <2> DEFINE all == batch[b].all
             t == batch[b].at
  <2>1. batch[b] \in Full /\ BatchOK(batch[b])
    BY <1>5, ActiveIsFull DEF HandlerThrows, BatchesMade
  <2>2. t \in Target /\ all[t] \in Priority
    BY <2>1 DEF BatchOK, Full, Wakes
  <2>3. pendingWakes'[t] # Nothing
    <3>1. pendingWakes'[t] = Higher(pendingWakes[t], all[t])
      BY <1>5, <2>2 DEF HandlerThrows, Queued
    <3>2. pendingWakes[t] \in Priority \cup {Nothing}
      BY <2>2 DEF TypeOK, Wakes
    <3> QED
      BY <2>2, <3>1, <3>2 DEF Higher, Priority, Nothing, Retry, Interval, Default, Action
  <2>4. timer' # "off"
    <3>1. PICK armed \in Scheduled(timer, "retry") : timer' \in Scheduled(armed, "normal")
      BY <1>5 DEF HandlerThrows
    <3>2. armed \in Timers
      BY ScheduledType DEF TypeOK, Timers
    <3> QED
      BY <3>1, <3>2, ScheduledType
  <2>5. running' = FALSE
    BY <1>5 DEF HandlerThrows
  <2> QED
    BY <2>2, <2>3, <2>4, <2>5 DEF Waiting
<1>6. ASSUME NEW on \in BOOLEAN, Start(on)
      PROVE  Watched'
  <2>1. /\ running' = FALSE /\ scheduled' = FALSE /\ pendingWakes' = pendingWakes
        /\ timer' = IF Waiting(pendingWakes) = {} THEN "off" ELSE "normal"
    BY <1>6 DEF Start, ClearedFlags, Rearmed
  <2>2. Waiting(pendingWakes') = Waiting(pendingWakes)
    BY <2>1 DEF Waiting
  <2> QED
    BY <2>1, <2>2
<1>7. ASSUME NEW r \in Runner, Stop(r)
      PROVE  Watched'
  <2>1. /\ UNCHANGED <<pendingWakes, scheduled, running, timer, batch>>
        /\ handler' = handler \/ handler' = NoRunner
    BY <1>7 DEF Stop, Disposed
  <2> QED
    BY <2>1 DEF Waiting
<1>8. ASSUME NEW r \in Runner, BeatDue(r)
      PROVE  Watched'
  <2>1. /\ timer' # "off" /\ Waiting(pendingWakes') # {}
        /\ UNCHANGED <<handler, running, scheduled, batch>>
    BY <1>8, RequestWatched, MainIsTarget DEF BeatDue, Priority
  <2> QED
    BY <2>1
<1>9. CASE UNCHANGED wakeVars
  BY <1>9 DEF wakeVars, Waiting
<1> QED
  BY <1>1, <1>2, <1>3, <1>4, <1>5, <1>6, <1>7, <1>8, <1>9 DEF Next, BatchEnds, UpdateConfig, vars

WakeInv ==
  /\ TypeOK
  /\ BatchesMade
  /\ HandlerNewest
  /\ Watched

LEMMA WakeInvInit == Init => WakeInv
<1> SUFFICES ASSUME Init PROVE WakeInv
  OBVIOUS
<1>1. BatchesMade
  BY DEF Init, BatchesMade, Active
<1>2. HandlerNewest
  BY DEF Init, HandlerNewest, Runner, NoRunner
<1>3. Watched
  BY DEF Init, Watched, WakesWatched
<1> QED
  BY <1>1, <1>2, <1>3, InitType DEF WakeInv

LEMMA WakeInvStep == WakeInv /\ [Next]_vars => WakeInv'
  BY TypeInvariant, BatchesStep, HandlerStep, WatchedStep DEF WakeInv

(* A wake-up that waits for a handler that is there is watched by a timer, *)
(* which itself waits for nothing but a batch of that handler.             *)
THEOREM WakesAreWatched == Spec => []WakesWatched
<1>1. WakeInv => WakesWatched
  BY DEF WakeInv, Watched
<1> QED
  BY <1>1, WakeInvInit, WakeInvStep, PTL DEF Spec

(***************************************************************************)
(* Wake-ups                                                                *)
(***************************************************************************)

(* The batch that a wake-up which is due is in is the handler's.           *)
KeptBy(t, b) ==
  Active(b) /\ batch[b].by = handler /\ t \in batch[b].todo /\ batch[b].all[t] >= due[t]

Kept(t) == pendingWakes[t] >= due[t] \/ \E b \in Batch : KeptBy(t, b)

AllKept == \A t \in Target : Kept(t)

LEMMA PriorityOrder ==
  ASSUME NEW p \in Priority \cup {Nothing}
  PROVE  p \in Nat
  BY DEF Priority, Nothing, Retry, Interval, Default, Action

(* A wake-up that is queued and due at the same time stays kept.           *)
LEMMA QueuedIsKept ==
  ASSUME TypeOK, NEW t \in Target, NEW p \in Priority \cup {Nothing}, Kept(t),
         pendingWakes'[t] = Higher(pendingWakes[t], p),
         due'[t] = Higher(due[t], p),
         handler' = handler,
         \A b \in Batch : Active(b) /\ t \in batch[b].todo =>
           \/ /\ Active(b)' /\ t \in batch'[b].todo
              /\ batch'[b].by = batch[b].by /\ batch'[b].all = batch[b].all
           \/ batch[b].all[t] = p
  PROVE  Kept(t)'
<1>1. /\ pendingWakes[t] \in Nat /\ due[t] \in Nat /\ p \in Nat
  BY PriorityOrder DEF TypeOK, Wakes
<1>2. CASE pendingWakes[t] >= due[t] \/ p >= due[t]
  BY <1>1, <1>2 DEF Kept, Higher
<1>3. CASE ~(pendingWakes[t] >= due[t] \/ p >= due[t])
  <2>1. due'[t] = due[t]
    BY <1>1, <1>3 DEF Higher
  <2>2. PICK b \in Batch : KeptBy(t, b)
    BY <1>3 DEF Kept
  <2>3. /\ Active(b)' /\ t \in batch'[b].todo
        /\ batch'[b].by = batch[b].by /\ batch'[b].all = batch[b].all
    BY <1>3, <2>2 DEF KeptBy
  <2> QED
    BY <2>1, <2>2, <2>3 DEF Kept, KeptBy
<1> QED
  BY <1>2, <1>3

(* Steps that touch neither the handler nor the batches.                   *)
LEMMA RequestKept ==
  ASSUME TypeOK, AllKept, NEW t \in Target, NEW p \in Priority, Request(t, p),
         UNCHANGED <<handler, batch>>
  PROVE  AllKept'
<1>1. SUFFICES ASSUME NEW u \in Target PROVE Kept(u)'
  BY DEF AllKept
<1>2. CASE u = t
  <2>1. /\ pendingWakes'[t] = Higher(pendingWakes[t], p)
        /\ due'[t] = Higher(due[t], p)
    BY DEF Request, Queued, TypeOK, Wakes
  <2> QED
    BY <1>2, <2>1, QueuedIsKept DEF AllKept, Active
<1>3. CASE u # t
  <2>1. pendingWakes'[u] = pendingWakes[u] /\ due'[u] = due[u]
    BY <1>3 DEF Request, TypeOK, Wakes
  <2> QED
    BY <2>1 DEF AllKept, Kept, KeptBy, Active
<1> QED
  BY <1>2, <1>3

LEMMA BegunKept ==
  ASSUME TypeOK, AllKept, NEW b \in Batch, NEW t \in Target, Begun(b, t), handler' = handler
  PROVE  AllKept'
<1>1. SUFFICES ASSUME NEW u \in Target PROVE Kept(u)'
  BY DEF AllKept
<1>2. pendingWakes'[u] = Nothing
  BY DEF Begun
<1>3. CASE u = t
  BY <1>2, <1>3 DEF Begun, Kept, TypeOK, Wakes, Nothing
<1>4. CASE u # t
  <2>1. due'[u] = due[u] /\ due[u] \in Nat /\ pendingWakes[u] \in Nat
    BY <1>4, PriorityOrder DEF Begun, TypeOK, Wakes
  <2>2. CASE due[u] = 0
    BY <1>2, <2>1, <2>2 DEF Kept, Nothing
  <2>3. CASE due[u] # 0 /\ pendingWakes[u] >= due[u]
    <3>1. batch'[b] = Call(handler, pendingWakes, Waiting(pendingWakes), t)
      BY DEF Begun, TypeOK
    <3>2. handler \in Runner
      BY DEF Begun, TypeOK
    <3>3. Active(b)' /\ batch'[b].by = handler /\ batch'[b].all = pendingWakes
      BY <3>1, <3>2 DEF Active, Call, Free, Runner, NoRunner
    <3>4. u \in batch'[b].todo
      BY <1>4, <2>1, <2>3, <3>1 DEF Call, Waiting, Nothing
    <3> QED
      BY <2>1, <2>3, <3>3, <3>4 DEF Kept, KeptBy
  <2>4. CASE ~(pendingWakes[u] >= due[u])
    <3>1. PICK c \in Batch : KeptBy(u, c)
      BY <2>4 DEF AllKept, Kept
    <3>2. c # b /\ batch'[c] = batch[c]
      BY <3>1 DEF KeptBy, Begun, TypeOK
    <3> QED
      BY <2>1, <3>1, <3>2 DEF Kept, KeptBy, Active
  <2> QED
    BY <2>2, <2>3, <2>4
<1> QED
  BY <1>3, <1>4

(* The next call of a batch takes a wake-up out of it: that one is served  *)
(* if the batch is the handler's, and not kept by it otherwise.            *)
LEMMA NextCallKeeps ==
  ASSUME TypeOK, NEW b \in Batch, Active(b), NEW u \in batch[b].todo,
         batch' = [batch EXCEPT ![b] = NextCall(b, u)],
         NEW c \in Batch, Active(c), NEW t \in batch[c].todo, c = b => t # u
  PROVE  /\ Active(c)' /\ t \in batch'[c].todo
         /\ batch'[c].by = batch[c].by /\ batch'[c].all = batch[c].all
<1>1. CASE c # b
  BY <1>1 DEF TypeOK, Active
<1>2. CASE c = b
  <2>1. batch'[b] = NextCall(b, u) /\ batch[b].by \in Runner
    BY ActiveIsFull DEF TypeOK, Full
  <2> QED
    BY <1>2, <2>1 DEF NextCall, Call, Active, Free, Runner, NoRunner
<1> QED
  BY <1>1, <1>2

LEMMA GoOnKept ==
  ASSUME TypeOK, AllKept, NEW b \in Batch, Active(b), NEW armed, GoOn(b, armed),
         UNCHANGED <<handler, pendingWakes>>
  PROVE  AllKept'
<1>1. SUFFICES ASSUME NEW t \in Target PROVE Kept(t)'
  BY DEF AllKept
<1>2. Kept(t)
  BY DEF AllKept
<1>3. CASE batch[b].todo = {}
  <2>1. due' = due /\ batch' = [batch EXCEPT ![b] = Free]
    BY <1>3 DEF GoOn
  <2> QED
    BY <1>2, <1>3, <2>1 DEF Kept, KeptBy, TypeOK, Active
<1>4. CASE batch[b].todo # {}
  <2>1. PICK u \in batch[b].todo :
          /\ batch' = [batch EXCEPT ![b] = NextCall(b, u)]
          /\ due' = IF batch[b].by = handler THEN [due EXCEPT ![u] = Nothing] ELSE due
    BY <1>4 DEF GoOn, NextCall
  <2>2. u \in Target
    BY ActiveIsFull DEF Full
  <2>3. CASE t = u /\ batch[b].by = handler
    <3>1. due'[t] = 0 /\ pendingWakes'[t] \in Nat
      BY <2>1, <2>3, PriorityOrder DEF TypeOK, Wakes, Nothing
    <3> QED
      BY <3>1 DEF Kept
  <2>4. CASE ~(t = u /\ batch[b].by = handler)
    <3>1. due'[t] = due[t]
      BY <2>1, <2>4 DEF TypeOK, Wakes
    <3>2. ASSUME NEW c \in Batch, KeptBy(t, c)
          PROVE  KeptBy(t, c)'
      <4>1. c = b => t # u
        BY <2>4, <3>2 DEF KeptBy
      <4>2. /\ Active(c)' /\ t \in batch'[c].todo
            /\ batch'[c].by = batch[c].by /\ batch'[c].all = batch[c].all
        BY <2>1, <3>2, <4>1, NextCallKeeps DEF KeptBy
      <4> QED
        BY <3>1, <3>2, <4>2 DEF KeptBy
    <3> QED
      BY <1>2, <3>1, <3>2 DEF Kept
  <2> QED
    BY <2>3, <2>4
<1> QED
  BY <1>3, <1>4

LEMMA LaneBusyKept ==
  ASSUME TypeOK, BatchesMade, AllKept, NEW b \in Batch, LaneBusy(b)
  PROVE  AllKept'
<1> DEFINE t == batch[b].at
           p == batch[b].all[t]
<1>1. batch[b] \in Full /\ BatchOK(batch[b]) /\ handler' = handler /\ Active(b)
  BY ActiveIsFull DEF LaneBusy, BatchesMade
<1>2. t \in Target /\ p \in Priority \cup {Nothing}
  BY <1>1 DEF Full, Wakes
<1>3. /\ pendingWakes'[t] = Higher(pendingWakes[t], p)
      /\ \A x \in Target \ {t} : pendingWakes'[x] = pendingWakes[x]
  BY <1>2 DEF LaneBusy, Queued, TypeOK, Wakes
<1>4. SUFFICES ASSUME NEW x \in Target PROVE Kept(x)'
  BY DEF AllKept
<1>5. Kept(x)
  BY DEF AllKept
<1>6. CASE batch[b].todo = {}
  <2>1. /\ batch' = [batch EXCEPT ![b] = Free] /\ due' = [due EXCEPT ![t] = Higher(@, p)]
    BY <1>6 DEF LaneBusy
  <2>2. \A c \in Batch : Active(c) /\ x \in batch[c].todo =>
           /\ Active(c)' /\ x \in batch'[c].todo
           /\ batch'[c].by = batch[c].by /\ batch'[c].all = batch[c].all
    BY <1>6, <2>1 DEF TypeOK, Active
  <2>3. CASE x = t
    <3>1. due'[t] = Higher(due[t], p)
      BY <1>2, <2>1 DEF TypeOK, Wakes
    <3> QED
      BY <1>1, <1>2, <1>3, <1>5, <2>2, <2>3, <3>1, QueuedIsKept
  <2>4. CASE x # t
    <3>1. due'[x] = due[x] /\ pendingWakes'[x] = pendingWakes[x]
      BY <1>3, <2>1, <2>4 DEF TypeOK, Wakes
    <3> QED
      BY <1>1, <1>5, <2>2, <3>1 DEF Kept, KeptBy
  <2> QED
    BY <2>3, <2>4
<1>7. CASE batch[b].todo # {}
  <2>1. PICK u \in batch[b].todo :
          /\ batch' = [batch EXCEPT ![b] = NextCall(b, u)]
          /\ due' = [y \in Target |-> CASE y = t -> Higher(due[t], p)
                                        [] y = u /\ batch[b].by = handler -> Nothing
                                        [] OTHER -> due[y]]
    BY <1>7 DEF LaneBusy, NextCall
  <2>2. u \in Target /\ u # t
    BY <1>1 DEF BatchOK, Full
  <2>3. CASE x = t
    <3>1. due'[t] = Higher(due[t], p)
      BY <1>2, <2>1, <2>2
    <3>2. ASSUME NEW c \in Batch, Active(c), x \in batch[c].todo
          PROVE  /\ Active(c)' /\ x \in batch'[c].todo
                 /\ batch'[c].by = batch[c].by /\ batch'[c].all = batch[c].all
      <4>1. c = b => x # u
        BY <2>2, <2>3
      <4> QED
        BY <1>1, <2>1, <3>2, <4>1, NextCallKeeps
    <3> QED
      BY <1>1, <1>2, <1>3, <1>5, <2>3, <3>1, <3>2, QueuedIsKept
  <2>4. CASE x # t /\ x = u /\ batch[b].by = handler
    <3>1. due'[x] = 0 /\ pendingWakes'[x] \in Nat
      BY <1>3, <2>1, <2>4, PriorityOrder DEF TypeOK, Wakes, Nothing
    <3> QED
      BY <3>1 DEF Kept
  <2>5. CASE x # t /\ ~(x = u /\ batch[b].by = handler)
    <3>1. due'[x] = due[x] /\ pendingWakes'[x] = pendingWakes[x]
      BY <1>3, <2>1, <2>5
    <3>2. ASSUME NEW c \in Batch, KeptBy(x, c)
          PROVE  KeptBy(x, c)'
      <4>1. c = b => x # u
        BY <2>5, <3>2 DEF KeptBy
      <4>2. /\ Active(c)' /\ x \in batch'[c].todo
            /\ batch'[c].by = batch[c].by /\ batch'[c].all = batch[c].all
        BY <1>1, <2>1, <3>2, <4>1, NextCallKeeps DEF KeptBy
      <4> QED
        BY <1>1, <3>1, <3>2, <4>2 DEF KeptBy
    <3> QED
      BY <1>5, <3>1, <3>2 DEF Kept
  <2> QED
    BY <2>3, <2>4, <2>5
<1> QED
  BY <1>6, <1>7

LEMMA HandlerThrowsKept ==
  ASSUME TypeOK, BatchesMade, AllKept, NEW b \in Batch, HandlerThrows(b)
  PROVE  AllKept'
<1> DEFINE all == batch[b].all
           t == batch[b].at
<1>1. batch[b] \in Full /\ BatchOK(batch[b]) /\ handler' = handler
  BY ActiveIsFull DEF HandlerThrows, BatchesMade, runnerVars
<1>2. t \in Target /\ all \in Wakes
  BY <1>1 DEF Full
<1>3. SUFFICES ASSUME NEW x \in Target PROVE Kept(x)'
  BY DEF AllKept
<1>4. Kept(x) /\ all[x] \in Priority \cup {Nothing} /\ due[x] \in Priority \cup {Nothing}
  BY <1>2 DEF AllKept, TypeOK, Wakes
<1>5. pendingWakes'[x] = Higher(pendingWakes[x], all[x])
  BY DEF HandlerThrows, Queued
<1>6. \A c \in Batch : Active(c) /\ x \in batch[c].todo =>
         \/ /\ Active(c)' /\ x \in batch'[c].todo
            /\ batch'[c].by = batch[c].by /\ batch'[c].all = batch[c].all
         \/ batch[c].all[x] = all[x]
  BY DEF HandlerThrows, TypeOK, Active
<1>7. CASE x = t
  <2>1. due'[x] = Higher(due[x], all[x])
    BY <1>2, <1>7 DEF HandlerThrows, TypeOK, Wakes
  <2> QED
    BY <1>1, <1>4, <1>5, <1>6, <2>1, QueuedIsKept
<1>8. CASE x # t
  <2>1. due'[x] = due[x]
    BY <1>8 DEF HandlerThrows, TypeOK, Wakes
  <2>2. pendingWakes[x] \in Nat /\ due[x] \in Nat /\ all[x] \in Nat
    BY <1>4, PriorityOrder DEF TypeOK, Wakes
  <2>3. CASE pendingWakes[x] >= due[x]
    BY <1>5, <2>1, <2>2, <2>3 DEF Kept, Higher
  <2>4. ASSUME NEW c \in Batch, KeptBy(x, c)
        PROVE  Kept(x)'
    <3>1. CASE batch[c].all[x] = all[x]
      BY <1>5, <2>1, <2>2, <2>4, <3>1 DEF Kept, KeptBy, Higher
    <3>2. CASE batch[c].all[x] # all[x]
      BY <1>1, <1>6, <2>1, <2>4, <3>2 DEF Kept, KeptBy
    <3> QED
      BY <3>1, <3>2
  <2> QED
    BY <1>4, <2>3, <2>4 DEF Kept
<1> QED
  BY <1>7, <1>8

LEMMA KeptStep ==
  ASSUME TypeOK, BatchesMade, AllKept, [Next]_vars
  PROVE  AllKept'
<1>1. ASSUME NEW t \in Target, NEW p \in Asked, Requested(t, p)
      PROVE  AllKept'
  <2>1. p \in Priority
    BY WakeAssumption DEF Priority, Retry, Interval, Default, Action
  <2> QED
    BY <1>1, <2>1, RequestKept DEF Requested
<1>2. ASSUME UNCHANGED <<handler, pendingWakes, batch, due>>
      PROVE  AllKept'
  BY <1>2 DEF AllKept, Kept, KeptBy, Active
<1>3. ASSUME UNCHANGED pendingWakes, due' = pendingWakes'
      PROVE  AllKept'
  <2>1. \A t \in Target : pendingWakes[t] \in Nat
    BY PriorityOrder DEF TypeOK, Wakes
  <2> QED
    BY <1>3, <2>1 DEF AllKept, Kept
<1>4. CASE TimerFires
  BY <1>2, <1>4, TimerStep, BegunKept
<1>5. ASSUME NEW b \in Batch, Served(b)
      PROVE  AllKept'
  BY <1>5, GoOnKept DEF Served
<1>6. ASSUME NEW on \in BOOLEAN, Start(on)
      PROVE  AllKept'
  BY <1>3, <1>6 DEF Start, OnlyPendingDue
<1>7. ASSUME NEW r \in Runner, Stop(r)
      PROVE  AllKept'
  BY <1>2, <1>3, <1>7 DEF Stop, Disposed, OnlyPendingDue
<1>8. ASSUME NEW r \in Runner, BeatDue(r)
      PROVE  AllKept'
  <2>1. Request(Main, Interval) /\ UNCHANGED <<handler, batch>>
    BY <1>8 DEF BeatDue
  <2> QED
    BY <2>1, RequestKept, MainIsTarget DEF Priority
<1>9. CASE UNCHANGED <<wakeVars, due>>
  BY <1>2, <1>9 DEF wakeVars
<1> QED
  BY <1>1, <1>4, <1>5, <1>6, <1>7, <1>8, <1>9, LaneBusyKept, HandlerThrowsKept
  DEF Next, BatchEnds, UpdateConfig, vars

(* A wake-up that was asked for is called for, or still pending, or in a   *)
(* batch of the handler, at no lower a priority.                           *)
THEOREM NoWakeLost == Spec => []WakesKept
<1>1. ASSUME Init, NEW t \in Target
      PROVE  Kept(t)
  <2>1. pendingWakes[t] = 0 /\ due[t] = 0
    BY <1>1 DEF Init, Nothing
  <2> QED
    BY <2>1 DEF Kept
<1>2. AllKept => WakesKept
  BY DEF AllKept, Kept, KeptBy, WakesKept
<1>3. WakeInv => TypeOK /\ BatchesMade
  BY DEF WakeInv
<1>4. Init => AllKept
  BY <1>1 DEF AllKept
<1> QED
  BY <1>2, <1>3, <1>4, WakeInvInit, WakeInvStep, KeptStep, PTL DEF Spec

(***************************************************************************)
(* Heartbeats                                                              *)
(***************************************************************************)

(* A batch that will end with a beat of the newest runner, or if its       *)
(* handler throws, with a wake-up that asks for one.                       *)
WillBeat(b) ==
  /\ Active(b) /\ batch[b].by = started /\ batch[b].all[Main] # Nothing
  /\ ~batch[b].refused \/ batch[b].todo # {}

Beating ==
  started \in agents \ stopped =>
    \/ started \in beat
    \/ pendingWakes[Main] # Nothing
    \/ \E b \in Batch : WillBeat(b)

LEMMA HigherKeeps ==
  ASSUME NEW p \in Priority \cup {Nothing}, NEW q \in Priority \cup {Nothing},
         p # Nothing \/ q # Nothing
  PROVE  Higher(p, q) # Nothing
  BY DEF Higher, Priority, Nothing, Retry, Interval, Default, Action

LEMMA BatchBeats ==
  ASSUME WakeInv, Beating, NEW b \in Batch, BatchEnds(b)
  PROVE  Beating'
<1> USE DEF WakeInv
<1>1. /\ Active(b) /\ (GoesOn(b) \/ IsOver(b)) /\ UNCHANGED <<handler, started, stopped, agents>>
      /\ batch[b] \in Full /\ BatchOK(batch[b])
  BY BatchStep, ActiveIsFull DEF BatchesMade
<1>2. SUFFICES ASSUME started \in agents \ stopped
               PROVE  \/ started \in beat'
                      \/ pendingWakes'[Main] # Nothing
                      \/ \E c \in Batch : WillBeat(c)'
  BY <1>1 DEF Beating
<1>3. CASE started \in beat
  BY <1>2, <1>3 DEF BatchEnds, Served, LaneBusy, HandlerThrows, NextBeat, runnerVars
<1>4. CASE pendingWakes[Main] # Nothing
  <2>1. CASE Served(b)
    BY <1>4, <2>1 DEF Served
  <2>2. CASE LaneBusy(b)
    <3>1. /\ batch[b].at \in Target
          /\ batch[b].all[batch[b].at] \in Priority \cup {Nothing}
          /\ pendingWakes[Main] \in Priority \cup {Nothing}
      BY <1>1, MainIsTarget DEF Full, Wakes, TypeOK
    <3>2. \/ pendingWakes'[Main] = pendingWakes[Main]
          \/ pendingWakes'[Main] = Higher(pendingWakes[Main], batch[b].all[batch[b].at])
      BY <2>2, <3>1, MainIsTarget DEF LaneBusy, Queued, TypeOK, Wakes
    <3> QED
      BY <1>4, <3>1, <3>2, HigherKeeps
  <2>3. CASE HandlerThrows(b)
    <3>1. pendingWakes'[Main] = Higher(pendingWakes[Main], batch[b].all[Main])
      BY <2>3, MainIsTarget DEF HandlerThrows, Queued
    <3>2. /\ batch[b].all[Main] \in Priority \cup {Nothing}
          /\ pendingWakes[Main] \in Priority \cup {Nothing}
      BY <1>1, MainIsTarget DEF Full, Wakes, TypeOK
    <3> QED
      BY <1>4, <3>1, <3>2, HigherKeeps
  <2> QED
    BY <2>1, <2>2, <2>3 DEF BatchEnds
<1>5. ASSUME NEW c \in Batch, WillBeat(c), c # b
      PROVE  WillBeat(c)'
  BY <1>1, <1>5 DEF WillBeat, GoesOn, IsOver, TypeOK, Active
<1>6. CASE WillBeat(b)
  <2>1. CASE HandlerThrows(b)
    <3>1. pendingWakes'[Main] = Higher(pendingWakes[Main], batch[b].all[Main])
      BY <2>1, MainIsTarget DEF HandlerThrows, Queued
    <3>2. /\ batch[b].all[Main] \in Priority /\ batch[b].all[Main] # Nothing
          /\ pendingWakes[Main] \in Priority \cup {Nothing}
      BY <1>1, <1>6, MainIsTarget DEF Full, Wakes, TypeOK, WillBeat
    <3> QED
      BY <3>1, <3>2, HigherKeeps
  <2>2. CASE ~batch[b].refused /\ ~HandlerThrows(b)
    <3>1. beat' = NextBeat(started)
      BY <1>6, <2>2 DEF BatchEnds, Served, LaneBusy, WillBeat
    <3> QED
      BY <1>2, <3>1 DEF NextBeat
  <2>3. CASE batch[b].refused /\ ~HandlerThrows(b)
    <3>1. Served(b) /\ batch[b].todo # {}
      BY <1>6, <2>3 DEF BatchEnds, LaneBusy, WillBeat
    <3>2. PICK u \in batch[b].todo : batch' = [batch EXCEPT ![b] = NextCall(b, u)]
      BY <3>1 DEF Served, GoOn, NextCall
    <3>3. batch'[b] = NextCall(b, u)
      BY <3>2 DEF TypeOK
    <3>4. /\ NextCall(b, u).by = started /\ NextCall(b, u).all = batch[b].all
          /\ NextCall(b, u).refused = Refuses(started)
      BY <1>6 DEF NextCall, Call, WillBeat
    <3>5. ~Refuses(started)
      BY <1>2 DEF Refuses
    <3>6. Active(b)'
      BY <1>1, <3>3, <3>4 DEF Active, Free, NoRunner, Runner, Full, NextCall, Call
    <3> QED
      BY <1>1, <1>6, <3>3, <3>4, <3>5, <3>6 DEF WillBeat
  <2> QED
    BY <2>1, <2>2, <2>3
<1> QED
  BY <1>2, <1>3, <1>4, <1>5, <1>6 DEF Beating

LEMMA BeatingStep ==
  ASSUME WakeInv, Beating, [Next]_vars
  PROVE  Beating'
<1> USE DEF WakeInv
<1>1. ASSUME UNCHANGED <<started, stopped, agents, batch>>,
             started \in beat => started \in beat' \/ pendingWakes'[Main] # Nothing,
             pendingWakes[Main] # Nothing => pendingWakes'[Main] # Nothing
      PROVE  Beating'
  BY <1>1 DEF Beating, WillBeat, Active
<1>2. ASSUME NEW t \in Target, NEW p \in Priority, Request(t, p)
      PROVE  /\ pendingWakes[Main] # Nothing => pendingWakes'[Main] # Nothing
             /\ pendingWakes'[t] # Nothing
  <2>1. /\ pendingWakes'[t] = Higher(pendingWakes[t], p)
        /\ t # Main => pendingWakes'[Main] = pendingWakes[Main]
        /\ pendingWakes[t] \in Priority \cup {Nothing} /\ p # Nothing
    BY <1>2, MainIsTarget
    DEF Request, Queued, TypeOK, Wakes, Priority, Nothing, Retry, Interval, Default, Action
  <2> QED
    BY <2>1, HigherKeeps
<1>3. ASSUME NEW t \in Target, NEW p \in Asked, Requested(t, p)
      PROVE  Beating'
  <2>1. p \in Priority
    BY WakeAssumption DEF Priority, Retry, Interval, Default, Action
  <2> QED
    BY <1>1, <1>2, <1>3, <2>1 DEF Requested, runnerVars
<1>4. CASE TimerFires
  <2>1. UNCHANGED <<handler, started, stopped, beat, agents>>
    BY <1>4, TimerStep
  <2>2. ASSUME NEW b \in Batch, NEW t \in Target, Begun(b, t)
        PROVE  Beating'
    <3>1. SUFFICES ASSUME started \in agents \ stopped, started \notin beat
                   PROVE  \E c \in Batch : WillBeat(c)'
      BY <2>1 DEF Beating
    <3>2. handler = started /\ started \in Runner
      BY <3>1 DEF HandlerNewest, TypeOK
    <3>3. CASE pendingWakes[Main] # Nothing
      <4>1. batch'[b] = Call(handler, pendingWakes, Waiting(pendingWakes), t)
        BY <2>2 DEF Begun, TypeOK
      <4>2. /\ batch'[b].by = started /\ batch'[b].all = pendingWakes
            /\ batch'[b].refused = Refuses(started)
        BY <3>2, <4>1 DEF Call
      <4>3. ~Refuses(started) /\ Active(b)'
        BY <3>1, <3>2, <4>1 DEF Refuses, Active, Call, Free, NoRunner, Runner
      <4> QED
        BY <2>1, <3>3, <4>2, <4>3 DEF WillBeat
    <3>4. ASSUME NEW c \in Batch, WillBeat(c)
          PROVE  WillBeat(c)'
      BY <2>1, <2>2, <3>4 DEF WillBeat, Begun, TypeOK, Active
    <3> QED
      BY <3>1, <3>3, <3>4 DEF Beating
  <2> QED
    BY <1>1, <1>4, <2>1, <2>2, TimerStep
<1>5. ASSUME NEW on \in BOOLEAN, Start(on)
      PROVE  Beating'
  <2>1. /\ started' = started + 1
        /\ agents' = IF on THEN agents \cup {started + 1} ELSE agents
        /\ beat' = IF on THEN beat \cup {started + 1} ELSE beat
    BY <1>5 DEF Start
  <2>2. started + 1 \notin agents
    BY WakeAssumption DEF HandlerNewest, TypeOK
  <2> QED
    BY <2>1, <2>2 DEF Beating
<1>6. ASSUME NEW r \in Runner, Stop(r)
      PROVE  Beating'
  BY <1>6 DEF Stop, Beating, WillBeat, Active
<1>7. ASSUME NEW r \in Runner, NEW on \in BOOLEAN, UpdateConfig(r, on)
      PROVE  Beating'
  <2>1. /\ UNCHANGED <<pendingWakes, batch, started, stopped>>
        /\ agents' = IF on THEN agents \cup {r} ELSE agents \ {r}
        /\ beat' = IF on THEN beat \cup {r} ELSE beat \ {r}
    BY <1>7 DEF UpdateConfig, wakeVars
  <2> QED
    BY <2>1 DEF Beating, WillBeat, Active
<1>8. ASSUME NEW r \in Runner, BeatDue(r)
      PROVE  Beating'
  <2>1. /\ UNCHANGED <<started, stopped, agents, batch>> /\ pendingWakes'[Main] # Nothing
    BY <1>2, <1>8, MainIsTarget DEF BeatDue, Priority
  <2> QED
    BY <2>1 DEF Beating
<1>9. CASE UNCHANGED vars
  BY <1>1, <1>9 DEF vars, wakeVars, runnerVars
<1> QED
  BY <1>3, <1>4, <1>5, <1>6, <1>7, <1>8, <1>9, BatchBeats DEF Next

(* The newest runner that is not stopped and has agents goes on beating.   *)
THEOREM HeartbeatsGoOn == Spec => []BeatGoesOn
<1>1. Init => Beating
  BY DEF Init, Beating
<1>2. WakeInv /\ Beating => BeatGoesOn
  BY DEF WakeInv, HandlerNewest, TypeOK, Beating, BeatGoesOn, WillBeat
<1> QED
  BY <1>1, <1>2, WakeInvInit, WakeInvStep, BeatingStep, PTL DEF Spec

(***************************************************************************)
(* One batch at a time                                                     *)
(***************************************************************************)

(* Until there is a second runner, "running" tells of the only batch.      *)
Single ==
  /\ started = 0 => \A b \in Batch : ~Active(b)
  /\ started = 1 => /\ OneBatch
                    /\ \A b \in Batch : Active(b) => running

LEMMA SingleStep ==
  ASSUME WakeInv, Single, [Next]_vars
  PROVE  Single'
<1> USE DEF WakeInv, Single, OneBatch
<1>1. ASSUME UNCHANGED <<started, batch, running>>
      PROVE  Single'
  BY <1>1 DEF Active
<1>2. CASE TimerFires
  <2>1. ASSUME NEW b \in Batch, NEW t \in Target, Begun(b, t)
        PROVE  Single'
    <3>1. started # 0 /\ started' = started
      BY <1>2, <2>1, TimerStep DEF Begun, HandlerNewest, Runner
    <3>2. started = 1 => \A c \in Batch : ~Active(c)
      BY <2>1 DEF Begun
    <3>3. /\ running' = TRUE
          /\ \A c \in Batch \ {b} : batch'[c] = batch[c]
      BY <2>1 DEF Begun, TypeOK
    <3>4. started = 1 => \A c \in Batch : Active(c)' => c = b
      BY <3>2, <3>3 DEF Active
    <3> QED
      BY <3>1, <3>3, <3>4
  <2> QED
    BY <1>1, <1>2, <2>1, TimerStep
<1>3. ASSUME NEW b \in Batch, BatchEnds(b)
      PROVE  Single'
  <2>1. Active(b) /\ UNCHANGED started
    BY <1>3, BatchStep
  <2>2. /\ \A c \in Batch \ {b} : batch'[c] = batch[c]
        /\ batch'[b] = Free \/ running' = running
    <3>1. CASE Served(b)
      BY <3>1 DEF Served, GoOn, TypeOK
    <3>2. CASE LaneBusy(b)
      BY <3>2 DEF LaneBusy, TypeOK
    <3>3. CASE HandlerThrows(b)
      BY <3>3 DEF HandlerThrows, TypeOK
    <3> QED
      BY <1>3, <3>1, <3>2, <3>3 DEF BatchEnds
  <2>3. started = 1 => \A c \in Batch : Active(c)' => c = b
    BY <2>1, <2>2 DEF Active
  <2>4. started # 0
    BY <2>1
  <2>5. started = 1 => \A c \in Batch : Active(c)' => running'
    BY <2>1, <2>2, <2>3 DEF Active
  <2> QED
    BY <2>1, <2>3, <2>4, <2>5
<1>4. ASSUME NEW on \in BOOLEAN, Start(on)
      PROVE  Single'
  <2>1. started' = started + 1 /\ UNCHANGED batch /\ started \in Nat
    BY <1>4, WakeAssumption DEF Start, TypeOK
  <2> QED
    BY <2>1 DEF Active
<1>5. CASE (\E t \in Target, p \in Asked : Requested(t, p)) \/ UNCHANGED vars
  BY <1>1, <1>5 DEF Requested, vars, wakeVars, runnerVars
<1>6. ASSUME NEW r \in Runner, NEW on \in BOOLEAN,
             Stop(r) \/ BeatDue(r) \/ UpdateConfig(r, on)
      PROVE  Single'
  BY <1>1, <1>6 DEF Stop, BeatDue, UpdateConfig, wakeVars
<1> QED
  BY <1>2, <1>3, <1>4, <1>5, <1>6 DEF Next

(* A runner's handler is never in two batches at a time, as long as it is  *)
(* the only one there has been.                                            *)
THEOREM OneBatchAtATime == Spec => []OneBatch
<1>1. Init => Single
  BY DEF Init, Single, Active
<1>2. Single => OneBatch
  BY DEF Single, OneBatch
<1> QED
  BY <1>1, <1>2, WakeInvInit, WakeInvStep, SingleStep, PTL DEF Spec

=============================================================================
