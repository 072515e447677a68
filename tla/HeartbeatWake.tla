---------------------------- MODULE HeartbeatWake ----------------------------
(***************************************************************************)
(* Heartbeats of the gateway.  Requests to wake an agent are gathered per  *)
(* target and handed to a handler in batches (infra/heartbeat-wake.ts);    *)
(* the handler is that of a runner, which also asks for a wake-up itself   *)
(* whenever its interval is over (startHeartbeatRunner of                  *)
(* infra/heartbeat-runner.ts).  A restart of the gateway within its        *)
(* process starts another runner, before or after it stops the old one,    *)
(* whose batches may go on or hang.                                        *)
(*                                                                         *)
(* A wake-up is known by its target and priority, the reasons of equal     *)
(* priority being treated alike.  Timers fire at any time, so that of two  *)
(* timers either may be the earlier.  What a runner does in a heartbeat is *)
(* a call with an outcome; heartbeatsEnabled is taken to be true.          *)
(***************************************************************************)
EXTENDS Naturals

CONSTANTS
  Target,   \* of wake-ups
  Main,     \* the target of a wake-up of all agents, the one of the interval
  Asked,    \* priorities of the wake-ups others ask for
  Runners,  \* bound: runners started, one after the other
  Batches   \* bound: batches at a time

ASSUME WakeAssumption ==
  /\ Main \in Target
  /\ Asked \subseteq 1..4
  /\ Runners \in Nat \ {0} /\ Batches \in Nat \ {0}

Runner == 1..Runners
Batch == 1..Batches
NoRunner == 0

(* One more than in REASON_PRIORITY.                                       *)
Retry == 1
Interval == 2
Default == 3
Action == 4
Priority == {Retry, Interval, Default, Action}
Nothing == 0

VARIABLES
  handler,      \* the runner whose handler is registered
  pendingWakes, \* the priority of what is pending for each target
  scheduled, running,
  timer,        \* "off", or the kind of the timer that is armed
  batch,        \* the batches under way: whose, what was in it, what is left, what
                \* is called for, and whether that call was refused at once
  started,      \* how many runners have been started
  stopped,      \* those that have been stopped
  beat,         \* those whose own timer is armed
  agents,       \* those that have agents with heartbeats
  due           \* history: the priority at which a target is still to be called for

wakeVars == <<handler, pendingWakes, scheduled, running, timer, batch>>
runnerVars == <<started, stopped, beat, agents>>
vars == <<wakeVars, runnerVars, due>>

Wakes == [Target -> Priority \cup {Nothing}]

Free == [by |-> NoRunner]

BatchState ==
  {Free} \cup [by : Runner, all : Wakes, todo : SUBSET Target, at : Target, refused : BOOLEAN]

TypeOK ==
  /\ handler \in Runner \cup {NoRunner}
  /\ pendingWakes \in Wakes
  /\ scheduled \in BOOLEAN /\ running \in BOOLEAN
  /\ timer \in {"off", "normal", "retry"}
  /\ batch \in [Batch -> BatchState]
  /\ started \in 0..Runners
  /\ stopped \subseteq Runner /\ beat \subseteq Runner /\ agents \subseteq Runner
  /\ due \in Wakes

Init ==
  /\ handler = NoRunner
  /\ pendingWakes = [t \in Target |-> Nothing]
  /\ scheduled = FALSE /\ running = FALSE /\ timer = "off"
  /\ batch = [b \in Batch |-> Free]
  /\ started = 0 /\ stopped = {} /\ beat = {} /\ agents = {}
  /\ due = [t \in Target |-> Nothing]

Higher(p, q) == IF p >= q THEN p ELSE q

Active(b) == batch[b] # Free

Waiting(wakes) == {t \in Target : wakes[t] # Nothing}
---------------------------------------------------------------------------
(* heartbeat-wake.ts                                                       *)

(* Mutant of Queued: the last request counts.                              *)
QueuedLast(old, new) == IF new = Nothing THEN old ELSE new

(* queuePendingWakeReason: a request never lowers the priority.            *)
Queued(old, new) == Higher(old, new)

(* schedule: a retry timer is left alone, another gives way if the new one *)
(* is due sooner.                                                          *)
Scheduled(armed, kind) ==
  CASE armed = "off" -> {kind}
    [] armed = "normal" -> {"normal", kind}
    [] armed = "retry" -> {"retry"}

(* requestHeartbeatNow                                                     *)
Request(t, p) ==
  /\ pendingWakes' = [pendingWakes EXCEPT ![t] = Queued(@, p)]
  /\ timer' \in Scheduled(timer, "normal")
  /\ due' = [due EXCEPT ![t] = Higher(@, p)]

Requested(t, p) ==
  /\ Request(t, p)
  /\ UNCHANGED <<handler, scheduled, running, batch, runnerVars>>

(* run: a runner that is stopped or has no agents refuses.                 *)
Refuses(r) == r \in stopped \/ r \notin agents

(* The next target of a batch is called for.                               *)
Call(r, all, todo, t) ==
  [by |-> r, all |-> all, todo |-> todo \ {t}, at |-> t, refused |-> Refuses(r)]

(* Mutant of UnderWay: nobody looks whether a batch is under way.          *)
NotLooked == FALSE

UnderWay == running

(* The timer of wake-ups fires: a batch is begun, unless one is under way. *)
(* There is something to put in it, by WakesWatched.                       *)
TimerFires ==
  /\ timer # "off"
  /\ IF handler = NoRunner
     THEN /\ timer' = "off" /\ scheduled' = FALSE
          /\ UNCHANGED <<pendingWakes, running, batch, due>>
     ELSE IF UnderWay
     THEN /\ timer' = timer /\ scheduled' = TRUE
          /\ UNCHANGED <<pendingWakes, running, batch, due>>
     ELSE /\ timer' = "off" /\ scheduled' = FALSE /\ running' = TRUE
          /\ pendingWakes' = [t \in Target |-> Nothing]
          /\ \E b \in Batch, t \in Waiting(pendingWakes) :
               /\ ~Active(b) /\ \A c \in 1..(b - 1) : Active(c)
               /\ batch' = [batch EXCEPT
                    ![b] = Call(handler, pendingWakes, Waiting(pendingWakes), t)]
               /\ due' = [due EXCEPT ![t] = Nothing]
  /\ UNCHANGED <<handler, runnerVars>>

(* scheduleNext, which every heartbeat ends with, whatever came of it.     *)
NextBeat(r) ==
  IF r \in stopped THEN beat
  ELSE IF r \in agents THEN beat \cup {r} ELSE beat \ {r}

(* What is called for next, or the end of the batch: finally.              *)
GoOn(b, armed) ==
  LET this == batch[b] IN
  IF this.todo # {}
  THEN \E t \in this.todo :
         /\ batch' = [batch EXCEPT ![b] = Call(this.by, this.all, this.todo, t)]
         /\ due' = IF this.by = handler THEN [due EXCEPT ![t] = Nothing] ELSE due
         /\ timer' = armed
         /\ UNCHANGED running
  ELSE /\ batch' = [batch EXCEPT ![b] = Free]
       /\ running' = FALSE
       /\ timer' \in IF scheduled \/ Waiting(pendingWakes') # {}
                     THEN Scheduled(armed, "normal") ELSE {armed}
       /\ UNCHANGED due

(* A heartbeat has run, or was skipped for good.                           *)
Served(b) ==
  /\ Active(b)
  /\ beat' = IF batch[b].refused THEN beat ELSE NextBeat(batch[b].by)
  /\ UNCHANGED pendingWakes
  /\ GoOn(b, timer)
  /\ UNCHANGED <<handler, scheduled, started, stopped, agents>>

(* The main lane is busy: the wake-up is queued again, for a second later. *)
LaneBusy(b) ==
  LET t == batch[b].at
      p == batch[b].all[t]
  IN
  /\ Active(b) /\ ~batch[b].refused
  /\ beat' = NextBeat(batch[b].by)
  /\ pendingWakes' = [pendingWakes EXCEPT ![t] = Queued(@, p)]
  /\ \E armed \in Scheduled(timer, "retry") :
       IF batch[b].todo # {}
       THEN \E u \in batch[b].todo :
              /\ batch' = [batch EXCEPT ![b] = Call(@.by, @.all, @.todo, u)]
              /\ due' = [x \in Target |-> CASE x = t -> Higher(due[t], p)
                                            [] x = u /\ batch[b].by = handler -> Nothing
                                            [] OTHER -> due[x]]
              /\ timer' = armed
              /\ UNCHANGED running
       ELSE /\ batch' = [batch EXCEPT ![b] = Free]
            /\ due' = [due EXCEPT ![t] = Higher(@, p)]
            /\ running' = FALSE
            /\ timer' \in Scheduled(armed, "normal")
  /\ UNCHANGED <<handler, scheduled, started, stopped, agents>>

(* A handler throws, other than the runner's: the whole batch is queued    *)
(* again.                                                                  *)
HandlerThrows(b) ==
  LET all == batch[b].all IN
  /\ Active(b)
  /\ pendingWakes' = [t \in Target |-> Queued(pendingWakes[t], all[t])]
  /\ batch' = [batch EXCEPT ![b] = Free]
  /\ due' = [due EXCEPT ![batch[b].at] = Higher(@, all[batch[b].at])]
  /\ running' = FALSE
  /\ \E armed \in Scheduled(timer, "retry") : timer' \in Scheduled(armed, "normal")
  /\ UNCHANGED <<handler, scheduled, runnerVars>>
---------------------------------------------------------------------------
(* heartbeat-runner.ts                                                     *)

(* What batches of a handler that is replaced hold is not promised.        *)
OnlyPendingDue == due' = pendingWakes

(* Mutant of ClearedFlags: the flags of the life before are left.          *)
LeftFlags == UNCHANGED <<running, scheduled>>

ClearedFlags == running' = FALSE /\ scheduled' = FALSE

(* What is pending when a handler comes is scheduled.                      *)
Rearmed == timer' = IF Waiting(pendingWakes) = {} THEN "off" ELSE "normal"

(* startHeartbeatRunner: setHeartbeatWakeHandler and updateConfig.         *)
Start(hasAgents) ==
  LET r == started + 1 IN
  /\ started < Runners
  /\ started' = r /\ handler' = r
  /\ ClearedFlags /\ Rearmed
  /\ OnlyPendingDue
  /\ agents' = IF hasAgents THEN agents \cup {r} ELSE agents
  /\ beat' = IF hasAgents THEN beat \cup {r} ELSE beat
  /\ UNCHANGED <<pendingWakes, batch, stopped>>

(* Mutant of Disposed: any runner takes the handler away.                  *)
DisposedAnyway(r) == handler' = NoRunner /\ OnlyPendingDue

(* The disposer: only the handler of this very registration is removed.    *)
Disposed(r) ==
  IF handler = r THEN handler' = NoRunner /\ OnlyPendingDue ELSE UNCHANGED <<handler, due>>

(* cleanup                                                                 *)
Stop(r) ==
  /\ r <= started /\ r \notin stopped
  /\ stopped' = stopped \cup {r} /\ beat' = beat \ {r}
  /\ Disposed(r)
  /\ UNCHANGED <<pendingWakes, scheduled, running, timer, batch, started, agents>>

(* updateConfig, which may take all agents away or give some back.         *)
UpdateConfig(r, hasAgents) ==
  /\ r <= started /\ r \notin stopped
  /\ agents' = IF hasAgents THEN agents \cup {r} ELSE agents \ {r}
  /\ beat' = IF hasAgents THEN beat \cup {r} ELSE beat \ {r}
  /\ UNCHANGED <<wakeVars, started, stopped, due>>

(* The interval of a runner is over.                                       *)
BeatDue(r) ==
  /\ r \in beat
  /\ beat' = beat \ {r}
  /\ Request(Main, Interval)
  /\ UNCHANGED <<handler, scheduled, running, batch, started, stopped, agents>>
---------------------------------------------------------------------------
BatchEnds(b) == Served(b) \/ LaneBusy(b) \/ HandlerThrows(b)

Next ==
  \/ \E t \in Target, p \in Asked : Requested(t, p)
  \/ TimerFires
  \/ \E b \in Batch : BatchEnds(b)
  \/ \E on \in BOOLEAN : Start(on)
  \/ \E r \in Runner : Stop(r) \/ BeatDue(r) \/ \E on \in BOOLEAN : UpdateConfig(r, on)

Spec == Init /\ [][Next]_vars
---------------------------------------------------------------------------
(* What must hold of the heartbeats                                        *)

(* A wake-up that is pending while a handler is there has a timer, through *)
(* restarts, retries and timers that find a batch under way; and what the  *)
(* timer may have to wait for is a batch of this very handler, not one     *)
(* that was interrupted by a restart and may never end.  Nor is the timer  *)
(* ever armed for nothing.                                                 *)
WakesWatched ==
  /\ handler # NoRunner =>
       /\ Waiting(pendingWakes) # {} => timer # "off"
       /\ running => \E b \in Batch : batch[b].by = handler
  /\ timer # "off" => Waiting(pendingWakes) # {}

(* No request is lost or lowered in priority while its handler stays: the  *)
(* target is pending, or yet to be called for in a batch, at the highest   *)
(* priority that was asked for since it was last called for and not busy.  *)
WakesKept ==
  \A t \in Target :
    \/ pendingWakes[t] >= due[t]
    \/ \E b \in Batch : Active(b) /\ t \in batch[b].todo /\ batch[b].all[t] >= due[t]

(* The newest runner goes on asking for heartbeats: its timer is armed, or *)
(* the heartbeat that will arm it is on its way.                           *)
BeatGoesOn ==
  LET r == started IN
  r \in agents \ stopped =>
    \/ r \in beat
    \/ handler = r /\ pendingWakes[Main] # Nothing
    \/ \E b \in Batch : /\ Active(b) /\ batch[b].by = r
                        /\ ~batch[b].refused \/ batch[b].todo # {}

(* The handler is never called twice at a time, as long as it has not been *)
(* replaced: with one runner, one batch is under way.                      *)
OneBatch ==
  started = 1 => \A b, c \in Batch : Active(b) /\ Active(c) => b = c
===========================================================================
