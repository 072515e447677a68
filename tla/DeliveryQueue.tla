---------------------------- MODULE DeliveryQueue ----------------------------
(***************************************************************************)
(* The write-ahead queue of outgoing messages (infra/outbound): a delivery *)
(* is a file before it is sent, and the file is removed when it has been   *)
(* sent (deliverOutboundPayloads).  A process that starts takes up what it *)
(* finds (recoverPendingDeliveries), while new deliveries already come.    *)
(* A delivery is so worked at by its own call, "live", by the recovery, or *)
(* by both; a crash stops everything but the files.  A restart is that of  *)
(* the process: of one within it, which leaves calls and perhaps a         *)
(* recovery of the life before at work, nothing is said.                   *)
(*                                                                         *)
(* A delivery has payloads, sent in order.  A payload that a hook cancels  *)
(* counts as sent.  Backoffs end at any time.  Entries written by older    *)
(* versions, which have no time of their last attempt, are left out.       *)
(***************************************************************************)
EXTENDS Naturals, SequencesExt

CONSTANTS
  Delivery,
  BestEffort,  \* deliveries that go on after a payload that fails
  Payloads,    \* how many payloads each delivery has
  MAX_RETRIES  \* 5 in the code

ASSUME DeliveryAssumption ==
  /\ BestEffort \subseteq Delivery
  /\ Payloads \in [Delivery -> Nat \ {0}] /\ MAX_RETRIES \in Nat \ {0}

Worker == {"live", "recovery"}

VARIABLES
  queue,       \* deliveries with a file in the queue
  failed,      \* those with a file in failed/
  retryCount,  \* as the file says
  order,       \* the deliveries queued so far, oldest first (enqueuedAt)
  work,        \* what a worker does with a delivery
  onError,     \* live calls that want to hear of payloads that fail
  recovery,    \* "starting", "running" or "over"
  pending,     \* entries the recovery has read and not yet taken
  sent,        \* history: how often each payload was sent: 0, 1 or more (2)
  aborted,     \* history: deliveries whose call ended with an AbortError
  troubled,    \* history: those with an attempt that failed or was cut off by a crash,
               \* or that a recovery read while they were sent
  attempts     \* history: failed attempts of recoveries, as far as written down

fileVars == <<queue, failed, retryCount, order>>
runVars == <<work, onError, recovery, pending>>
historyVars == <<sent, aborted, troubled, attempts>>
vars == <<fileVars, runVars, historyVars>>

Entry == [id : Delivery, retryCount : Nat]

Job == [pc : {"none", "sending", "acking", "failing", "saving", "moving", "over"},
        at : Nat, partial : BOOLEAN, copy : Nat]

TypeOK ==
  /\ queue \subseteq Delivery /\ failed \subseteq Delivery
  /\ retryCount \in [Delivery -> Nat]
  /\ order \in Seq(Delivery)
  /\ work \in [Worker -> [Delivery -> Job]]
  /\ onError \subseteq Delivery
  /\ recovery \in {"starting", "running", "over"}
  /\ pending \subseteq Entry
  /\ \A d \in Delivery : \A w \in Worker : work[w][d].at <= Payloads[d]
  /\ sent = [d \in Delivery |-> sent[d]]
  /\ \A d \in Delivery : sent[d] \in [1..Payloads[d] -> 0..2]
  /\ aborted \subseteq Delivery /\ troubled \subseteq Delivery
  /\ attempts \in [Delivery -> Nat]

Fresh(place) == [pc |-> place, at |-> 0, partial |-> FALSE, copy |-> 0]

Init ==
  /\ queue = {} /\ failed = {} /\ order = <<>>
  /\ retryCount = [d \in Delivery |-> 0]
  /\ work = [w \in Worker |-> [d \in Delivery |-> Fresh("none")]]
  /\ onError = {}
  /\ recovery = "starting" /\ pending = {}
  /\ sent = [d \in Delivery |-> [p \in 1..Payloads[d] |-> 0]]
  /\ aborted = {} /\ troubled = {}
  /\ attempts = [d \in Delivery |-> 0]

At(w, d, place) == work[w][d].pc = place

Become(w, d, place) == work' = [work EXCEPT ![w][d].pc = place]

Begin(w, d) == work' = [work EXCEPT ![w][d] = Fresh("sending")]

Busy(w, d) == work[w][d].pc \notin {"none", "over"}
---------------------------------------------------------------------------
(* deliverOutboundPayloads                                                 *)

(* enqueueDelivery: the rename puts the whole file there at once.          *)
Enqueue(d, listens) ==
  /\ At("live", d, "none")
  /\ queue' = queue \cup {d} /\ order' = Append(order, d)
  /\ onError' = IF listens THEN onError \cup {d} ELSE onError
  /\ Begin("live", d)
  /\ UNCHANGED <<failed, retryCount, recovery, pending, historyVars>>

(* The file cannot be written: the delivery is sent all the same, but the  *)
(* queue has nothing to do with it.                                        *)
EnqueueFails(d) ==
  /\ At("live", d, "none")
  /\ Become("live", d, "over")
  /\ UNCHANGED <<fileVars, onError, recovery, pending, historyVars>>

(* A payload is sent.                                                      *)
PayloadSent(w, d) ==
  LET n == work[w][d].at + 1 IN
  /\ At(w, d, "sending") /\ n <= Payloads[d]
  /\ work' = [work EXCEPT ![w][d].at = n]
  /\ sent' = [sent EXCEPT ![d][n] = IF @ = 2 THEN 2 ELSE @ + 1]
  /\ UNCHANGED <<fileVars, onError, recovery, pending, aborted, troubled, attempts>>

(* A payload fails, and the delivery goes on with the next; of this the    *)
(* outcome depends only if somebody listens.                               *)
PayloadFails(w, d) ==
  LET n == work[w][d].at + 1
      heard == w = "live" /\ d \in onError
  IN
  /\ At(w, d, "sending") /\ n <= Payloads[d] /\ d \in BestEffort
  /\ work' = [work EXCEPT ![w][d] =
       [@ EXCEPT !.at = n, !.partial = work[w][d].partial \/ heard]]
  /\ troubled' = troubled \cup {d}
  /\ UNCHANGED <<fileVars, onError, recovery, pending, sent, aborted, attempts>>

(* All payloads are dealt with.                                            *)
SendEnds(w, d) ==
  /\ At(w, d, "sending") /\ work[w][d].at = Payloads[d]
  /\ Become(w, d, IF work[w][d].partial THEN "failing" ELSE "acking")
  /\ UNCHANGED <<fileVars, onError, recovery, pending, historyVars>>

(* Something throws: a payload, or what comes before or after them.  The   *)
(* recovery gives up on errors that will not go away.                      *)
SendThrows(w, d) ==
  /\ At(w, d, "sending")
  /\ \/ Become(w, d, "failing")
     \/ w = "recovery" /\ Become(w, d, "moving")
  /\ troubled' = troubled \cup {d}
  /\ UNCHANGED <<fileVars, onError, recovery, pending, sent, aborted, attempts>>

(* An error named AbortError ends the call, of its caller's signal or of   *)
(* the channel's own making: for the code nothing more is to be sent.      *)
Abort(d) ==
  /\ At("live", d, "sending") /\ d \notin BestEffort
  /\ Become("live", d, "acking")
  /\ aborted' = aborted \cup {d}
  /\ UNCHANGED <<fileVars, onError, recovery, pending, sent, troubled, attempts>>

(* Mutant of Unlink: the file stays.                                       *)
UnlinkNothing(d) == queue

Unlink(d) == queue \ {d}

(* ackDelivery                                                             *)
Ack(w, d) ==
  /\ At(w, d, "acking")
  /\ queue' = Unlink(d)
  /\ Become(w, d, "over")
  /\ UNCHANGED <<failed, retryCount, order, onError, recovery, pending, historyVars>>

(* failDelivery reads the file, if it is still there ...                   *)
FailReads(w, d) ==
  /\ At(w, d, "failing")
  /\ work' = IF d \in queue
             THEN [work EXCEPT ![w][d] = [@ EXCEPT !.pc = "saving", !.copy = retryCount[d]]]
             ELSE [work EXCEPT ![w][d].pc = "over"]
  /\ UNCHANGED <<fileVars, onError, recovery, pending, historyVars>>

(* ... and writes it anew, whether it is still there or not.               *)
FailSaves(w, d) ==
  /\ At(w, d, "saving")
  /\ queue' = queue \cup {d}
  /\ retryCount' = [retryCount EXCEPT ![d] = work[w][d].copy + 1]
  /\ attempts' = IF w = "recovery" THEN [attempts EXCEPT ![d] = @ + 1] ELSE attempts
  /\ Become(w, d, "over")
  /\ UNCHANGED <<failed, order, onError, recovery, pending, sent, aborted, troubled>>

(* The disk fails.  Nobody minds, but the recovery takes an entry it can   *)
(* not remove for one it could not send.                                   *)
FileError(w, d) ==
  /\ work[w][d].pc \in {"acking", "failing", "saving", "moving"}
  /\ Become(w, d, IF w = "recovery" /\ At(w, d, "acking") THEN "failing" ELSE "over")
  /\ troubled' = troubled \cup {d}
  /\ UNCHANGED <<fileVars, onError, recovery, pending, sent, aborted, attempts>>
---------------------------------------------------------------------------
(* recoverPendingDeliveries                                                *)

(* loadPendingDeliveries finds also what is being sent just now, and skips *)
(* what it cannot read.                                                    *)
Load ==
  /\ recovery = "starting"
  /\ recovery' = "running"
  /\ \E read \in SUBSET queue :
       /\ pending' = {[id |-> d, retryCount |-> retryCount[d]] : d \in read}
       /\ troubled' = troubled \cup {d \in read : Busy("live", d)}
  /\ UNCHANGED <<fileVars, work, onError, sent, aborted, attempts>>

RecoveryIdle == recovery = "running" /\ \A d \in Delivery : ~Busy("recovery", d)

(* Mutant of Exhausted: one try more.                                      *)
MoreThanExhausted(entry) == entry.retryCount > MAX_RETRIES

Exhausted(entry) == entry.retryCount >= MAX_RETRIES

Older(d, e) == \E i, j \in DOMAIN order : order[i] = d /\ order[j] = e /\ i <= j

(* The oldest entry is given up, left for another start since its backoff  *)
(* is not over, or sent.                                                   *)
Take(entry) ==
  LET d == entry.id IN
  /\ RecoveryIdle
  /\ entry \in pending /\ \A other \in pending : Older(d, other.id)
  /\ pending' = pending \ {entry}
  /\ \/ Exhausted(entry) /\ Become("recovery", d, "moving")
     \/ ~Exhausted(entry) /\ entry.retryCount > 0 /\ UNCHANGED work
     \/ ~Exhausted(entry) /\ Begin("recovery", d)
  /\ UNCHANGED <<fileVars, onError, recovery, historyVars>>

(* Mutant of Moved: the file is removed.                                   *)
MovedNowhere(d) == UNCHANGED failed

Moved(d) == failed' = IF d \in queue THEN failed \cup {d} ELSE failed

(* moveToFailed, which fails if the file has gone.                         *)
Move(d) ==
  /\ At("recovery", d, "moving")
  /\ queue' = queue \ {d}
  /\ Moved(d)
  /\ Become("recovery", d, "over")
  /\ UNCHANGED <<retryCount, order, onError, recovery, pending, historyVars>>

(* Nothing is left, or a minute has passed.                                *)
RecoveryEnds ==
  /\ RecoveryIdle
  /\ recovery' = "over" /\ pending' = {}
  /\ UNCHANGED <<fileVars, work, onError, historyVars>>
---------------------------------------------------------------------------
(* The process ends and another one starts.                                *)
Restart ==
  /\ work' = [w \in Worker |-> [d \in Delivery |->
                Fresh(IF w = "live" /\ work[w][d].pc # "none" THEN "over" ELSE "none")]]
  /\ troubled' = troubled \cup {d \in Delivery : \E w \in Worker : Busy(w, d)}
  /\ recovery' = "starting" /\ pending' = {} /\ onError' = {}
  /\ UNCHANGED <<fileVars, sent, aborted, attempts>>
---------------------------------------------------------------------------
WorkStep(w, d) ==
  \/ PayloadSent(w, d) \/ PayloadFails(w, d) \/ SendEnds(w, d) \/ SendThrows(w, d)
  \/ Ack(w, d) \/ FailReads(w, d) \/ FailSaves(w, d) \/ FileError(w, d)

Next ==
  \/ \E d \in Delivery, listens \in BOOLEAN : Enqueue(d, listens)
  \/ \E w \in Worker, d \in Delivery : WorkStep(w, d)
  \/ \E d \in Delivery : EnqueueFails(d) \/ Abort(d) \/ Move(d)
  \/ \E entry \in pending : Take(entry)
  \/ Load \/ RecoveryEnds \/ Restart

Spec == Init /\ [][Next]_vars
---------------------------------------------------------------------------
(* What must hold of the queue                                             *)

Accepted == ToSet(order)

(* A delivery that was queued is in the queue, in failed/, or all of it    *)
(* has been sent, unless its call ended with an AbortError or its caller   *)
(* does not mind: whatever crashes in between, and though its call, a      *)
(* recovery and their retries write and remove the same file.              *)
NothingLost ==
  \A d \in Accepted \ (BestEffort \cup aborted) :
    d \in queue \cup failed \/ \A p \in 1..Payloads[d] : sent[d][p] > 0

(* A payload is sent twice only after an attempt at its delivery that      *)
(* failed, was cut off or overlapped with another: a restart does not      *)
(* repeat what was done.                                                   *)
NoNeedlessRepeat ==
  \A d \in Delivery \ troubled : \A p \in 1..Payloads[d] : sent[d][p] <= 1

(* No recovery tries for ever: an entry is given up after MAX_RETRIES      *)
(* attempts that are written down, though its own call counts in the same  *)
(* field.                                                                  *)
RetriesBounded == \A d \in Delivery : attempts[d] <= MAX_RETRIES
===========================================================================
