------------------------- MODULE DeliveryQueueProofs -------------------------
(***************************************************************************)
(* That no delivery is lost, that none is repeated for nothing, and that   *)
(* recoveries give up: for any deliveries, payloads and MAX_RETRIES.       *)
(***************************************************************************)
EXTENDS DeliveryQueue, TLAPS

Jobs == [Worker -> [Delivery -> Job]]

Place == {"none", "sending", "acking", "failing", "saving", "moving", "over"}

(* A step of a worker changes its own job only.                            *)
Others(w, d) ==
  \A v \in Worker, e \in Delivery : v # w \/ e # d => work'[v][e] = work[v][e]

LEMMA JobOf ==
  ASSUME TypeOK, NEW w \in Worker, NEW d \in Delivery
  PROVE  /\ work[w][d] \in Job /\ work[w][d].at <= Payloads[d]
         /\ Payloads[d] \in Nat /\ work[w][d].at \in Nat /\ work[w][d].copy \in Nat
  BY DeliveryAssumption DEF TypeOK, Job

SentTable(table) ==
  /\ table = [d \in Delivery |-> table[d]]
  /\ \A d \in Delivery : table[d] \in [1..Payloads[d] -> 0..2]

LEMMA NewRow ==
  ASSUME NEW S, NEW T, NEW f \in [S -> T], NEW x \in S, NEW y \in T
  PROVE  /\ [f EXCEPT ![x] = y] \in [S -> T] /\ [f EXCEPT ![x] = y][x] = y
         /\ \A z \in S : z # x => [f EXCEPT ![x] = y][z] = f[z]
  OBVIOUS

LEMMA NewJob ==
  ASSUME work \in Jobs, NEW w \in Worker, NEW d \in Delivery, NEW job \in Job,
         work' = [work EXCEPT ![w][d] = job]
  PROVE  work' \in Jobs /\ Others(w, d) /\ work'[w][d] = job
<1> HIDE DEF Job
<1> QED
  BY DEF Jobs, Others

LEMMA BecomeIs ==
  ASSUME TypeOK, NEW w \in Worker, NEW d \in Delivery, NEW place \in Place,
         Become(w, d, place)
  PROVE  /\ work' \in Jobs /\ Others(w, d)
         /\ work'[w][d].pc = place /\ work'[w][d].at = work[w][d].at
         /\ work'[w][d].partial = work[w][d].partial /\ work'[w][d].copy = work[w][d].copy
<1>1. work \in Jobs
  BY DEF TypeOK, Jobs
<1>2. work' = [work EXCEPT ![w][d].pc = place]
  BY DEF Become
<1> QED
  BY <1>1, <1>2 DEF Others, Jobs, Job, Place

LEMMA FreshIs ==
  ASSUME NEW place \in Place
  PROVE  /\ Fresh(place) \in Job /\ Fresh(place).pc = place
         /\ Fresh(place).at = 0 /\ Fresh(place).partial = FALSE /\ Fresh(place).copy = 0
  BY DEF Fresh, Job, Place

LEMMA BeginIs ==
  ASSUME TypeOK, NEW w \in Worker, NEW d \in Delivery, Begin(w, d)
  PROVE  /\ work' \in Jobs /\ Others(w, d)
         /\ work'[w][d] = Fresh("sending")
<1>1. work \in Jobs
  BY DEF TypeOK, Jobs
<1>2. work' = [work EXCEPT ![w][d] = Fresh("sending")] /\ Fresh("sending") \in Job
  BY FreshIs DEF Begin, Place
<1> HIDE DEF Fresh
<1> QED
  BY <1>1, <1>2, NewJob

(* What the steps that are sent a payload do to the job.                   *)
LEMMA SentIs ==
  ASSUME TypeOK, NEW w \in Worker, NEW d \in Delivery, PayloadSent(w, d)
  PROVE  LET n == work[w][d].at + 1 IN
         /\ work' \in Jobs /\ Others(w, d)
         /\ n \in 1..Payloads[d]
         /\ work'[w][d].at = n /\ work'[w][d].pc = "sending"
         /\ work'[w][d].partial = work[w][d].partial
         /\ SentTable(sent')
         /\ sent'[d][n] > 0
         /\ sent[d][n] = 0 => sent'[d][n] = 1
         /\ \A e \in Delivery : \A p \in 1..Payloads[e] :
              e # d \/ p # n => sent'[e][p] = sent[e][p]
<1> DEFINE n == work[w][d].at + 1
<1>1. n \in 1..Payloads[d]
  BY JobOf DEF PayloadSent
<1>2. /\ work' = [work EXCEPT ![w][d].at = n]
      /\ At(w, d, "sending")
      /\ sent' = [sent EXCEPT ![d][n] = IF @ = 2 THEN 2 ELSE @ + 1]
  BY DEF PayloadSent
<1>3. /\ work' \in Jobs /\ Others(w, d)
      /\ work'[w][d].at = n /\ work'[w][d].pc = "sending"
      /\ work'[w][d].partial = work[w][d].partial
  <2> HIDE DEF n
  <2>1. n \in Nat /\ work \in Jobs
    BY <1>1 DEF TypeOK, Jobs
  <2> QED
    BY <1>2, <2>1 DEF Jobs, Job, Others, At
<1> DEFINE more == IF sent[d][n] = 2 THEN 2 ELSE sent[d][n] + 1
<1>4. SentTable(sent') /\ sent'[d][n] > 0 /\ (sent[d][n] = 0 => sent'[d][n] = 1)
  <2>1. SentTable(sent) /\ sent[d] \in [1..Payloads[d] -> 0..2]
    BY DEF TypeOK, SentTable
  <2>2. sent[d][n] \in 0..2
    BY <1>1, <2>1
  <2>3. more \in 1..2 /\ (sent[d][n] = 0 => more = 1)
    BY <2>2
  <2>4. sent' = [sent EXCEPT ![d] = [sent[d] EXCEPT ![n] = more]]
    BY <1>2, <2>1 DEF SentTable
  <2> HIDE DEF more, n
  <2>5. /\ [sent[d] EXCEPT ![n] = more] \in [1..Payloads[d] -> 0..2]
        /\ [sent[d] EXCEPT ![n] = more][n] = more
    <3>1. more \in 0..2
      BY <2>3
    <3> QED
      BY <1>1, <2>1, <3>1, NewRow
  <2>6. /\ sent'[d] = [sent[d] EXCEPT ![n] = more]
        /\ \A e \in Delivery : e # d => sent'[e] = sent[e]
        /\ sent' = [e \in Delivery |-> sent'[e]]
    BY <2>1, <2>4 DEF SentTable
  <2> QED
    BY <2>1, <2>3, <2>5, <2>6 DEF SentTable
<1>5. \A e \in Delivery : \A p \in 1..Payloads[e] : e # d \/ p # n => sent'[e][p] = sent[e][p]
  BY <1>1, <1>2 DEF TypeOK, SentTable
<1> QED
  BY <1>1, <1>3, <1>4, <1>5

LEMMA FailsIs ==
  ASSUME TypeOK, NEW w \in Worker, NEW d \in Delivery, PayloadFails(w, d)
  PROVE  /\ work' \in Jobs /\ Others(w, d)
         /\ work'[w][d].at \in 1..Payloads[d] /\ work'[w][d].pc = "sending"
<1> DEFINE n == work[w][d].at + 1
           partly == work[w][d].partial \/ (w = "live" /\ d \in onError)
           job == [work[w][d] EXCEPT !.at = n, !.partial = partly]
<1>1. n \in 1..Payloads[d]
  BY JobOf DEF PayloadFails
<1>2. work[w][d] \in Job /\ work \in Jobs /\ work[w][d].pc = "sending"
  BY DEF TypeOK, Jobs, PayloadFails, At
<1>3. partly \in BOOLEAN /\ n \in Nat
  BY <1>1, <1>2 DEF Job
<1>4. work' = [work EXCEPT ![w][d] = job]
  BY DEF PayloadFails
<1>5. job \in Job /\ job.at = n /\ job.pc = "sending"
  <2> HIDE DEF n, partly
  <2> QED
    BY <1>2, <1>3 DEF Job
<1> HIDE DEF job
<1> QED
  BY <1>1, <1>2, <1>4, <1>5, NewJob

LEMMA ReadsIs ==
  ASSUME TypeOK, NEW w \in Worker, NEW d \in Delivery, FailReads(w, d)
  PROVE  /\ work' \in Jobs /\ Others(w, d)
         /\ work'[w][d].at = work[w][d].at /\ work'[w][d].partial = work[w][d].partial
         /\ \/ /\ d \in queue /\ work'[w][d].pc = "saving"
               /\ work'[w][d].copy = retryCount[d]
            \/ d \notin queue /\ work'[w][d].pc = "over"
<1>1. work \in Jobs /\ retryCount[d] \in Nat
  BY DEF TypeOK, Jobs
<1>2. CASE d \in queue
  <2> DEFINE job == [work[w][d] EXCEPT !.pc = "saving", !.copy = retryCount[d]]
  <2>1. work' = [work EXCEPT ![w][d] = job] /\ work[w][d] \in Job
    BY <1>1, <1>2 DEF FailReads, Jobs
  <2>2. /\ job \in Job /\ job.pc = "saving" /\ job.copy = retryCount[d]
        /\ job.at = work[w][d].at /\ job.partial = work[w][d].partial
    BY <1>1, <2>1 DEF Job
  <2> HIDE DEF job
  <2> QED
    BY <1>1, <1>2, <2>1, <2>2, NewJob
<1>3. CASE d \notin queue
  <2>1. work' = [work EXCEPT ![w][d].pc = "over"]
    BY <1>3 DEF FailReads
  <2> QED
    BY <1>1, <1>3, <2>1 DEF Jobs, Job, Others
<1> QED
  BY <1>2, <1>3

(***************************************************************************)
(* Types                                                                   *)
(***************************************************************************)

WorkOK == work \in Jobs /\ \A d \in Delivery, w \in Worker : work[w][d].at <= Payloads[d]

LEMMA OneJobOK ==
  ASSUME TypeOK, NEW w \in Worker, NEW d \in Delivery,
         work' \in Jobs, Others(w, d), work'[w][d].at <= Payloads[d]
  PROVE  WorkOK'
<1>1. \A e \in Delivery, v \in Worker : work[v][e].at <= Payloads[e]
  BY DEF TypeOK
<1>2. \A e \in Delivery, v \in Worker :
        v # w \/ e # d => work'[v][e].at = work[v][e].at
  BY DEF Others
<1> HIDE DEF Jobs, Job
<1> QED
  BY <1>1, <1>2 DEF WorkOK

LEMMA BecomeOK ==
  ASSUME TypeOK, NEW w \in Worker, NEW d \in Delivery, NEW place \in Place,
         Become(w, d, place)
  PROVE  WorkOK'
  BY BecomeIs, OneJobOK, JobOf

LEMMA BeginOK ==
  ASSUME TypeOK, NEW w \in Worker, NEW d \in Delivery, Begin(w, d)
  PROVE  WorkOK'
<1>1. 0 <= Payloads[d]
  BY DeliveryAssumption
<1>2. Fresh("sending").at = 0
  BY FreshIs DEF Place
<1> QED
  BY <1>1, <1>2, BeginIs, OneJobOK

LEMMA InitType == Init => TypeOK
<1> SUFFICES ASSUME Init PROVE TypeOK
  OBVIOUS
<1>1. Fresh("none") \in Job /\ Fresh("none").at = 0
  BY FreshIs DEF Place
<1>2. work \in [Worker -> [Delivery -> Job]]
      /\ \A d \in Delivery, w \in Worker : work[w][d].at = 0
  <2> HIDE DEF Fresh, Job
  <2> QED
    BY <1>1 DEF Init
<1>3. \A d \in Delivery : Payloads[d] \in Nat
  BY DeliveryAssumption
<1>4. \A d \in Delivery : \A w \in Worker : work[w][d].at <= Payloads[d]
  BY <1>2, <1>3
<1>5. /\ sent = [d \in Delivery |-> sent[d]]
      /\ \A d \in Delivery : sent[d] \in [1..Payloads[d] -> 0..2]
  BY <1>3 DEF Init
<1>6. order \in Seq(Delivery)
  BY DEF Init
<1> QED
  BY <1>2, <1>4, <1>5, <1>6 DEF Init, TypeOK

LEMMA WorkStepType ==
  ASSUME TypeOK, NEW w \in Worker, NEW d \in Delivery, WorkStep(w, d)
  PROVE  TypeOK'
<1> USE DEF fileVars, historyVars
<1>1. CASE PayloadSent(w, d)
  <2>1. WorkOK'
    BY <1>1, SentIs, OneJobOK, JobOf
  <2>2. SentTable(sent')
    BY <1>1, SentIs
  <2> QED
    BY <1>1, <2>1, <2>2 DEF PayloadSent, TypeOK, WorkOK, Jobs, SentTable
<1>2. CASE PayloadFails(w, d)
  <2>1. WorkOK'
    BY <1>2, FailsIs, OneJobOK, JobOf
  <2> QED
    BY <1>2, <2>1 DEF PayloadFails, TypeOK, WorkOK, Jobs
<1>3. CASE SendEnds(w, d)
  <2>1. WorkOK'
    BY <1>3, BecomeOK DEF SendEnds, Place
  <2> QED
    BY <1>3, <2>1 DEF SendEnds, TypeOK, WorkOK, Jobs
<1>4. CASE SendThrows(w, d)
  <2>1. WorkOK'
    BY <1>4, BecomeOK DEF SendThrows, Place
  <2> QED
    BY <1>4, <2>1 DEF SendThrows, TypeOK, WorkOK, Jobs
<1>5. CASE Ack(w, d)
  <2>1. WorkOK'
    BY <1>5, BecomeOK DEF Ack, Place
  <2> QED
    BY <1>5, <2>1 DEF Ack, Unlink, TypeOK, WorkOK, Jobs
<1>6. CASE FailReads(w, d)
  <2>1. WorkOK'
    BY <1>6, ReadsIs, OneJobOK, JobOf
  <2> QED
    BY <1>6, <2>1 DEF FailReads, TypeOK, WorkOK, Jobs
<1>7. CASE FailSaves(w, d)
  <2>1. WorkOK'
    BY <1>7, BecomeOK DEF FailSaves, Place
  <2>2. work[w][d].copy \in Nat
    BY JobOf
  <2>3. retryCount' \in [Delivery -> Nat] /\ attempts' \in [Delivery -> Nat]
    BY <1>7, <2>2 DEF FailSaves, TypeOK
  <2> QED
    BY <1>7, <2>1, <2>3 DEF FailSaves, TypeOK, WorkOK, Jobs
<1>8. CASE FileError(w, d)
  <2>1. WorkOK'
    BY <1>8, BecomeOK DEF FileError, Place
  <2> QED
    BY <1>8, <2>1 DEF FileError, TypeOK, WorkOK, Jobs
<1> QED
  BY <1>1, <1>2, <1>3, <1>4, <1>5, <1>6, <1>7, <1>8 DEF WorkStep

LEMMA RestartIs ==
  ASSUME TypeOK, Restart
  PROVE  /\ WorkOK'
         /\ \A w \in Worker, d \in Delivery :
              /\ work'[w][d].at = 0 /\ work'[w][d].partial = FALSE
              /\ work'[w][d].pc =
                   IF w = "live" /\ work[w][d].pc # "none" THEN "over" ELSE "none"
<1> DEFINE place(w, d) == IF w = "live" /\ work[w][d].pc # "none" THEN "over" ELSE "none"
<1>1. work' = [w \in Worker |-> [d \in Delivery |-> Fresh(place(w, d))]]
  BY DEF Restart
<1>2. \A w \in Worker, d \in Delivery : place(w, d) \in Place
  BY DEF Place
<1> HIDE DEF place
<1>3. \A w \in Worker, d \in Delivery :
        /\ Fresh(place(w, d)) \in Job /\ Fresh(place(w, d)).pc = place(w, d)
        /\ Fresh(place(w, d)).at = 0 /\ Fresh(place(w, d)).partial = FALSE
  BY <1>2, FreshIs
<1>4. \A d \in Delivery : 0 <= Payloads[d]
  BY DeliveryAssumption
<1>5. \A w \in Worker, d \in Delivery : work'[w][d] = Fresh(place(w, d))
  BY <1>1
<1>6. work' \in Jobs
  <2> HIDE DEF Job, Fresh
  <2> QED
    BY <1>1, <1>3 DEF Jobs
<1>7. WorkOK'
  BY <1>3, <1>4, <1>5, <1>6 DEF WorkOK
<1> QED
  BY <1>3, <1>5, <1>7 DEF place

LEMMA NextType == TypeOK /\ [Next]_vars => TypeOK'
<1> SUFFICES ASSUME TypeOK, [Next]_vars PROVE TypeOK'
  OBVIOUS
<1> USE DEF fileVars, runVars, historyVars
<1>1. ASSUME NEW d \in Delivery, NEW listens \in BOOLEAN, Enqueue(d, listens)
      PROVE  TypeOK'
  <2>1. WorkOK'
    BY <1>1, BeginOK DEF Enqueue, Worker
  <2>2. order' \in Seq(Delivery)
    BY <1>1 DEF Enqueue, TypeOK
  <2>3. onError' \subseteq Delivery /\ queue' \subseteq Delivery
    BY <1>1 DEF Enqueue, TypeOK
  <2> QED
    BY <1>1, <2>1, <2>2, <2>3 DEF Enqueue, TypeOK, WorkOK, Jobs
<1>2. ASSUME NEW d \in Delivery, EnqueueFails(d) PROVE TypeOK'
  <2>1. WorkOK'
    BY <1>2, BecomeOK DEF EnqueueFails, Worker, Place
  <2> QED
    BY <1>2, <2>1 DEF EnqueueFails, TypeOK, WorkOK, Jobs
<1>3. ASSUME NEW d \in Delivery, Abort(d) PROVE TypeOK'
  <2>1. WorkOK'
    BY <1>3, BecomeOK DEF Abort, Worker, Place
  <2> QED
    BY <1>3, <2>1 DEF Abort, TypeOK, WorkOK, Jobs
<1>4. ASSUME NEW d \in Delivery, Move(d) PROVE TypeOK'
  <2>1. WorkOK'
    BY <1>4, BecomeOK DEF Move, Worker, Place
  <2>2. failed' \subseteq Delivery /\ queue' \subseteq Delivery
    BY <1>4 DEF Move, Moved, TypeOK
  <2> QED
    BY <1>4, <2>1, <2>2 DEF Move, TypeOK, WorkOK, Jobs
<1>5. ASSUME NEW entry \in pending, Take(entry) PROVE TypeOK'
  <2>1. entry.id \in Delivery
    BY DEF TypeOK, Entry
  <2>2. WorkOK'
    <3>1. CASE Become("recovery", entry.id, "moving")
      BY <2>1, <3>1, BecomeOK DEF Worker, Place
    <3>2. CASE UNCHANGED work
      BY <3>2 DEF TypeOK, WorkOK, Jobs
    <3>3. CASE Begin("recovery", entry.id)
      BY <2>1, <3>3, BeginOK DEF Worker
    <3> QED
      BY <1>5, <3>1, <3>2, <3>3 DEF Take
  <2> QED
    BY <1>5, <2>2 DEF Take, TypeOK, WorkOK, Jobs
<1>6. CASE Load
  <2>1. pending' \subseteq Entry
    BY <1>6 DEF Load, TypeOK, Entry
  <2>2. troubled' \subseteq Delivery /\ recovery' = "running"
    BY <1>6 DEF Load, TypeOK
  <2> QED
    BY <1>6, <2>1, <2>2 DEF Load, TypeOK
<1>7. CASE RecoveryEnds
  BY <1>7 DEF RecoveryEnds, TypeOK
<1>8. CASE Restart
  <2>1. WorkOK'
    BY <1>8, RestartIs
  <2> QED
    BY <1>8, <2>1 DEF Restart, TypeOK, WorkOK, Jobs
<1>9. CASE UNCHANGED vars
  BY <1>9 DEF vars, TypeOK
<1> QED
  BY <1>1, <1>2, <1>3, <1>4, <1>5, <1>6, <1>7, <1>8, <1>9, WorkStepType DEF Next

(* Every state is of its type.                                             *)
THEOREM TypeCorrect == Spec => []TypeOK
<1>1. Init => TypeOK
  BY InitType
<1>2. TypeOK /\ [Next]_vars => TypeOK'
  BY NextType
<1> QED
  BY <1>1, <1>2, PTL DEF Spec

(* The steps that change the job of a worker.                              *)
JobStep(w, d) ==
  \/ WorkStep(w, d)
  \/ w = "live" /\ \/ \E listens \in BOOLEAN : Enqueue(d, listens)
                   \/ EnqueueFails(d) \/ Abort(d)
  \/ w = "recovery" /\ \/ Move(d)
                       \/ \E entry \in pending : entry.id = d /\ Take(entry)
  \/ Restart

LEMMA OnlyJobSteps ==
  ASSUME TypeOK, [Next]_vars, NEW w \in Worker, NEW d \in Delivery, ~JobStep(w, d)
  PROVE  work'[w][d] = work[w][d]
<1> USE DEF fileVars, runVars, historyVars
<1>1. ASSUME NEW v \in Worker, NEW e \in Delivery, WorkStep(v, e)
      PROVE  work'[w][d] = work[w][d]
  <2>1. v # w \/ e # d
    BY <1>1 DEF JobStep
  <2>2. Others(v, e)
    BY <1>1, BecomeIs, ReadsIs, SentIs, FailsIs
    DEF WorkStep, SendEnds, SendThrows, Ack, FailSaves, FileError, Place
  <2> QED
    BY <2>1, <2>2 DEF Others
<1>2. ASSUME NEW e \in Delivery,
             (\E listens \in BOOLEAN : Enqueue(e, listens)) \/ EnqueueFails(e) \/ Abort(e)
      PROVE  work'[w][d] = work[w][d]
  <2>1. "live" # w \/ e # d
    BY <1>2 DEF JobStep
  <2>2. Others("live", e)
    BY <1>2, BecomeIs, BeginIs DEF Enqueue, EnqueueFails, Abort, Place, Worker
  <2> QED
    BY <2>1, <2>2 DEF Others, Worker
<1>3. ASSUME NEW e \in Delivery, Move(e)
      PROVE  work'[w][d] = work[w][d]
  <2>1. "recovery" # w \/ e # d
    BY <1>3 DEF JobStep
  <2>2. Others("recovery", e)
    BY <1>3, BecomeIs DEF Move, Place, Worker
  <2> QED
    BY <2>1, <2>2 DEF Others, Worker
<1>4. ASSUME NEW entry \in pending, Take(entry)
      PROVE  work'[w][d] = work[w][d]
  <2>1. entry.id \in Delivery
    BY DEF TypeOK, Entry
  <2>2. "recovery" # w \/ entry.id # d
    BY <1>4 DEF JobStep
  <2>3. Others("recovery", entry.id) \/ UNCHANGED work
    BY <1>4, <2>1, BecomeIs, BeginIs DEF Take, Place, Worker
  <2> QED
    BY <2>1, <2>2, <2>3 DEF Others, Worker
<1>5. CASE Load \/ RecoveryEnds \/ UNCHANGED vars
  BY <1>5 DEF Load, RecoveryEnds, vars
<1>6. ~Restart
  BY DEF JobStep
<1> QED
  BY <1>1, <1>2, <1>3, <1>4, <1>5, <1>6 DEF Next

(* Which steps change what.                                                *)
OnlyBy ==
  /\ aborted \subseteq aborted' /\ troubled \subseteq troubled' /\ failed \subseteq failed'
  /\ UNCHANGED order \/ \E d \in Delivery, listens \in BOOLEAN : Enqueue(d, listens)
  /\ \/ UNCHANGED <<retryCount, attempts>>
     \/ \E w \in Worker, d \in Delivery : FailSaves(w, d)
  /\ \/ queue \subseteq queue' \/ \E d \in Delivery : Move(d)
     \/ \E w \in Worker, d \in Delivery : Ack(w, d)
  /\ \/ queue' \subseteq queue
     \/ \E d \in Delivery, listens \in BOOLEAN : Enqueue(d, listens)
     \/ \E w \in Worker, d \in Delivery : FailSaves(w, d)
  /\ pending' \subseteq pending \/ Load
  /\ UNCHANGED sent \/ \E w \in Worker, d \in Delivery : PayloadSent(w, d)

LEMMA WhoChanges == [Next]_vars => OnlyBy
<1> SUFFICES ASSUME [Next]_vars PROVE OnlyBy
  OBVIOUS
<1> USE DEF fileVars, runVars, historyVars
<1>1. ASSUME NEW w \in Worker, NEW d \in Delivery, WorkStep(w, d)
      PROVE  OnlyBy
  <2>1. CASE PayloadSent(w, d)
    BY <2>1 DEF OnlyBy, PayloadSent
  <2>2. CASE PayloadFails(w, d)
    BY <2>2 DEF OnlyBy, PayloadFails
  <2>3. CASE SendEnds(w, d)
    BY <2>3 DEF OnlyBy, SendEnds
  <2>4. CASE SendThrows(w, d)
    BY <2>4 DEF OnlyBy, SendThrows
  <2>5. CASE Ack(w, d)
    BY <2>5 DEF OnlyBy, Ack, Unlink
  <2>6. CASE FailReads(w, d)
    BY <2>6 DEF OnlyBy, FailReads
  <2>7. CASE FailSaves(w, d)
    BY <2>7 DEF OnlyBy, FailSaves
  <2>8. CASE FileError(w, d)
    BY <2>8 DEF OnlyBy, FileError
  <2> QED
    BY <1>1, <2>1, <2>2, <2>3, <2>4, <2>5, <2>6, <2>7, <2>8 DEF WorkStep
<1>2. ASSUME NEW d \in Delivery, NEW listens \in BOOLEAN, Enqueue(d, listens)
      PROVE  OnlyBy
  BY <1>2 DEF OnlyBy, Enqueue
<1>3. ASSUME NEW d \in Delivery, EnqueueFails(d) PROVE OnlyBy
  BY <1>3 DEF OnlyBy, EnqueueFails
<1>4. ASSUME NEW d \in Delivery, Abort(d) PROVE OnlyBy
  BY <1>4 DEF OnlyBy, Abort
<1>5. ASSUME NEW d \in Delivery, Move(d) PROVE OnlyBy
  BY <1>5 DEF OnlyBy, Move, Moved
<1>6. ASSUME NEW entry \in pending, Take(entry) PROVE OnlyBy
  BY <1>6 DEF OnlyBy, Take
<1>7. CASE Load
  BY <1>7 DEF OnlyBy, Load
<1>8. CASE RecoveryEnds
  BY <1>8 DEF OnlyBy, RecoveryEnds
<1>9. CASE Restart
  BY <1>9 DEF OnlyBy, Restart
<1>10. CASE UNCHANGED vars
  BY <1>10 DEF OnlyBy, vars
<1> QED
  BY <1>1, <1>2, <1>3, <1>4, <1>5, <1>6, <1>7, <1>8, <1>9, <1>10 DEF Next

(***************************************************************************)
(* Nothing is lost.  A worker that has come so far with a delivery whose   *)
(* payloads must not fail has sent so much of it, and it removes the file  *)
(* only when it has come to the end, or at an AbortError.                  *)
(***************************************************************************)

Progress ==
  \A w \in Worker, d \in Delivery \ BestEffort :
    \A p \in 1..work[w][d].at : sent[d][p] > 0

AckedAtTheEnd ==
  \A w \in Worker, d \in Delivery \ (BestEffort \cup aborted) :
    At(w, d, "acking") => work[w][d].at = Payloads[d]

LostInv == Progress /\ AckedAtTheEnd /\ NothingLost

LEMMA SentStays ==
  ASSUME TypeOK, [Next]_vars
  PROVE  \A d \in Delivery : \A p \in 1..Payloads[d] : sent[d][p] > 0 => sent'[d][p] > 0
<1>1. ASSUME NEW w \in Worker, NEW d \in Delivery, PayloadSent(w, d)
      PROVE  \A e \in Delivery : \A p \in 1..Payloads[e] : sent[e][p] > 0 => sent'[e][p] > 0
  BY <1>1, SentIs
<1>2. CASE UNCHANGED sent
  BY <1>2
<1> QED
  BY <1>1, <1>2, WhoChanges DEF OnlyBy

(* What has been sent for a job stays sent, so Progress is a matter of     *)
(* the jobs that change.                                                   *)
LEMMA ProgressOf ==
  ASSUME TypeOK, [Next]_vars, Progress, NEW w \in Worker, NEW d \in Delivery \ BestEffort,
         work'[w][d].at = work[w][d].at \/ work'[w][d].at = 0
  PROVE  \A p \in 1..work'[w][d].at : sent'[d][p] > 0
<1>1. CASE work'[w][d].at = work[w][d].at
  <2>1. \A p \in 1..work[w][d].at : p \in 1..Payloads[d] /\ sent[d][p] > 0
    BY JobOf DEF Progress
  <2> QED
    BY <1>1, <2>1, SentStays
<1>2. CASE work'[w][d].at = 0
  BY <1>2
<1> QED
  BY <1>1, <1>2

(* Only a payload that is sent, or one that fails, takes a job further.    *)
LEMMA AtStays ==
  ASSUME TypeOK, [Next]_vars, NEW w \in Worker, NEW d \in Delivery,
         ~PayloadSent(w, d), ~PayloadFails(w, d)
  PROVE  work'[w][d].at = work[w][d].at \/ work'[w][d].at = 0
<1>1. CASE WorkStep(w, d)
  BY <1>1, BecomeIs, ReadsIs
  DEF WorkStep, SendEnds, SendThrows, Ack, FailSaves, FileError, Place
<1>2. Fresh("sending").at = 0
  BY FreshIs DEF Place
<1>3. ASSUME NEW place \in Place, Become(w, d, place) \/ Begin(w, d) \/ UNCHANGED work
      PROVE  work'[w][d].at = work[w][d].at \/ work'[w][d].at = 0
  BY <1>2, <1>3, BecomeIs, BeginIs
<1>4. CASE /\ w = "live"
           /\ (\E listens \in BOOLEAN : Enqueue(d, listens)) \/ EnqueueFails(d) \/ Abort(d)
  BY <1>3, <1>4 DEF Enqueue, EnqueueFails, Abort, Place
<1>5. CASE /\ w = "recovery"
           /\ Move(d) \/ \E entry \in pending : entry.id = d /\ Take(entry)
  BY <1>3, <1>5 DEF Take, Move, Place
<1>6. CASE Restart
  BY <1>6, RestartIs
<1> QED
  BY <1>1, <1>4, <1>5, <1>6, OnlyJobSteps DEF JobStep

LEMMA NextProgress ==
  ASSUME TypeOK, Progress, [Next]_vars
  PROVE  Progress'
<1> SUFFICES ASSUME NEW w \in Worker, NEW d \in Delivery \ BestEffort
             PROVE  \A p \in 1..work'[w][d].at : sent'[d][p] > 0
  BY DEF Progress
<1>1. CASE PayloadSent(w, d)
  <2> DEFINE n == work[w][d].at + 1
  <2>1. /\ work'[w][d].at = n /\ n \in 1..Payloads[d] /\ sent'[d][n] > 0
        /\ work[w][d].at \in Nat
    BY <1>1, SentIs, JobOf
  <2>2. \A p \in 1..work[w][d].at : sent'[d][p] > 0
    <3>1. \A p \in 1..work[w][d].at : p \in 1..Payloads[d] /\ sent[d][p] > 0
      BY JobOf DEF Progress
    <3> QED
      BY <3>1, SentStays
  <2>3. ASSUME NEW p \in 1..n PROVE p = n \/ p \in 1..work[w][d].at
    BY <2>1
  <2> QED
    BY <2>1, <2>2, <2>3
<1>2. CASE ~PayloadSent(w, d)
  <2>1. ~PayloadFails(w, d)
    BY DEF PayloadFails
  <2> QED
    BY <1>2, <2>1, AtStays, ProgressOf
<1> QED
  BY <1>1, <1>2

LEMMA NextAckedAtTheEnd ==
  ASSUME TypeOK, AckedAtTheEnd, [Next]_vars
  PROVE  AckedAtTheEnd'
<1> USE DEF fileVars, runVars, historyVars
<1>1. aborted \subseteq aborted'
  BY WhoChanges DEF OnlyBy
<1> SUFFICES ASSUME NEW w \in Worker, NEW d \in Delivery \ (BestEffort \cup aborted'),
                    work'[w][d].pc = "acking"
             PROVE  work'[w][d].at = Payloads[d]
  BY DEF AckedAtTheEnd, At
<1>2. CASE WorkStep(w, d)
  <2>1. SendEnds(w, d)
    <3>1. ~PayloadSent(w, d) /\ ~PayloadFails(w, d) /\ ~FailReads(w, d)
      BY SentIs, FailsIs, ReadsIs
    <3>2. ~Ack(w, d) /\ ~FailSaves(w, d) /\ ~SendThrows(w, d) /\ ~FileError(w, d)
      BY BecomeIs DEF Ack, FailSaves, SendThrows, FileError, Place
    <3> QED
      BY <1>2, <3>1, <3>2 DEF WorkStep
  <2> QED
    BY <2>1, BecomeIs DEF SendEnds, Place
<1>3. w = "live" => \A listens \in BOOLEAN : ~Enqueue(d, listens)
  BY BeginIs, FreshIs DEF Enqueue, Place
<1>4. w = "live" => ~EnqueueFails(d)
  BY BecomeIs DEF EnqueueFails, Place
<1>5. ~Abort(d)
  BY DEF Abort
<1>6. w = "recovery" => ~Move(d)
  BY BecomeIs DEF Move, Place
<1>7. ASSUME NEW entry \in pending, entry.id = d, Take(entry), w = "recovery"
      PROVE  UNCHANGED work
  BY <1>7, BecomeIs, BeginIs, FreshIs DEF Take, Place
<1>8. ~Restart
  BY RestartIs
<1>9. work'[w][d] = work[w][d] \/ WorkStep(w, d)
  BY <1>3, <1>4, <1>5, <1>6, <1>7, <1>8, OnlyJobSteps DEF JobStep
<1> QED
  BY <1>1, <1>2, <1>9 DEF AckedAtTheEnd, At

(* A file goes only with an Ack or to failed/, and one that is in failed/  *)
(* stays there.                                                            *)
LEMMA FilesStay ==
  ASSUME TypeOK, [Next]_vars, NEW d \in queue \cup failed,
         \A w \in Worker : ~Ack(w, d)
  PROVE  d \in queue' \cup failed'
<1> USE DEF fileVars, runVars, historyVars
<1>1. ASSUME NEW w \in Worker, NEW e \in Delivery, Ack(w, e)
      PROVE  d \in queue' \cup failed'
  <2>1. e # d
    BY <1>1
  <2> QED
    BY <1>1, <2>1 DEF Ack, Unlink
<1>2. ASSUME NEW e \in Delivery, Move(e)
      PROVE  d \in queue' \cup failed'
  BY <1>2 DEF Move, Moved
<1>3. CASE queue \subseteq queue'
  BY <1>3, WhoChanges DEF OnlyBy
<1> QED
  BY <1>1, <1>2, <1>3, WhoChanges DEF OnlyBy

LEMMA NextNothingLost ==
  ASSUME TypeOK, LostInv, [Next]_vars
  PROVE  NothingLost'
<1> USE DEF fileVars, runVars, historyVars
<1> SUFFICES ASSUME NEW d \in Accepted' \ (BestEffort \cup aborted')
             PROVE  \/ d \in queue' \cup failed'
                    \/ \A p \in 1..Payloads[d] : sent'[d][p] > 0
  BY DEF NothingLost
<1>1. TypeOK'
  BY NextType
<1>2. d \in Delivery
  BY <1>1 DEF TypeOK, Accepted, ToSet
<1>3. aborted \subseteq aborted'
  BY WhoChanges DEF OnlyBy
<1>4. CASE d \notin Accepted
  <2>1. order' # order
    BY <1>4 DEF Accepted
  <2>2. PICK e \in Delivery, listens \in BOOLEAN : Enqueue(e, listens)
    BY <2>1, WhoChanges DEF OnlyBy
  <2>3. order' = Append(order, e) /\ order \in Seq(Delivery) /\ queue' = queue \cup {e}
    BY <2>2 DEF Enqueue, TypeOK
  <2>4. d = e
    BY <1>4, <2>3 DEF Accepted, ToSet
  <2> QED
    BY <2>3, <2>4
<1>5. CASE d \in Accepted
  <2>1. d \in queue \cup failed \/ \A p \in 1..Payloads[d] : sent[d][p] > 0
    BY <1>3, <1>5 DEF LostInv, NothingLost
  <2>2. CASE \A p \in 1..Payloads[d] : sent[d][p] > 0
    BY <1>2, <2>2, SentStays
  <2>3. ASSUME NEW w \in Worker, Ack(w, d)
        PROVE  \A p \in 1..Payloads[d] : sent'[d][p] > 0
    <3>1. work[w][d].at = Payloads[d]
      BY <1>2, <1>3, <2>3 DEF LostInv, AckedAtTheEnd, Ack
    <3>2. \A p \in 1..Payloads[d] : sent[d][p] > 0
      BY <1>2, <3>1 DEF LostInv, Progress
    <3> QED
      BY <1>2, <3>2, SentStays
  <2> QED
    BY <2>1, <2>2, <2>3, FilesStay
<1> QED
  BY <1>4, <1>5

(* A delivery that was queued is in the queue, in failed/ or sent, unless  *)
(* its call ended with an AbortError or its caller does not mind.          *)
THEOREM NoDeliveryLost == Spec => []NothingLost
<1>1. Init => LostInv
  <2> SUFFICES ASSUME Init PROVE LostInv
    OBVIOUS
  <2>1. \A w \in Worker, d \in Delivery : work[w][d].at = 0 /\ work[w][d].pc = "none"
    BY FreshIs DEF Init, Place
  <2>2. Accepted = {}
    BY DEF Init, Accepted, ToSet
  <2> QED
    BY <2>1, <2>2 DEF LostInv, Progress, AckedAtTheEnd, NothingLost, At
<1>2. TypeOK /\ LostInv /\ [Next]_vars => LostInv'
  BY NextProgress, NextAckedAtTheEnd, NextNothingLost DEF LostInv
<1>3. LostInv => NothingLost
  BY DEF LostInv
<1> QED
  BY <1>1, <1>2, <1>3, TypeCorrect, PTL DEF Spec

(***************************************************************************)
(* Nothing is repeated for nothing.  As long as nothing has gone wrong     *)
(* with a delivery, only its own call works at it, and its file is there   *)
(* only as long as that call is under way.                                 *)
(***************************************************************************)

Smooth(d) ==
  /\ work["live"][d].pc \in {"none", "sending", "acking", "over"}
  /\ work["live"][d].partial = FALSE
  /\ d \in queue => work["live"][d].pc \in {"sending", "acking"}
  /\ work["recovery"][d].pc = "none"
  /\ \A entry \in pending : entry.id # d
  /\ work["live"][d].pc = "none" => \A p \in 1..Payloads[d] : sent[d][p] = 0
  /\ work["live"][d].pc = "sending" =>
       \A p \in 1..Payloads[d] : p > work["live"][d].at => sent[d][p] = 0
  /\ \A p \in 1..Payloads[d] : sent[d][p] <= 1

RepeatInv == \A d \in Delivery \ troubled : Smooth(d)

LEMMA RecoveryKeepsOut ==
  ASSUME TypeOK, [Next]_vars, NEW d \in Delivery \ troubled', Smooth(d)
  PROVE  /\ work'["recovery"][d].pc = "none"
         /\ \A w \in Worker : WorkStep(w, d) => w = "live"
         /\ \A entry \in pending' : entry.id # d
<1>1. ~WorkStep("recovery", d)
  BY DEF Smooth, WorkStep, PayloadSent, PayloadFails, SendEnds, SendThrows, Ack, FailReads,
         FailSaves, FileError, At
<1>2. work'["recovery"][d].pc = "none"
  <2>1. ~Move(d) /\ ~\E entry \in pending : entry.id = d
    BY DEF Smooth, Move, At
  <2>2. CASE Restart
    BY <2>2, RestartIs DEF Worker
  <2>3. CASE ~Restart
    BY <1>1, <2>1, <2>3, OnlyJobSteps DEF JobStep, Smooth, Worker
  <2> QED
    BY <2>2, <2>3
<1>3. \A entry \in pending' : entry.id # d
  <2>1. CASE pending' \subseteq pending
    BY <2>1 DEF Smooth
  <2>2. CASE Load
    <3>1. PICK read \in SUBSET queue :
            /\ pending' = {[id |-> e, retryCount |-> retryCount[e]] : e \in read}
            /\ troubled' = troubled \cup {e \in read : Busy("live", e)}
      BY <2>2 DEF Load
    <3>2. d \notin read
      BY <3>1 DEF Smooth, Busy
    <3> QED
      BY <3>1, <3>2
  <2> QED
    BY <2>1, <2>2, WhoChanges DEF OnlyBy
<1> QED
  BY <1>1, <1>2, <1>3 DEF Worker

LEMMA SentOf ==
  ASSUME TypeOK, [Next]_vars, NEW d \in Delivery,
         \A w \in Worker : ~PayloadSent(w, d)
  PROVE  \A p \in 1..Payloads[d] : sent'[d][p] = sent[d][p]
<1>1. ASSUME NEW w \in Worker, NEW e \in Delivery, PayloadSent(w, e)
      PROVE  \A p \in 1..Payloads[d] : sent'[d][p] = sent[d][p]
  <2>1. e # d
    BY <1>1
  <2> QED
    BY <1>1, <2>1, SentIs
<1> QED
  BY <1>1, WhoChanges DEF OnlyBy

LEMMA NewFile ==
  ASSUME TypeOK, [Next]_vars, NEW d \in queue' \ queue
  PROVE  \/ \E listens \in BOOLEAN : Enqueue(d, listens)
         \/ \E w \in Worker : FailSaves(w, d)
<1>1. ASSUME NEW e \in Delivery, NEW listens \in BOOLEAN, Enqueue(e, listens)
      PROVE  e = d
  BY <1>1 DEF Enqueue
<1>2. ASSUME NEW e \in Delivery, NEW w \in Worker, FailSaves(w, e)
      PROVE  e = d
  BY <1>2 DEF FailSaves
<1> QED
  BY <1>1, <1>2, WhoChanges DEF OnlyBy

LEMMA NextSmooth ==
  ASSUME TypeOK, [Next]_vars, NEW d \in Delivery \ troubled', Smooth(d)
  PROVE  Smooth(d)'
<1> USE DEF fileVars, runVars, historyVars
<1>1. /\ work'["recovery"][d].pc = "none" /\ \A entry \in pending' : entry.id # d
      /\ \A w \in Worker : WorkStep(w, d) => w = "live"
  BY RecoveryKeepsOut
<1>2. CASE WorkStep("live", d)
  <2>1. CASE PayloadSent("live", d)
    <3> DEFINE n == work["live"][d].at + 1
    <3>1. /\ work["live"][d].pc = "sending" /\ UNCHANGED queue
          /\ n \in 1..Payloads[d] /\ n > work["live"][d].at
      BY <2>1, JobOf DEF PayloadSent, At, Worker
    <3>2. /\ work'["live"][d].at = n /\ work'["live"][d].pc = "sending"
          /\ work'["live"][d].partial = FALSE
          /\ sent[d][n] = 0 => sent'[d][n] = 1
          /\ \A p \in 1..Payloads[d] : p # n => sent'[d][p] = sent[d][p]
      BY <2>1, SentIs DEF Smooth, Worker
    <3>3. sent[d][n] = 0
      BY <3>1 DEF Smooth
    <3>4. \A p \in 1..Payloads[d] : p > n => sent'[d][p] = 0
      BY <3>1, <3>2, JobOf DEF Smooth, Worker
    <3>5. \A p \in 1..Payloads[d] : sent'[d][p] <= 1
      BY <3>2, <3>3 DEF Smooth
    <3> QED
      BY <1>1, <3>1, <3>2, <3>4, <3>5 DEF Smooth
  <2>2. ~PayloadFails("live", d) /\ ~SendThrows("live", d) /\ ~FileError("live", d)
    BY DEF PayloadFails, SendThrows, FileError
  <2>3. ~FailReads("live", d) /\ ~FailSaves("live", d)
    BY DEF Smooth, FailReads, FailSaves, At
  <2>4. CASE SendEnds("live", d) \/ Ack("live", d)
    <3>1. UNCHANGED sent /\ work["live"][d].pc # "none"
      BY <2>4 DEF SendEnds, Ack, At
    <3>2. CASE SendEnds("live", d)
      <4>1. work'["live"][d].pc = "acking" /\ work'["live"][d].partial = FALSE
        BY <3>2, BecomeIs DEF SendEnds, Smooth, Place, Worker
      <4> QED
        BY <1>1, <3>1, <3>2, <4>1 DEF Smooth
    <3>3. CASE Ack("live", d)
      <4>1. work'["live"][d].pc = "over" /\ work'["live"][d].partial = FALSE
        BY <3>3, BecomeIs DEF Ack, Smooth, Place, Worker
      <4>2. d \notin queue'
        BY <3>3 DEF Ack, Unlink
      <4> QED
        BY <1>1, <3>1, <4>1, <4>2 DEF Smooth
    <3> QED
      BY <2>4, <3>2, <3>3
  <2> QED
    BY <1>2, <2>1, <2>2, <2>3, <2>4 DEF WorkStep
<1>3. ASSUME NEW listens \in BOOLEAN, Enqueue(d, listens) PROVE Smooth(d)'
  <2>1. work'["live"][d].pc = "sending" /\ work'["live"][d].partial = FALSE
    BY <1>3, BeginIs, FreshIs DEF Enqueue, Place, Worker
  <2>2. UNCHANGED sent /\ work["live"][d].pc = "none"
    BY <1>3 DEF Enqueue, At
  <2> QED
    BY <1>1, <2>1, <2>2 DEF Smooth
<1>4. CASE EnqueueFails(d) \/ Abort(d)
  <2>1. /\ EnqueueFails(d) => work'["live"][d].pc = "over"
        /\ Abort(d) => work'["live"][d].pc = "acking"
        /\ work'["live"][d].partial = FALSE
    BY <1>4, BecomeIs DEF EnqueueFails, Abort, Smooth, Place, Worker
  <2>2. /\ UNCHANGED <<sent, queue>>
        /\ EnqueueFails(d) => work["live"][d].pc = "none"
        /\ Abort(d) => work["live"][d].pc = "sending"
    BY <1>4 DEF EnqueueFails, Abort, At
  <2> QED
    BY <1>1, <1>4, <2>1, <2>2 DEF Smooth
<1>5. CASE Restart
  <2>1. UNCHANGED <<sent, queue>> /\ ~Busy("live", d)
    BY <1>5 DEF Restart, Worker
  <2>2. /\ work["live"][d].pc \in {"none", "over"} /\ work'["live"][d].partial = FALSE
        /\ work'["live"][d].pc = work["live"][d].pc
    BY <1>5, <2>1, RestartIs DEF Busy, Smooth, Worker
  <2> QED
    BY <1>1, <2>1, <2>2 DEF Smooth
<1>6. CASE ~JobStep("live", d)
  <2>1. work'["live"][d] = work["live"][d]
    BY <1>6, OnlyJobSteps DEF Worker
  <2>2. \A w \in Worker : ~WorkStep(w, d)
    BY <1>1, <1>6 DEF JobStep
  <2>3. \A p \in 1..Payloads[d] : sent'[d][p] = sent[d][p]
    BY <2>2, SentOf DEF WorkStep
  <2>4. d \in queue' => d \in queue
    BY <1>6, <2>2, NewFile DEF JobStep, WorkStep
  <2> QED
    BY <1>1, <2>1, <2>3, <2>4 DEF Smooth
<1> QED
  BY <1>2, <1>3, <1>4, <1>5, <1>6 DEF JobStep

(* A payload is sent twice only after an attempt at its delivery that      *)
(* failed, was cut off or overlapped with another.                         *)
THEOREM NothingRepeated == Spec => []NoNeedlessRepeat
<1>1. Init => RepeatInv
  <2> SUFFICES ASSUME Init, NEW d \in Delivery PROVE Smooth(d)
    BY DEF RepeatInv
  <2>1. \A w \in Worker : work[w][d].pc = "none" /\ work[w][d].partial = FALSE
    BY FreshIs DEF Init, Place
  <2>2. \A p \in 1..Payloads[d] : sent[d][p] = 0
    BY DEF Init
  <2> QED
    BY <2>1, <2>2 DEF Init, Smooth, Worker
<1>2. TypeOK /\ RepeatInv /\ [Next]_vars => RepeatInv'
  <2> SUFFICES ASSUME TypeOK, RepeatInv, [Next]_vars, NEW d \in Delivery \ troubled'
               PROVE  Smooth(d)'
    BY DEF RepeatInv
  <2>1. d \notin troubled
    BY WhoChanges DEF OnlyBy
  <2> QED
    BY <2>1, NextSmooth DEF RepeatInv
<1>3. RepeatInv => NoNeedlessRepeat
  BY DEF RepeatInv, Smooth, NoNeedlessRepeat
<1> QED
  BY <1>1, <1>2, <1>3, TypeCorrect, PTL DEF Spec

(***************************************************************************)
(* Recoveries give up.  Attempts are written down in a field that the      *)
(* delivery's own call counts in, too, but a recovery tries a delivery     *)
(* once: a call that overwrites what it wrote has counted as much itself.  *)
(***************************************************************************)

Trying == {"sending", "acking", "failing", "saving"}

Counted(d) ==
  /\ attempts[d] <= retryCount[d]
  /\ attempts[d] <= MAX_RETRIES
  /\ At("recovery", d, "saving") => attempts[d] <= work["recovery"][d].copy
  /\ At("live", d, "saving") =>
       \/ attempts[d] <= work["live"][d].copy
       \/ attempts[d] <= work["live"][d].copy + 1 /\ At("recovery", d, "over")
  /\ \A entry \in pending :
       entry.id = d => At("recovery", d, "none") /\ attempts[d] <= entry.retryCount
  /\ recovery = "starting" => At("recovery", d, "none")
  /\ work["recovery"][d].pc \in Trying => attempts[d] < MAX_RETRIES

OncePending == \A e, f \in pending : e.id = f.id => e = f

RetryInv == OncePending /\ \A d \in Delivery : Counted(d)

LEMMA NextOncePending ==
  ASSUME TypeOK, [Next]_vars, OncePending
  PROVE  OncePending'
<1>1. CASE pending' \subseteq pending
  BY <1>1 DEF OncePending
<1>2. CASE Load
  <2>1. \E read \in SUBSET queue :
          pending' = {[id |-> d, retryCount |-> retryCount[d]] : d \in read}
    BY <1>2 DEF Load
  <2> QED
    BY <2>1 DEF OncePending
<1> QED
  BY <1>1, <1>2, WhoChanges DEF OnlyBy

LEMMA CountOf ==
  ASSUME TypeOK, [Next]_vars, NEW d \in Delivery,
         \A w \in Worker : ~FailSaves(w, d)
  PROVE  retryCount'[d] = retryCount[d] /\ attempts'[d] = attempts[d]
<1>1. ASSUME NEW w \in Worker, NEW e \in Delivery, FailSaves(w, e)
      PROVE  retryCount'[d] = retryCount[d] /\ attempts'[d] = attempts[d]
  <2>1. e # d
    BY <1>1
  <2> QED
    BY <1>1, <2>1 DEF FailSaves, TypeOK
<1> QED
  BY <1>1, WhoChanges DEF OnlyBy

(* What happens to a job of the recovery.                                  *)
LEMMA RecoverySteps ==
  ASSUME TypeOK, [Next]_vars, NEW d \in Delivery
  PROVE  \/ UNCHANGED work["recovery"][d]
         \/ WorkStep("recovery", d)
         \/ work'["recovery"][d].pc = "over"
         \/ work'["recovery"][d].pc = "none" /\ Restart
         \/ \E entry \in pending : entry.id = d /\ Take(entry)
<1>1. CASE Restart
  BY <1>1, RestartIs DEF Worker
<1>2. CASE Move(d)
  BY <1>2, BecomeIs DEF Move, Place, Worker
<1> QED
  BY <1>1, <1>2, OnlyJobSteps DEF JobStep, Worker

LEMMA TakeIs ==
  ASSUME TypeOK, NEW entry \in pending, Take(entry)
  PROVE  /\ entry.id \in Delivery /\ pending' = pending \ {entry}
         /\ UNCHANGED <<retryCount, attempts, recovery>> /\ recovery = "running"
         /\ work'["live"] = work["live"]
         /\ \/ work'["recovery"][entry.id].pc = "moving"
            \/ UNCHANGED work
            \/ /\ work'["recovery"][entry.id].pc = "sending"
               /\ entry.retryCount < MAX_RETRIES
<1>1. entry.id \in Delivery /\ entry.retryCount \in Nat
  BY DEF TypeOK, Entry
<1>2. \/ Become("recovery", entry.id, "moving")
      \/ UNCHANGED work
      \/ Begin("recovery", entry.id) /\ entry.retryCount < MAX_RETRIES
  BY <1>1, DeliveryAssumption DEF Take, Exhausted
<1>3. work'["live"] = work["live"]
  <2>1. UNCHANGED work \/ Others("recovery", entry.id)
    BY <1>1, <1>2, BecomeIs, BeginIs DEF Place, Worker
  <2>2. CASE Others("recovery", entry.id)
    <3>1. work \in Jobs /\ work' \in Jobs
      BY <1>1, <1>2, BecomeIs, BeginIs DEF Place, Worker, TypeOK, Jobs
    <3>2. \A e \in Delivery : work'["live"][e] = work["live"][e]
      BY <2>2 DEF Others, Worker
    <3> HIDE DEF Job
    <3> QED
      BY <3>1, <3>2 DEF Jobs, Worker
  <2> QED
    BY <2>1, <2>2
<1> QED
  BY <1>1, <1>2, <1>3, BecomeIs, BeginIs, FreshIs
  DEF Take, fileVars, historyVars, RecoveryIdle, Place, Worker

(* What a step of a worker does to its own job, as far as counting goes.   *)
LEMMA WorkStepIs ==
  ASSUME TypeOK, NEW w \in Worker, NEW d \in Delivery, WorkStep(w, d)
  PROVE  /\ work[w][d].pc \notin {"none", "over"}
         /\ work[w][d].pc = "moving" => work'[w][d].pc = "over"
         /\ work'[w][d].pc = "saving" =>
              FailReads(w, d) /\ work'[w][d].copy = retryCount[d]
         /\ FailSaves(w, d) => work'[w][d].pc = "over"
<1>1. CASE PayloadSent(w, d) \/ PayloadFails(w, d)
  <2>1. work'[w][d].pc = "sending" /\ work[w][d].pc = "sending"
    BY <1>1, SentIs, FailsIs DEF PayloadSent, PayloadFails, At
  <2> QED
    BY <2>1 DEF FailSaves, At
<1>2. CASE SendEnds(w, d) \/ SendThrows(w, d)
  <2>1. work'[w][d].pc \in {"failing", "acking", "moving"} /\ work[w][d].pc = "sending"
    BY <1>2, BecomeIs DEF SendEnds, SendThrows, At, Place
  <2> QED
    BY <2>1 DEF FailSaves, At
<1>3. CASE Ack(w, d) \/ FailSaves(w, d)
  <2>1. work'[w][d].pc = "over" /\ work[w][d].pc \in {"acking", "saving"}
    BY <1>3, BecomeIs DEF Ack, FailSaves, At, Place
  <2> QED
    BY <2>1
<1>4. CASE FailReads(w, d)
  <2>1. work[w][d].pc = "failing"
    BY <1>4 DEF FailReads, At
  <2> QED
    BY <1>4, <2>1, ReadsIs DEF FailSaves, At
<1>5. CASE FileError(w, d)
  <2>1. /\ work'[w][d].pc \in {"failing", "over"}
        /\ work'[w][d].pc = "failing" => work[w][d].pc = "acking"
        /\ work[w][d].pc \in {"acking", "failing", "saving", "moving"}
    BY <1>5, BecomeIs DEF FileError, At, Place
  <2>2. FailSaves(w, d) => work'[w][d].pc = "over"
    BY BecomeIs DEF FailSaves, Place
  <2> QED
    BY <2>1, <2>2
<1> QED
  BY <1>1, <1>2, <1>3, <1>4, <1>5 DEF WorkStep

LEMMA NextCounted ==
  ASSUME TypeOK, [Next]_vars, OncePending, NEW d \in Delivery, Counted(d)
  PROVE  Counted(d)'
<1> USE DEF fileVars, runVars, historyVars
<1>1. /\ attempts[d] \in Nat /\ retryCount[d] \in Nat /\ MAX_RETRIES \in Nat
      /\ work["live"][d].copy \in Nat /\ work["recovery"][d].copy \in Nat
      /\ attempts'[d] \in Nat /\ retryCount'[d] \in Nat
  BY NextType, DeliveryAssumption, JobOf DEF TypeOK, Worker
(* The recovery writes its attempt down.                                   *)
<1>2. CASE FailSaves("recovery", d)
  <2>1. /\ work["recovery"][d].pc = "saving" /\ work'["recovery"][d].pc = "over"
        /\ work'["live"][d] = work["live"][d]
    BY <1>2, BecomeIs DEF FailSaves, At, Others, Place, Worker
  <2>2. /\ attempts'[d] = attempts[d] + 1
        /\ retryCount'[d] = work["recovery"][d].copy + 1
        /\ UNCHANGED <<pending, recovery>>
    BY <1>2 DEF FailSaves, TypeOK
  <2>3. attempts[d] <= work["recovery"][d].copy /\ attempts[d] < MAX_RETRIES
    BY <2>1 DEF Counted, At, Trying
  <2> QED
    BY <1>1, <2>1, <2>2, <2>3 DEF Counted, At, Trying
(* Its own call does.                                                      *)
<1>3. CASE FailSaves("live", d)
  <2>1. /\ work["live"][d].pc = "saving" /\ work'["live"][d].pc = "over"
        /\ work'["recovery"][d] = work["recovery"][d]
    BY <1>3, BecomeIs DEF FailSaves, At, Others, Place, Worker
  <2>2. /\ attempts'[d] = attempts[d]
        /\ retryCount'[d] = work["live"][d].copy + 1
        /\ UNCHANGED <<pending, recovery>>
    BY <1>3 DEF FailSaves, TypeOK
  <2>3. attempts[d] <= work["live"][d].copy + 1
    BY <1>1, <2>1 DEF Counted, At
  <2> QED
    BY <1>1, <2>1, <2>2, <2>3 DEF Counted, At, Trying
<1>4. CASE \A w \in Worker : ~FailSaves(w, d)
  <2>1. retryCount'[d] = retryCount[d] /\ attempts'[d] = attempts[d]
    BY <1>4, CountOf
  <2>2. At("recovery", d, "saving")' => attempts[d] <= work'["recovery"][d].copy
    <3>1. CASE work'["recovery"][d] = work["recovery"][d]
      BY <3>1 DEF Counted, At
    <3>2. CASE WorkStep("recovery", d)
      BY <3>2, WorkStepIs DEF Counted, At, Worker
    <3>3. ASSUME NEW entry \in pending, entry.id = d, Take(entry)
          PROVE  At("recovery", d, "saving")' => attempts[d] <= work'["recovery"][d].copy
      BY <3>3, TakeIs DEF Counted, At
    <3> QED
      BY <3>1, <3>2, <3>3, RecoverySteps DEF At
  <2>3. At("recovery", d, "over") => At("recovery", d, "over")' \/ Restart
    <3>1. ~WorkStep("recovery", d) \/ ~At("recovery", d, "over")
      BY WorkStepIs DEF At, Worker
    <3>2. At("recovery", d, "over") => ~\E entry \in pending : entry.id = d
      BY DEF Counted, At
    <3> QED
      BY <3>1, <3>2, RecoverySteps DEF At
  <2>4. At("live", d, "saving")' =>
          \/ attempts[d] <= work'["live"][d].copy
          \/ attempts[d] <= work'["live"][d].copy + 1 /\ At("recovery", d, "over")'
    <3>1. CASE Restart
      BY <3>1, RestartIs DEF At, Worker
    <3>2. CASE work'["live"][d] = work["live"][d] /\ ~Restart
      BY <2>3, <3>2 DEF Counted, At
    <3>3. CASE WorkStep("live", d)
      BY <3>3, WorkStepIs DEF Counted, At, Worker
    <3>4. CASE (\E listens \in BOOLEAN : Enqueue(d, listens)) \/ EnqueueFails(d) \/ Abort(d)
      <4>1. work'["live"][d].pc # "saving"
        BY <3>4, BecomeIs, BeginIs, FreshIs DEF Enqueue, EnqueueFails, Abort, Place, Worker
      <4> QED
        BY <4>1 DEF At
    <3> QED
      BY <3>1, <3>2, <3>3, <3>4, OnlyJobSteps DEF JobStep, Worker
  <2>5. ASSUME NEW entry \in pending', entry.id = d
        PROVE  At("recovery", d, "none")' /\ attempts[d] <= entry.retryCount
    <3>1. CASE Load
      <4>1. /\ \E read \in SUBSET queue :
                 pending' = {[id |-> e, retryCount |-> retryCount[e]] : e \in read}
            /\ recovery = "starting" /\ UNCHANGED work
        BY <3>1 DEF Load
      <4> QED
        BY <2>5, <4>1 DEF Counted, At
    <3>2. CASE pending' \subseteq pending
      <4>1. At("recovery", d, "none") /\ attempts[d] <= entry.retryCount
        BY <2>5, <3>2 DEF Counted
      <4>2. ~WorkStep("recovery", d)
        BY <4>1, WorkStepIs DEF At, Worker
      <4>3. ~Move(d)
        BY <4>1 DEF Move, At
      <4>4. ~\E other \in pending : other.id = d /\ Take(other)
        BY <2>5, <3>2, TakeIs DEF OncePending
      <4>5. CASE Restart
        BY <4>1, <4>5, RestartIs DEF At, Worker
      <4>6. CASE ~Restart
        BY <4>1, <4>2, <4>3, <4>4, <4>6, OnlyJobSteps DEF JobStep, At, Worker
      <4> QED
        BY <4>5, <4>6
    <3> QED
      BY <3>1, <3>2, WhoChanges DEF OnlyBy
  <2>6. recovery' = "starting" => At("recovery", d, "none")'
    <3> SUFFICES ASSUME recovery' = "starting" PROVE At("recovery", d, "none")'
      OBVIOUS
    <3>1. CASE Restart
      BY <3>1, RestartIs DEF At, Worker
    <3>2. CASE ~Restart
      <4>1. recovery = "starting"
        <5>1. ~Load /\ ~RecoveryEnds
          BY DEF Load, RecoveryEnds
        <5>2. ASSUME NEW w \in Worker, NEW e \in Delivery, WorkStep(w, e)
              PROVE  UNCHANGED recovery
          BY <5>2 DEF WorkStep, PayloadSent, PayloadFails, SendEnds, SendThrows, Ack,
                      FailReads, FailSaves, FileError
        <5>3. ASSUME NEW e \in Delivery, EnqueueFails(e) \/ Abort(e) \/ Move(e)
              PROVE  UNCHANGED recovery
          BY <5>3 DEF EnqueueFails, Abort, Move
        <5>4. ASSUME NEW e \in Delivery, NEW listens \in BOOLEAN, Enqueue(e, listens)
              PROVE  UNCHANGED recovery
          BY <5>4 DEF Enqueue
        <5> QED
          BY <3>2, <5>1, <5>2, <5>3, <5>4, TakeIs DEF Next, vars
      <4>2. At("recovery", d, "none")
        BY <4>1 DEF Counted
      <4>3. ~WorkStep("recovery", d) /\ ~Move(d)
        BY <4>2, WorkStepIs DEF Move, At, Worker
      <4>4. ~\E entry \in pending : entry.id = d /\ Take(entry)
        BY <4>1, TakeIs
      <4> QED
        BY <3>2, <4>2, <4>3, <4>4, OnlyJobSteps DEF JobStep, At, Worker
    <3> QED
      BY <3>1, <3>2
  <2>7. work'["recovery"][d].pc \in Trying => attempts[d] < MAX_RETRIES
    <3>1. CASE work'["recovery"][d] = work["recovery"][d]
      BY <3>1 DEF Counted
    <3>2. CASE WorkStep("recovery", d)
      <4>1. work["recovery"][d].pc \in Place
        BY JobOf DEF Job, Place, Worker
      <4> QED
        BY <3>2, <4>1, WorkStepIs DEF Counted, Trying, Place, Worker
    <3>3. ASSUME NEW entry \in pending, entry.id = d, Take(entry)
          PROVE  work'["recovery"][d].pc \in Trying => attempts[d] < MAX_RETRIES
      <4>1. attempts[d] <= entry.retryCount /\ work["recovery"][d].pc = "none"
            /\ entry.retryCount \in Nat
        BY <3>3 DEF Counted, At, TypeOK, Entry
      <4> QED
        BY <1>1, <3>3, <4>1, TakeIs DEF Trying
    <3> QED
      BY <3>1, <3>2, <3>3, RecoverySteps DEF Trying
  <2> QED
    BY <2>1, <2>2, <2>4, <2>5, <2>6, <2>7 DEF Counted
<1> QED
  BY <1>2, <1>3, <1>4 DEF Worker

(* No recovery tries for ever: a delivery is given up after MAX_RETRIES    *)
(* attempts that are written down.                                         *)
THEOREM RecoveriesGiveUp == Spec => []RetriesBounded
<1>1. Init => RetryInv
  <2> SUFFICES ASSUME Init PROVE RetryInv
    OBVIOUS
  <2>1. OncePending
    BY DEF Init, OncePending
  <2>2. ASSUME NEW d \in Delivery PROVE Counted(d)
    <3>1. \A w \in Worker : work[w][d].pc = "none"
      BY FreshIs DEF Init, Place
    <3>2. attempts[d] = 0 /\ retryCount[d] = 0 /\ pending = {} /\ MAX_RETRIES \in Nat
      BY DeliveryAssumption DEF Init
    <3> QED
      BY <3>1, <3>2 DEF Counted, At, Trying, Worker
  <2> QED
    BY <2>1, <2>2 DEF RetryInv
<1>2. TypeOK /\ RetryInv /\ [Next]_vars => RetryInv'
  BY NextOncePending, NextCounted DEF RetryInv
<1>3. RetryInv => RetriesBounded
  BY DEF RetryInv, Counted, RetriesBounded
<1> QED
  BY <1>1, <1>2, <1>3, TypeCorrect, PTL DEF Spec
==============================================================================
