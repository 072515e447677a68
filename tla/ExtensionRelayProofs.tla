----------------------- MODULE ExtensionRelayProofs -----------------------
(* Theorems about ExtensionRelay, for every value of its constants.        *)
EXTENDS ExtensionRelay, FiniteSetTheorems, TLAPS

(***************************************************************************)
(* Type correctness.                                                       *)
(***************************************************************************)
LEMMA TypeInit == Init => TypeOK
<1> SUFFICES ASSUME Init PROVE TypeOK
  OBVIOUS
<1>1. pendingExtension \in [DOMAIN pendingExtension -> Cmd \cup Req]
  BY DEF Init, NoPending
<1>2. DOMAIN pendingExtension \subseteq 1..(nextExtensionId - 1)
  BY DEF Init, NoPending
<1>3. cmd \in [Cmd -> CmdHandler]
  BY DEF Init, CmdHandler, Awaiting, Ended
<1>4. req \in [Req -> ReqHandler]
  BY DEF Init, ReqHandler, ReqStatus
<1>5. /\ asked \in [Ext -> SUBSET Message]
      /\ view \in [Client -> SUBSET Attachment]
      /\ extState \in [Ext -> {"fresh", "open", "closing", "closed"}]
      /\ cliState \in [Client -> {"fresh", "open", "leaving", "closing", "closed"}]
  BY DEF Init
<1>6. /\ extensionWs \in Ext \cup {None}
      /\ cdpClients \subseteq Client /\ connectedTargets \subseteq Attachment
      /\ nextExtensionId \in Nat \ {0} /\ autoAttached \subseteq Client
      /\ disconnectTimer \in {"off", "armed"} /\ server \in {"running", "stopped"}
  BY DEF Init
<1> QED
  BY <1>1, <1>2, <1>3, <1>4, <1>5, <1>6 DEF TypeOK

USE RelayAssumption

LEMMA SendTyped ==
  ASSUME TypeOK, NEW job \in Cmd \cup Req,
         NEW pending, pending \in [DOMAIN pending -> Cmd \cup Req],
         DOMAIN pending \subseteq DOMAIN pendingExtension,
         NEW unanswered \in [Ext -> SUBSET Message],
         SendToExtension(job, pending, unanswered)
  PROVE  /\ nextExtensionId' \in Nat \ {0}
         /\ pendingExtension' \in [DOMAIN pendingExtension' -> Cmd \cup Req]
         /\ DOMAIN pendingExtension' \subseteq 1..(nextExtensionId' - 1)
         /\ asked' \in [Ext -> SUBSET Message]
  BY DEF TypeOK, SendToExtension, TakeId, ExtensionConnected, Message

LEMMA SentTyped ==
  ASSUME TypeOK, NEW c \in Cmd, NEW outcome \in {"result", "error"}, NEW sockets
  PROVE  Sent(c, outcome, sockets) \in
           CmdHandler
  BY DEF TypeOK, Sent, Awaiting, Ended, CmdHandler

CmdTyped == cmd \in [Cmd -> CmdHandler]

LEMMA HandlerMoves ==
  ASSUME NEW h \in CmdHandler, h.status \in Awaiting, NEW st \in Awaiting
  PROVE  [h EXCEPT !.status = st] \in CmdHandler
  BY DEF CmdHandler, Awaiting, Ended

LEMMA RespondTyped ==
  ASSUME TypeOK
  PROVE  /\ \A S, sockets : RespondAll(S, sockets) => CmdTyped'
         /\ \A c \in Cmd, outcome \in {"result", "error"} :
              Respond(c, outcome) => CmdTyped'
  BY SentTyped DEF TypeOK, RespondAll, Respond, CmdTyped

LEMMA WithoutTyped ==
  ASSUME TypeOK, NEW id
  PROVE  /\ Without(id) \in [DOMAIN Without(id) -> Cmd \cup Req]
         /\ DOMAIN Without(id) = DOMAIN pendingExtension \ {id}
  BY DEF TypeOK, Without, Restrict
LEMMA TypeUpgrade ==
  ASSUME TypeOK, NEW e \in Ext,
         ExtensionUpgrade(e) \/ ExtensionRefused(e) \/ ExtensionHandshakeFails(e)
           \/ ExtensionLeaves(e)
  PROVE  TypeOK'
<1>1. CASE ExtensionUpgrade(e)
  <2>1. cmd' \in [Cmd -> CmdHandler]
    <3>1. \A c \in CmdsWith("waiting") : [cmd[c] EXCEPT !.status = "woken"] \in CmdHandler
      BY HandlerMoves DEF TypeOK, CmdsWith, Awaiting
    <3> QED
      BY <1>1, <3>1 DEF TypeOK, ExtensionUpgrade, WakeWaiters
  <2> QED
    BY <1>1, <2>1 DEF TypeOK, ExtensionUpgrade, cliVars, tabVars
<1>2. CASE ExtensionRefused(e)
  BY <1>2 DEF TypeOK, ExtensionRefused, cliVars, tabVars, jobVars
<1>3. CASE ExtensionHandshakeFails(e)
  BY <1>3 DEF TypeOK, ExtensionHandshakeFails, cliVars, tabVars, jobVars
<1>4. CASE ExtensionLeaves(e)
  BY <1>4 DEF TypeOK, ExtensionLeaves, cliVars, tabVars, jobVars
<1> QED
  BY <1>1, <1>2, <1>3, <1>4

(* The rejected snapshots are as many as ids of the map: a number.         *)
LEMMA RejectTyped ==
  ASSUME TypeOK, RejectAllReqs
  PROVE  /\ req' \in [Req -> ReqHandler]
         /\ nextExtensionId' \in Nat \ {0} /\ nextExtensionId <= nextExtensionId'
<1>1. req' \in [Req -> ReqHandler]
  BY DEF TypeOK, RejectAllReqs, ReqHandler, ReqStatus
<1>2. IsFiniteSet(1..(nextExtensionId - 1))
  BY FS_Interval DEF TypeOK
<1>3. EnableEntries \subseteq 1..(nextExtensionId - 1)
  BY DEF EnableEntries, TypeOK
<1>4. Cardinality(EnableEntries) \in Nat
  BY <1>2, <1>3, FS_Subset, FS_CardinalityType
<1> QED
  BY <1>1, <1>4 DEF TypeOK, RejectAllReqs

LEMMA NoPendingTyped ==
  ASSUME TypeOK, NEW p, p = NoPending
  PROVE  /\ p \in [DOMAIN p -> Cmd \cup Req]
         /\ DOMAIN p = {}
  BY DEF NoPending

LEMMA ForgetTyped ==
  TypeOK => \A sockets : ForgetViews(sockets) => view' \in [Client -> SUBSET Attachment]
  BY DEF TypeOK, ForgetViews

LEMMA BroadcastTyped ==
  ASSUME TypeOK, NEW gone, NEW new \in SUBSET Attachment, Broadcast(gone, new)
  PROVE  view' \in [Client -> SUBSET Attachment]
  BY DEF TypeOK, Broadcast

LEMMA PruneTyped ==
  ASSUME TypeOK, NEW c, PruneStale(c)
  PROVE  connectedTargets' \subseteq Attachment /\ view' \in [Client -> SUBSET Attachment]
  BY BroadcastTyped DEF TypeOK, PruneStale

LEMMA TypeClosed ==
  ASSUME TypeOK, NEW e \in Ext, ExtensionClosed(e)
  PROVE  TypeOK'
<1>1. CASE Current(e)
  <2>1. cmd' \in [Cmd -> CmdHandler] /\ req' \in [Req -> ReqHandler]
    BY <1>1, RespondTyped, RejectTyped DEF ExtensionClosed, CmdTyped
  <2>2. /\ pendingExtension' \in [DOMAIN pendingExtension' -> Cmd \cup Req]
        /\ DOMAIN pendingExtension' = {}
    BY <1>1, NoPendingTyped DEF ExtensionClosed
  <2>3. nextExtensionId' \in Nat \ {0}
    BY <1>1, RejectTyped DEF ExtensionClosed
  <2> QED
    BY <1>1, <2>1, <2>2, <2>3 DEF TypeOK, ExtensionClosed, StartGrace, cliVars, tabVars
<1>2. CASE ~Current(e)
  BY <1>2 DEF TypeOK, ExtensionClosed, cliVars, tabVars, jobVars
<1> QED
  BY <1>1, <1>2

LEMMA TypeGraceAndStop ==
  ASSUME TypeOK, DisconnectTimerFires \/ Stop
  PROVE  TypeOK'
<1>1. CASE DisconnectTimerFires /\ ExtensionConnected
  BY <1>1 DEF TypeOK, DisconnectTimerFires
<1>2. CASE DisconnectTimerFires /\ ~ExtensionConnected
  <2>1. cmd' \in [Cmd -> CmdHandler] /\ view' \in [Client -> SUBSET Attachment]
    BY <1>2, RespondTyped, ForgetTyped DEF DisconnectTimerFires, CmdTyped
  <2>2. cliState' \in [Client -> {"fresh", "open", "leaving", "closing", "closed"}]
    BY <1>2 DEF TypeOK, DisconnectTimerFires
  <2> QED
    BY <1>2, <2>1, <2>2 DEF TypeOK, DisconnectTimerFires
<1>3. CASE Stop
  <2>1. /\ cmd' \in [Cmd -> CmdHandler] /\ req' \in [Req -> ReqHandler]
        /\ view' \in [Client -> SUBSET Attachment]
    BY <1>3, RespondTyped, RejectTyped, ForgetTyped DEF Stop, CmdTyped
  <2>2. /\ cliState' \in [Client -> {"fresh", "open", "leaving", "closing", "closed"}]
        /\ extState' \in [Ext -> {"fresh", "open", "closing", "closed"}]
    BY <1>3 DEF TypeOK, Stop
  <2>3. /\ pendingExtension' \in [DOMAIN pendingExtension' -> Cmd \cup Req]
        /\ DOMAIN pendingExtension' = {}
    BY <1>3, NoPendingTyped DEF Stop
  <2>4. nextExtensionId' \in Nat \ {0}
    BY <1>3, RejectTyped DEF Stop
  <2> QED
    BY <1>3, <2>1, <2>2, <2>3, <2>4 DEF TypeOK, Stop
<1> QED
  BY <1>1, <1>2, <1>3

LEMMA TypeEvents ==
  ASSUME TypeOK, NEW e \in Ext,
         \/ \E s \in Session, t \in Target : TargetAttached(e, s, t)
         \/ \E s \in Session : SessionDetached(e, s)
         \/ \E t \in Target : TargetGone(e, t)
  PROVE  TypeOK'
<1>1. ASSUME NEW s \in Session, NEW t \in Target, TargetAttached(e, s, t)
      PROVE  TypeOK'
  <2>1. {[sessionId |-> s, targetId |-> t]} \in SUBSET Attachment
    BY DEF Attachment
  <2>2. view' \in [Client -> SUBSET Attachment]
    BY <1>1, <2>1, BroadcastTyped DEF TypeOK, TargetAttached
  <2> QED
    BY <1>1, <2>1, <2>2 DEF TypeOK, TargetAttached, extVars, cliVars, jobVars
<1>2. ASSUME NEW s \in Session, SessionDetached(e, s)
      PROVE  TypeOK'
  <2>1. view' \in [Client -> SUBSET Attachment]
    BY <1>2, BroadcastTyped DEF SessionDetached
  <2> QED
    BY <1>2, <2>1 DEF TypeOK, SessionDetached, extVars, cliVars, jobVars
<1>3. ASSUME NEW t \in Target, TargetGone(e, t)
      PROVE  TypeOK'
  <2>1. view' \in [Client -> SUBSET Attachment]
    BY <1>3, BroadcastTyped DEF TargetGone
  <2> QED
    BY <1>3, <2>1 DEF TypeOK, TargetGone, extVars, cliVars, jobVars
<1> QED
  BY <1>1, <1>2, <1>3
(* A request's message goes out and has its entry, or the request ends: it *)
(* took an id and was turned away, or it had no message to send.           *)
LEMMA RequestGoes ==
  ASSUME NEW r, NEW st, NEW pending, NEW unanswered, RequestSends(r, st, pending, unanswered)
  PROVE  \/ SendToExtension(r, pending, unanswered) /\ SetReq(r, st)
         \/ pendingExtension' = pending /\ asked' = unanswered /\ TakeId /\ SetReq(r, "failed")
  BY DEF RequestSends

LEMMA RequestGoesOn ==
  ASSUME NEW r, NEW id, NEW answer, NEW unanswered, RequestAnswered(r, id, answer, unanswered)
  PROVE  /\ UNCHANGED <<cmd, connectedTargets, view>>
         /\ \/ /\ SendToExtension(r, Without(id), unanswered) /\ SetReq(r, "second")
               /\ req[r].status = "first"
            \/ /\ pendingExtension' = Without(id) /\ asked' = unanswered
               /\ TakeId \/ UNCHANGED nextExtensionId
               /\ SetReq(r, "ok") \/ SetReq(r, "failed")
<1>1. CASE SecondMessageDue(r, answer)
  <2>1. RequestSends(r, "second", Without(id), unanswered)
    BY <1>1 DEF RequestAnswered
  <2> QED
    BY <1>1, <2>1, RequestGoes DEF RequestAnswered, SecondMessageDue
<1>2. CASE ~SecondMessageDue(r, answer)
  BY <1>2 DEF RequestAnswered
<1> QED
  BY <1>1, <1>2

(* What an answer or a timeout of request r may change.                    *)
LEMMA TypeRequestAnswered ==
  ASSUME TypeOK, NEW id, NEW r \in Req, NEW answer,
         NEW unanswered \in [Ext -> SUBSET Message],
         RequestAnswered(r, id, answer, unanswered)
  PROVE  /\ nextExtensionId' \in Nat \ {0}
         /\ pendingExtension' \in [DOMAIN pendingExtension' -> Cmd \cup Req]
         /\ DOMAIN pendingExtension' \subseteq 1..(nextExtensionId' - 1)
         /\ asked' \in [Ext -> SUBSET Message]
         /\ req' \in [Req -> ReqHandler]
         /\ cmd' = cmd /\ connectedTargets' = connectedTargets /\ view' = view
<1>1. req' \in [Req -> ReqHandler]
  BY RequestGoesOn DEF TypeOK, SetReq, ReqHandler, ReqStatus
<1>2. /\ Without(id) \in [DOMAIN Without(id) -> Cmd \cup Req]
      /\ DOMAIN Without(id) \subseteq DOMAIN pendingExtension
  BY WithoutTyped
<1>3. CASE SendToExtension(r, Without(id), unanswered)
  <2>1. r \in Cmd \cup Req
    OBVIOUS
  <2> QED
    BY <1>1, <1>2, <1>3, <2>1, SendTyped, RequestGoesOn
<1>4. CASE /\ pendingExtension' = Without(id) /\ asked' = unanswered
           /\ TakeId \/ UNCHANGED nextExtensionId
  BY <1>1, <1>2, <1>4, RequestGoesOn DEF TypeOK, TakeId
<1> QED
  BY <1>3, <1>4, RequestGoesOn

LEMMA TypeCommandAnswered ==
  ASSUME TypeOK, NEW id, NEW c \in Cmd, NEW answer, CommandAnswered(c, id, answer)
  PROVE  /\ pendingExtension' \in [DOMAIN pendingExtension' -> Cmd \cup Req]
         /\ DOMAIN pendingExtension' \subseteq DOMAIN pendingExtension
         /\ cmd' \in [Cmd -> CmdHandler]
         /\ connectedTargets' \subseteq Attachment
         /\ view' \in [Client -> SUBSET Attachment]
  BY WithoutTyped, RespondTyped, PruneTyped DEF CommandAnswered, TypeOK, CmdTyped

LEMMA TypeAnswers ==
  ASSUME TypeOK, NEW e \in Ext, NEW m \in asked[e], NEW answer,
         ExtensionAnswers(e, m, answer)
  PROVE  TypeOK'
<1> DEFINE unanswered == [asked EXCEPT ![e] = @ \ {m}]
           job == pendingExtension[m.id]
<1>1. unanswered \in [Ext -> SUBSET Message]
  BY DEF TypeOK
<1> HIDE DEF unanswered
<1>2. CASE m.id \notin DOMAIN pendingExtension
  <2>1. asked' = unanswered /\ UNCHANGED <<jobVars, connectedTargets, view>>
    BY <1>2 DEF ExtensionAnswers, unanswered
  <2> QED
    BY <1>1, <2>1 DEF TypeOK, ExtensionAnswers, cliVars, jobVars
<1>3. CASE m.id \in DOMAIN pendingExtension /\ job \in Cmd
  <2>1. asked' = unanswered /\ CommandAnswered(job, m.id, answer)
    BY <1>3 DEF ExtensionAnswers, unanswered
  <2>2. nextExtensionId' = nextExtensionId /\ req' = req
    BY <2>1 DEF CommandAnswered
  <2> QED
    BY <1>1, <1>3, <2>1, <2>2, TypeCommandAnswered DEF TypeOK, ExtensionAnswers, cliVars
<1>4. CASE m.id \in DOMAIN pendingExtension /\ job \notin Cmd
  <2>1. RequestAnswered(job, m.id, answer, unanswered)
    BY <1>4 DEF ExtensionAnswers, unanswered
  <2>2. job \in Req
    BY <1>4 DEF TypeOK
  <2> QED
    BY <1>1, <2>1, <2>2, TypeRequestAnswered DEF TypeOK, ExtensionAnswers, cliVars
<1> QED
  BY <1>2, <1>3, <1>4

LEMMA TypeTimeouts ==
  ASSUME TypeOK,
         \/ \E id \in DOMAIN pendingExtension : PendingTimeout(id)
         \/ \E c \in Cmd : WaitTimeout(c)
  PROVE  TypeOK'
<1>1. ASSUME NEW id \in DOMAIN pendingExtension, PendingTimeout(id)
      PROVE  TypeOK'
  <2> DEFINE job == pendingExtension[id]
  <2>1. CASE job \in Cmd
    <3>1. Respond(job, "error") /\ pendingExtension' = Without(id)
      BY <1>1, <2>1 DEF PendingTimeout
    <3>2. cmd' \in [Cmd -> CmdHandler]
      BY <2>1, <3>1, RespondTyped DEF CmdTyped
    <3> QED
      BY <1>1, <2>1, <3>1, <3>2, WithoutTyped DEF TypeOK, PendingTimeout, cliVars
  <2>2. CASE job \notin Cmd
    <3>1. job \in Req /\ asked \in [Ext -> SUBSET Message]
      BY <2>2 DEF TypeOK
    <3>2. RequestAnswered(job, id, "timeout", asked)
      BY <1>1, <2>2 DEF PendingTimeout
    <3> QED
      BY <1>1, <3>1, <3>2, TypeRequestAnswered DEF TypeOK, PendingTimeout, cliVars
  <2> QED
    BY <2>1, <2>2
<1>2. ASSUME NEW c \in Cmd, WaitTimeout(c)
      PROVE  TypeOK'
  BY <1>2, RespondTyped DEF TypeOK, WaitTimeout, CmdTyped, extVars, cliVars, tabVars
<1> QED
  BY <1>1, <1>2

LEMMA TypeClients ==
  ASSUME TypeOK, NEW cl \in Client, ClientStep(cl)
  PROVE  TypeOK'
<1>1. CASE ClientConnects(cl)
  BY <1>1 DEF TypeOK, ClientConnects, extVars, tabVars, jobVars
<1>2. CASE ClientLeaves(cl)
  BY <1>2, ForgetTyped DEF TypeOK, ClientLeaves, extVars, jobVars
<1>3. CASE ClientClosed(cl)
  BY <1>3 DEF TypeOK, ClientClosed, extVars, tabVars, jobVars
<1>4. ASSUME NEW c \in Cmd, NEW sh \in CmdShape, CommandReceived(c, cl, sh)
      PROVE  TypeOK'
  <2>1. cmd' \in [Cmd -> CmdHandler]
    BY <1>4 DEF TypeOK, CommandReceived, CmdHandler, Awaiting, Ended
  <2> QED
    BY <1>4, <2>1 DEF TypeOK, CommandReceived, extVars, cliVars, tabVars
<1> QED
  BY <1>1, <1>2, <1>3, <1>4 DEF ClientStep

LEMMA TypeRoute ==
  ASSUME TypeOK, NEW c \in Cmd, Route(c)
  PROVE  TypeOK'
<1>1. CASE RouteLocal(c)
  BY <1>1, RespondTyped DEF TypeOK, Route, RouteLocal, CmdTyped, cliVars, tabVars
<1>2. CASE RouteAutoAttach(c)
  <2>1. cmd[c].client \in Client
    BY DEF TypeOK, Route, CmdHandler, Awaiting, Ended
  <2>2. view' \in [Client -> SUBSET Attachment] /\ autoAttached' \subseteq Client
    BY <1>2, <2>1 DEF TypeOK, RouteAutoAttach
  <2> QED
    BY <1>2, <2>2, RespondTyped DEF TypeOK, Route, RouteAutoAttach, CmdTyped, cliVars
<1>3. CASE RouteAttach(c)
  <2>1. connectedTargets' \subseteq Attachment /\ view' \in [Client -> SUBSET Attachment]
    BY <1>3, PruneTyped DEF TypeOK, RouteAttach, AfterTarget
  <2> QED
    BY <1>3, <2>1, RespondTyped DEF TypeOK, Route, RouteAttach, CmdTyped, cliVars
<1>4. CASE RouteForward(c) /\ ExtensionConnected
  <2>1. cmd' \in [Cmd -> CmdHandler]
    <3>1. [cmd[c] EXCEPT !.status = "pending"] \in CmdHandler
      BY HandlerMoves DEF TypeOK, Route, Awaiting
    <3> QED
      BY <1>4, <3>1 DEF TypeOK, RouteForward
  <2>2. SendToExtension(c, pendingExtension, asked)
    BY <1>4 DEF RouteForward
  <2>3. /\ nextExtensionId' \in Nat \ {0}
        /\ pendingExtension' \in [DOMAIN pendingExtension' -> Cmd \cup Req]
        /\ DOMAIN pendingExtension' \subseteq 1..(nextExtensionId' - 1)
        /\ asked' \in [Ext -> SUBSET Message]
    BY <1>4, <2>2, SendTyped DEF TypeOK
  <2> QED
    BY <1>4, <2>1, <2>3 DEF TypeOK, Route, RouteForward, cliVars, tabVars
<1>5. CASE ~ExtensionConnected
  BY <1>5, RespondTyped DEF TypeOK, Route, CmdTyped, cliVars, tabVars
<1> QED
  BY <1>1, <1>2, <1>3, <1>4, <1>5 DEF Route

LEMMA TypeRequests ==
  ASSUME TypeOK, NEW r \in Req, RequestStep(r)
  PROVE  TypeOK'
<1>1. ASSUME NEW k \in ReqKind, RequestArrives(r, k)
      PROVE  TypeOK'
  <2>1. req' \in [Req -> ReqHandler]
    BY <1>1 DEF TypeOK, RequestArrives, ReqHandler, ReqStatus
  <2> QED
    BY <1>1, <2>1 DEF TypeOK, RequestArrives, extVars, cliVars, tabVars
<1>2. CASE RequestStarts(r)
  <2>1. req' \in [Req -> ReqHandler]
    BY <1>2, RequestGoes DEF TypeOK, RequestStarts, SetReq, ReqHandler, ReqStatus
  <2>2. /\ nextExtensionId' \in Nat \ {0}
        /\ pendingExtension' \in [DOMAIN pendingExtension' -> Cmd \cup Req]
        /\ DOMAIN pendingExtension' \subseteq 1..(nextExtensionId' - 1)
        /\ asked' \in [Ext -> SUBSET Message]
    <3>1. CASE SendToExtension(r, pendingExtension, asked)
      BY <3>1, SendTyped DEF TypeOK
    <3>2. CASE /\ pendingExtension' = pendingExtension /\ asked' = asked
               /\ TakeId \/ UNCHANGED nextExtensionId
      BY <3>2 DEF TypeOK, TakeId
    <3> QED
      BY <1>2, <3>1, <3>2, RequestGoes DEF RequestStarts
  <2> QED
    BY <1>2, <2>1, <2>2 DEF TypeOK, RequestStarts, cliVars, tabVars
<1> QED
  BY <1>1, <1>2 DEF RequestStep
LEMMA TypeStep == TypeOK /\ [Next]_vars => TypeOK'
<1> SUFFICES ASSUME TypeOK, [Next]_vars PROVE TypeOK'
  OBVIOUS
<1>1. ASSUME NEW e \in Ext, ExtensionStep(e) PROVE TypeOK'
  BY <1>1, TypeUpgrade, TypeClosed, TypeEvents, TypeAnswers DEF ExtensionStep
<1>2. ASSUME NEW cl \in Client, ClientStep(cl) PROVE TypeOK'
  BY <1>2, TypeClients
<1>3. ASSUME NEW r \in Req, RequestStep(r) PROVE TypeOK'
  BY <1>3, TypeRequests
<1>4. ASSUME NEW c \in Cmd, Route(c) \/ WaitTimeout(c) PROVE TypeOK'
  BY <1>4, TypeRoute, TypeTimeouts
<1>5. ASSUME NEW id \in DOMAIN pendingExtension, PendingTimeout(id) PROVE TypeOK'
  BY <1>5, TypeTimeouts
<1>6. CASE DisconnectTimerFires \/ Stop
  BY <1>6, TypeGraceAndStop
<1>7. CASE UNCHANGED vars
  BY <1>7 DEF TypeOK, vars, extVars, cliVars, tabVars, jobVars
<1> QED
  BY <1>1, <1>2, <1>3, <1>4, <1>5, <1>6, <1>7 DEF Next

(* Every variable of the relay keeps its type.                             *)
THEOREM TypeCorrect == Spec => []TypeOK
  BY TypeInit, TypeStep, PTL DEF Spec
---------------------------------------------------------------------------
(***************************************************************************)
(* The sockets.  Most steps leave the extension sockets alone; the rest    *)
(* are the five socket steps and stop().                                   *)
(***************************************************************************)
SocketStep(e) ==
  \/ ExtensionUpgrade(e) \/ ExtensionRefused(e) \/ ExtensionHandshakeFails(e)
  \/ ExtensionLeaves(e) \/ ExtensionClosed(e)

MessageStep(e) ==
  \/ \E s \in Session, t \in Target : TargetAttached(e, s, t)
  \/ \E s \in Session : SessionDetached(e, s)
  \/ \E t \in Target : TargetGone(e, t)
  \/ \E m \in asked[e], answer \in {"ok", "error", "missing"} :
       ExtensionAnswers(e, m, answer)

LEMMA MessagesKeepSockets ==
  ASSUME NEW e \in Ext, MessageStep(e)
  PROVE  UNCHANGED <<extensionWs, extState, disconnectTimer, cliState, cdpClients, server>>
  BY DEF MessageStep, TargetAttached, SessionDetached, TargetGone, ExtensionAnswers,
         extVars, cliVars

LEMMA OthersKeepSockets ==
  ASSUME \/ \E cl \in Client : ClientStep(cl)
         \/ \E r \in Req : RequestStep(r)
         \/ \E c \in Cmd : Route(c) \/ WaitTimeout(c)
         \/ \E id \in DOMAIN pendingExtension : PendingTimeout(id)
         \/ DisconnectTimerFires
  PROVE  UNCHANGED <<extensionWs, extState, server>>
  BY DEF ClientStep, RequestStep, ClientConnects, ClientLeaves, ClientClosed,
         CommandReceived, RequestArrives, RequestStarts, Route, WaitTimeout,
         PendingTimeout, DisconnectTimerFires, extVars

LEMMA OneOpenStep == TypeOK /\ OneOpenExtension /\ [Next]_vars => OneOpenExtension'
<1> SUFFICES ASSUME TypeOK, OneOpenExtension, [Next]_vars
             PROVE  OneOpenExtension'
  OBVIOUS
<1>1. ASSUME NEW e \in Ext, SocketStep(e) PROVE OneOpenExtension'
  <2>1. CASE ExtensionUpgrade(e) \/ ExtensionHandshakeFails(e)
    BY <2>1 DEF TypeOK, OneOpenExtension, ExtensionUpgrade, ExtensionHandshakeFails,
                NoLiveExtension, ExtensionConnected
  <2>2. CASE ExtensionRefused(e) \/ ExtensionLeaves(e)
    BY <2>2 DEF TypeOK, OneOpenExtension, ExtensionRefused, ExtensionLeaves
  <2>3. CASE ExtensionClosed(e)
    BY <2>3 DEF TypeOK, OneOpenExtension, ExtensionClosed, Current
  <2> QED
    BY <1>1, <2>1, <2>2, <2>3 DEF SocketStep
<1>2. ASSUME NEW e \in Ext, MessageStep(e) PROVE OneOpenExtension'
  BY <1>2, MessagesKeepSockets DEF OneOpenExtension
<1>3. CASE Stop
  BY <1>3 DEF TypeOK, OneOpenExtension, Stop
<1>4. CASE UNCHANGED vars
  BY <1>4 DEF OneOpenExtension, vars, extVars
<1>5. CASE UNCHANGED <<extensionWs, extState, server>>
  BY <1>5 DEF OneOpenExtension
<1> QED
  BY <1>1, <1>2, <1>3, <1>4, <1>5, OthersKeepSockets
     DEF Next, ExtensionStep, SocketStep, MessageStep

(* A second live extension never gets in.                                  *)
THEOREM OneExtension == Spec => []OneOpenExtension
<1>1. Init => OneOpenExtension
  BY DEF Init, OneOpenExtension
<1> QED
  BY <1>1, OneOpenStep, TypeCorrect, PTL DEF Spec
---------------------------------------------------------------------------
(***************************************************************************)
(* No lost wake-up: commands begin to wait only while there is no live     *)
(* extension, and the step that makes one live wakes them all.             *)
(***************************************************************************)
WaitsKept == CmdsWith("waiting")' \subseteq CmdsWith("waiting")

LEMMA RespondWakesNobody ==
  ASSUME TypeOK
  PROVE  /\ \A S, sockets : RespondAll(S, sockets) => WaitsKept
         /\ \A c \in Cmd, outcome \in {"result", "error"} : Respond(c, outcome) => WaitsKept
  BY DEF TypeOK, RespondAll, Respond, Sent, WaitsKept, CmdsWith

LEMMA MessagesKeepWaits == ASSUME TypeOK, NEW e \in Ext, MessageStep(e) PROVE WaitsKept
<1>1. CASE cmd' = cmd
  BY <1>1 DEF WaitsKept, CmdsWith
<1>2. ASSUME NEW m \in asked[e], NEW answer \in {"ok", "error", "missing"},
             ExtensionAnswers(e, m, answer)
      PROVE  WaitsKept
  <2>1. CASE m.id \in DOMAIN pendingExtension /\ pendingExtension[m.id] \in Cmd
    BY <1>2, <2>1, RespondWakesNobody DEF ExtensionAnswers, CommandAnswered
  <2>2. CASE ~(m.id \in DOMAIN pendingExtension /\ pendingExtension[m.id] \in Cmd)
    BY <1>1, <1>2, <2>2, RequestGoesOn DEF ExtensionAnswers, jobVars
  <2> QED
    BY <2>1, <2>2
<1> QED
  BY <1>1, <1>2 DEF MessageStep, TargetAttached, SessionDetached, TargetGone, jobVars

LEMMA NoWaitStep ==
  TypeOK /\ NoWaitWhileConnected /\ [Next]_vars => NoWaitWhileConnected'
<1> SUFFICES ASSUME TypeOK, NoWaitWhileConnected, [Next]_vars
             PROVE  NoWaitWhileConnected'
  OBVIOUS
<1>1. CASE WaitsKept /\ (ExtensionConnected' => ExtensionConnected)
  BY <1>1 DEF NoWaitWhileConnected, WaitsKept
<1>2. ASSUME NEW e \in Ext, SocketStep(e) PROVE NoWaitWhileConnected'
  <2>1. CASE ExtensionUpgrade(e)
    BY <2>1 DEF TypeOK, NoWaitWhileConnected, ExtensionUpgrade, WakeWaiters, CmdsWith
  <2>2. CASE ExtensionHandshakeFails(e)
    BY <2>2 DEF NoWaitWhileConnected, ExtensionHandshakeFails, ExtensionConnected
  <2>3. CASE ExtensionRefused(e) \/ ExtensionLeaves(e)
    BY <1>1, <2>3 DEF TypeOK, ExtensionRefused, ExtensionLeaves, ExtensionConnected,
                      WaitsKept, CmdsWith, jobVars
  <2>4. CASE ExtensionClosed(e)
    <3>1. ExtensionConnected' => ExtensionConnected
      BY <2>4 DEF TypeOK, ExtensionClosed, ExtensionConnected
    <3>2. WaitsKept
      BY <2>4, RespondWakesNobody DEF ExtensionClosed, WaitsKept, CmdsWith, jobVars
    <3> QED
      BY <1>1, <3>1, <3>2
  <2> QED
    BY <1>2, <2>1, <2>2, <2>3, <2>4 DEF SocketStep
<1>3. ASSUME NEW e \in Ext, MessageStep(e) PROVE NoWaitWhileConnected'
  BY <1>1, <1>3, MessagesKeepWaits, MessagesKeepSockets DEF ExtensionConnected
<1>4. CASE Stop
  <2>1. ExtensionConnected' => ExtensionConnected
    BY <1>4 DEF TypeOK, Stop, ExtensionConnected
  <2> QED
    BY <1>1, <1>4, <2>1, RespondWakesNobody DEF Stop
<1>5. ASSUME NEW cl \in Client, ClientStep(cl) PROVE NoWaitWhileConnected'
  <2>1. ASSUME NEW c \in Cmd, NEW sh \in CmdShape, CommandReceived(c, cl, sh)
        PROVE  NoWaitWhileConnected'
    BY <2>1 DEF TypeOK, CommandReceived, NoWaitWhileConnected, ExtensionConnected,
                CmdsWith, extVars
  <2>2. CASE cmd' = cmd
    BY <1>1, <1>5, <2>2, OthersKeepSockets DEF WaitsKept, CmdsWith, ExtensionConnected
  <2> QED
    BY <1>5, <2>1, <2>2 DEF ClientStep, ClientConnects, ClientLeaves, ClientClosed, jobVars
<1>6. ASSUME NEW r \in Req, RequestStep(r) PROVE NoWaitWhileConnected'
  <2>1. cmd' = cmd
    BY <1>6 DEF RequestStep, RequestArrives, RequestStarts
  <2> QED
    BY <1>1, <1>6, <2>1, OthersKeepSockets DEF WaitsKept, CmdsWith, ExtensionConnected
<1>7. ASSUME NEW c \in Cmd, Route(c) \/ WaitTimeout(c) PROVE NoWaitWhileConnected'
  <2>1. CASE Respond(c, "error") \/ Respond(c, "result")
    BY <1>1, <1>7, <2>1, RespondWakesNobody, OthersKeepSockets DEF ExtensionConnected
  <2>2. CASE RouteForward(c)
    BY <1>1, <1>7, <2>2, OthersKeepSockets
       DEF TypeOK, RouteForward, WaitsKept, CmdsWith, ExtensionConnected
  <2> QED
    BY <1>7, <2>1, <2>2 DEF Route, WaitTimeout, RouteLocal, RouteAutoAttach, RouteAttach
<1>8. ASSUME NEW id \in DOMAIN pendingExtension, PendingTimeout(id)
      PROVE  NoWaitWhileConnected'
  <2>1. CASE pendingExtension[id] \in Cmd
    BY <1>1, <1>8, <2>1, RespondWakesNobody, OthersKeepSockets
       DEF PendingTimeout, ExtensionConnected
  <2>2. CASE cmd' = cmd
    BY <1>1, <1>8, <2>2, OthersKeepSockets DEF WaitsKept, CmdsWith, ExtensionConnected
  <2> QED
    BY <1>8, <2>1, <2>2 DEF PendingTimeout, RequestAnswered
<1>9. CASE DisconnectTimerFires
  <2>1. CASE cmd' = cmd
    BY <1>1, <1>9, <2>1, OthersKeepSockets DEF WaitsKept, CmdsWith, ExtensionConnected
  <2> QED
    BY <1>1, <1>9, <2>1, RespondWakesNobody, OthersKeepSockets
       DEF DisconnectTimerFires, ExtensionConnected
<1>10. CASE UNCHANGED vars
  BY <1>1, <1>10 DEF WaitsKept, CmdsWith, ExtensionConnected, vars, jobVars, extVars
<1> QED
  BY <1>2, <1>3, <1>4, <1>5, <1>6, <1>7, <1>8, <1>9, <1>10
     DEF Next, ExtensionStep, SocketStep, MessageStep

(* A command never sleeps on while the extension is connected.             *)
THEOREM NoLostWakeUp == Spec => []NoWaitWhileConnected
<1>1. Init => NoWaitWhileConnected
  BY DEF Init, NoWaitWhileConnected, ExtensionConnected
<1> QED
  BY <1>1, NoWaitStep, TypeCorrect, PTL DEF Spec
---------------------------------------------------------------------------
(***************************************************************************)
(* The grace period.                                                       *)
(***************************************************************************)
LEMMA WatchedStep == TypeOK /\ LossIsWatched /\ [Next]_vars => LossIsWatched'
<1> SUFFICES ASSUME TypeOK, LossIsWatched, [Next]_vars
             PROVE  LossIsWatched'
  OBVIOUS
<1>1. CASE /\ UNCHANGED <<extensionWs, server, disconnectTimer>>
           /\ connectedTargets' \subseteq connectedTargets
  BY <1>1 DEF LossIsWatched
<1>2. ASSUME NEW e \in Ext, SocketStep(e) PROVE LossIsWatched'
  BY <1>1, <1>2 DEF SocketStep, ExtensionUpgrade, ExtensionRefused, ExtensionHandshakeFails,
     ExtensionLeaves, ExtensionClosed, StartGrace, LossIsWatched, tabVars
<1>3. ASSUME NEW e \in Ext, MessageStep(e) PROVE LossIsWatched'
  <2>1. extensionWs \in Ext
    BY <1>3 DEF MessageStep, TargetAttached, SessionDetached, TargetGone, ExtensionAnswers,
       Heard, Current
  <2> QED
    BY <1>3, <2>1, MessagesKeepSockets DEF LossIsWatched
<1>4. ASSUME NEW c \in Cmd, Route(c) \/ WaitTimeout(c) PROVE LossIsWatched'
  BY <1>1, <1>4 DEF Route, RouteLocal, RouteAutoAttach, RouteAttach, RouteForward, PruneStale,
     WaitTimeout, extVars, tabVars
<1>5. ASSUME NEW id \in DOMAIN pendingExtension, PendingTimeout(id) PROVE LossIsWatched'
  BY <1>1, <1>5, RequestGoesOn DEF PendingTimeout
<1>6. CASE (\E cl \in Client : ClientStep(cl)) \/ (\E r \in Req : RequestStep(r))
  BY <1>1, <1>6 DEF ClientStep, RequestStep, ClientConnects, ClientLeaves, ClientClosed,
     CommandReceived, RequestArrives, RequestStarts, extVars, tabVars
<1>7. CASE DisconnectTimerFires
  BY <1>7 DEF DisconnectTimerFires, ExtensionConnected, LossIsWatched
<1>8. CASE Stop
  BY <1>8 DEF Stop, LossIsWatched
<1>9. CASE UNCHANGED vars
  BY <1>1, <1>9 DEF vars, extVars, tabVars
<1> QED
  BY <1>2, <1>3, <1>4, <1>5, <1>6, <1>7, <1>8, <1>9
     DEF Next, ExtensionStep, SocketStep, MessageStep

(* Tabs are kept without an extension only while the clean-up is armed.    *)
THEOREM LossesAreWatched == Spec => []LossIsWatched
<1>1. Init => LossIsWatched
  BY DEF Init, LossIsWatched
<1> QED
  BY <1>1, WatchedStep, TypeCorrect, PTL DEF Spec

(* Only stop(), or the clean-up when no extension socket is open, closes a *)
(* client: a stale timer or a late close of an old socket never does.      *)
THEOREM ClientsAreKept == Spec => ClientsSurviveReconnect
<1> DEFINE Kept == \A cl \in Client : cliState[cl] = "open" /\ cliState'[cl] = "closing" =>
                     server' = "stopped" \/ \A e \in Ext : extState[e] # "open"
<1>1. ASSUME TypeOK, OneOpenExtension, [Next]_vars
      PROVE  Kept
  <2>1. CASE UNCHANGED cliState
    BY <2>1
  <2>2. ASSUME NEW cl \in Client, ClientStep(cl) PROVE Kept
    BY <1>1, <2>2 DEF TypeOK, ClientStep, ClientConnects, ClientLeaves, ClientClosed,
       CommandReceived, cliVars
  <2>3. CASE DisconnectTimerFires
    BY <1>1, <2>3 DEF DisconnectTimerFires, ExtensionConnected, OneOpenExtension, TypeOK
  <2>4. CASE Stop
    BY <2>4 DEF Stop
  <2>5. ASSUME NEW e \in Ext, ExtensionStep(e) PROVE UNCHANGED cliState
    BY <2>5, MessagesKeepSockets DEF ExtensionStep, MessageStep, ExtensionUpgrade,
       ExtensionRefused, ExtensionHandshakeFails, ExtensionLeaves, ExtensionClosed, cliVars
  <2>6. CASE \/ \E r \in Req : RequestStep(r)
             \/ \E c \in Cmd : Route(c) \/ WaitTimeout(c)
             \/ \E id \in DOMAIN pendingExtension : PendingTimeout(id)
             \/ UNCHANGED vars
    BY <2>6 DEF RequestStep, RequestArrives, RequestStarts, Route, WaitTimeout, PendingTimeout,
       cliVars, vars
  <2> QED
    BY <1>1, <2>1, <2>2, <2>3, <2>4, <2>5, <2>6 DEF Next
<1> QED
  BY <1>1, OneExtension, TypeCorrect, PTL DEF Spec, ClientsSurviveReconnect
---------------------------------------------------------------------------
(***************************************************************************)
(* The pending map.  An entry is made in the step in which its handler     *)
(* begins to wait, and removed in the step in which it ends its wait; the  *)
(* id is new, so that no extension can hold another message under it.      *)
(***************************************************************************)
Entered(job, pending) ==
  [i \in DOMAIN pending \cup {nextExtensionId} |->
     IF i = nextExtensionId THEN job ELSE pending[i]]

LEMMA EntryMade ==
  ASSUME TypeOK, NEW job, NEW pending, DOMAIN pending \subseteq DOMAIN pendingExtension,
         IsInjective(pending), job \notin Range(pending)
  PROVE  /\ IsInjective(Entered(job, pending))
         /\ Range(Entered(job, pending)) = Range(pending) \cup {job}
<1>1. nextExtensionId \notin DOMAIN pending
  BY DEF TypeOK
<1>2. \A i \in DOMAIN pending : pending[i] # job
  BY DEF Range
<1> QED
  BY <1>1, <1>2 DEF Entered, IsInjective, Range

LEMMA EntryRemoved ==
  ASSUME IsInjective(pendingExtension), NEW id \in DOMAIN pendingExtension
  PROVE  /\ IsInjective(Without(id))
         /\ Range(Without(id)) = InFlight \ {pendingExtension[id]}
         /\ DOMAIN Without(id) \subseteq DOMAIN pendingExtension
<1>1. /\ DOMAIN Without(id) = DOMAIN pendingExtension \ {id}
      /\ \A i \in DOMAIN pendingExtension \ {id} : Without(id)[i] = pendingExtension[i]
  BY DEF Without, Restrict
<1>2. \A i \in DOMAIN pendingExtension \ {id} : pendingExtension[i] # pendingExtension[id]
  BY DEF IsInjective
<1>3. IsInjective(Without(id))
  BY <1>1 DEF IsInjective
<1>4. Range(Without(id)) = InFlight \ {pendingExtension[id]}
  BY <1>1, <1>2 DEF Range, InFlight
<1> QED
  BY <1>1, <1>3, <1>4

LEMMA NoEntries == IsInjective(NoPending) /\ Range(NoPending) = {}
  BY DEF NoPending, IsInjective, Range

PendingCmds == {c \in Cmd : cmd[c].status = "pending"}
PendingReqs == {r \in Req : req[r].status \in {"first", "second"}}

LEMMA OwnedAgain ==
  PendingOwned <=> /\ IsInjective(pendingExtension)
                   /\ PendingCmds = InFlight \cap Cmd
                   /\ PendingReqs = InFlight \cap Req
  BY DEF PendingOwned, PendingCmds, PendingReqs

LEMMA OwnedQuiet ==
  ASSUME PendingOwned, UNCHANGED pendingExtension, PendingCmds' = PendingCmds,
         PendingReqs' = PendingReqs
  PROVE  PendingOwned'
  BY OwnedAgain DEF PendingOwned, PendingCmds, PendingReqs, InFlight

LEMMA RespondedCmds ==
  ASSUME TypeOK
  PROVE  /\ \A c \in Cmd, outcome \in {"result", "error"} :
              Respond(c, outcome) => PendingCmds' = PendingCmds \ {c}
         /\ \A S, sockets : RespondAll(S, sockets) => PendingCmds' = PendingCmds \ S
  BY DEF TypeOK, Respond, RespondAll, Sent, PendingCmds

LEMMA OwnedSettled ==
  ASSUME TypeOK, PendingOwned, pendingExtension' = NoPending, RejectAllReqs,
         NEW S, NEW sockets, RespondAll(S, sockets), InFlight \cap Cmd \subseteq S
  PROVE  PendingOwned'
<1>1. PendingCmds' = {}
  BY RespondedCmds, OwnedAgain
<1>2. PendingReqs' = {}
  BY OwnedAgain DEF RejectAllReqs, PendingReqs, TypeOK, ReqHandler
<1> QED
  BY <1>1, <1>2, NoEntries DEF PendingOwned, PendingCmds, PendingReqs, InFlight

LEMMA OwnedRequest ==
  ASSUME TypeOK, PendingOwned, NEW id \in DOMAIN pendingExtension, pendingExtension[id] \in Req,
         NEW answer, NEW unanswered,
         RequestAnswered(pendingExtension[id], id, answer, unanswered)
  PROVE  PendingOwned'
<1> DEFINE r == pendingExtension[id]
<1>1. r \in PendingReqs /\ r \notin Cmd /\ r \in Req
  BY OwnedAgain DEF InFlight, Range
<1>2. PendingCmds' = PendingCmds
  BY RequestGoesOn DEF PendingCmds
<1>3. CASE SendToExtension(r, Without(id), unanswered) /\ SetReq(r, "second")
  <2>1. pendingExtension' = Entered(r, Without(id)) /\ SetReq(r, "second")
    BY <1>3 DEF SendToExtension, Entered
  <2>2. r \notin Range(Without(id))
    BY EntryRemoved DEF PendingOwned
  <2>3. /\ IsInjective(Entered(r, Without(id)))
        /\ Range(Entered(r, Without(id))) = Range(Without(id)) \cup {r}
    BY <2>2, EntryRemoved, EntryMade DEF PendingOwned
  <2>4. Range(Entered(r, Without(id))) = InFlight
    BY <2>3, EntryRemoved DEF PendingOwned, InFlight, Range
  <2>5. PendingReqs' = PendingReqs
    BY <1>1, <2>1 DEF SetReq, PendingReqs, TypeOK, ReqHandler
  <2> QED
    BY <1>2, <2>1, <2>3, <2>4, <2>5, OwnedAgain
       DEF PendingOwned, PendingCmds, PendingReqs, InFlight
<1>4. CASE pendingExtension' = Without(id) /\ (SetReq(r, "ok") \/ SetReq(r, "failed"))
  <2>2. PendingReqs' = PendingReqs \ {r}
    BY <1>1, <1>4 DEF SetReq, PendingReqs, TypeOK, ReqHandler
  <2>3. IsInjective(pendingExtension') /\ Range(pendingExtension') = InFlight \ {r}
    BY <1>4, EntryRemoved DEF PendingOwned
  <2> QED
    BY <1>1, <1>2, <2>2, <2>3, OwnedAgain DEF PendingOwned, PendingCmds, PendingReqs, InFlight
<1> QED
  BY <1>3, <1>4, RequestGoesOn

LEMMA OwnedCommand ==
  ASSUME TypeOK, PendingOwned, NEW id \in DOMAIN pendingExtension, pendingExtension[id] \in Cmd,
         pendingExtension' = Without(id), NEW outcome \in {"result", "error"},
         Respond(pendingExtension[id], outcome), UNCHANGED req
  PROVE  PendingOwned'
<1> DEFINE c == pendingExtension[id]
<1>1. PendingCmds' = PendingCmds \ {c} /\ PendingReqs' = PendingReqs
  BY RespondedCmds DEF PendingReqs
<1>2. IsInjective(pendingExtension') /\ Range(pendingExtension') = InFlight \ {c}
  BY EntryRemoved DEF PendingOwned
<1>3. c \notin Req
  OBVIOUS
<1> QED
  BY <1>1, <1>2, <1>3, OwnedAgain DEF PendingOwned, PendingCmds, PendingReqs, InFlight

(* A command or a request begins to wait.                                  *)
LEMMA OwnedBegun ==
  ASSUME TypeOK, PendingOwned, NEW job \in Cmd \cup Req, job \notin InFlight,
         SendToExtension(job, pendingExtension, asked),
         PendingCmds' = PendingCmds \cup ({job} \cap Cmd),
         PendingReqs' = PendingReqs \cup ({job} \cap Req)
  PROVE  PendingOwned'
<1>1. pendingExtension' = Entered(job, pendingExtension)
  BY DEF SendToExtension, Entered
<1>2. IsInjective(pendingExtension') /\ Range(pendingExtension') = InFlight \cup {job}
  BY <1>1, EntryMade DEF PendingOwned, InFlight
<1> QED
  BY <1>2, OwnedAgain DEF PendingOwned, PendingCmds, PendingReqs, InFlight

LEMMA OwnedSockets ==
  ASSUME TypeOK, PendingOwned, NEW e \in Ext, SocketStep(e)
  PROVE  PendingOwned'
<1>1. CASE ExtensionUpgrade(e)
  <2>1. PendingCmds' = PendingCmds
    BY <1>1 DEF ExtensionUpgrade, WakeWaiters, CmdsWith, PendingCmds, TypeOK
  <2> QED
    BY <1>1, <2>1, OwnedQuiet DEF ExtensionUpgrade, PendingReqs
<1>2. CASE ExtensionRefused(e) \/ ExtensionHandshakeFails(e) \/ ExtensionLeaves(e)
  BY <1>2, OwnedQuiet DEF ExtensionRefused, ExtensionHandshakeFails, ExtensionLeaves, jobVars,
     PendingCmds, PendingReqs
<1>3. CASE ExtensionClosed(e) /\ Current(e)
  BY <1>3, OwnedSettled DEF ExtensionClosed
<1>4. CASE ExtensionClosed(e) /\ ~Current(e)
  BY <1>4, OwnedQuiet DEF ExtensionClosed, jobVars, PendingCmds, PendingReqs
<1> QED
  BY <1>1, <1>2, <1>3, <1>4 DEF SocketStep

LEMMA OwnedMessages ==
  ASSUME TypeOK, PendingOwned, NEW e \in Ext, MessageStep(e)
  PROVE  PendingOwned'
<1>1. ASSUME NEW m \in asked[e], NEW answer \in {"ok", "error", "missing"},
             ExtensionAnswers(e, m, answer)
      PROVE  PendingOwned'
  <2>1. CASE m.id \notin DOMAIN pendingExtension
    BY <1>1, <2>1, OwnedQuiet DEF ExtensionAnswers, jobVars, PendingCmds, PendingReqs
  <2>2. CASE m.id \in DOMAIN pendingExtension /\ pendingExtension[m.id] \in Cmd
    BY <1>1, <2>2, OwnedCommand DEF ExtensionAnswers, CommandAnswered
  <2>3. CASE m.id \in DOMAIN pendingExtension /\ pendingExtension[m.id] \notin Cmd
    <3>1. pendingExtension[m.id] \in Req
      BY <2>3 DEF TypeOK
    <3>2. RequestAnswered(pendingExtension[m.id], m.id, answer, [asked EXCEPT ![e] = @ \ {m}])
      BY <1>1, <2>3 DEF ExtensionAnswers
    <3> QED
      BY <2>3, <3>1, <3>2, OwnedRequest
  <2> QED
    BY <2>1, <2>2, <2>3
<1>2. CASE UNCHANGED jobVars
  BY <1>2, OwnedQuiet DEF jobVars, PendingCmds, PendingReqs
<1> QED
  BY <1>1, <1>2 DEF MessageStep, TargetAttached, SessionDetached, TargetGone

LEMMA OwnedClients ==
  ASSUME TypeOK, PendingOwned, NEW cl \in Client, ClientStep(cl)
  PROVE  PendingOwned'
<1>1. ASSUME NEW c \in Cmd, NEW sh \in CmdShape, CommandReceived(c, cl, sh)
      PROVE  PendingOwned'
  <2>1. PendingCmds' = PendingCmds
    BY <1>1 DEF CommandReceived, PendingCmds, TypeOK
  <2> QED
    BY <1>1, <2>1, OwnedQuiet DEF CommandReceived, PendingReqs
<1>2. CASE UNCHANGED jobVars
  BY <1>2, OwnedQuiet DEF jobVars, PendingCmds, PendingReqs
<1> QED
  BY <1>1, <1>2 DEF ClientStep, ClientConnects, ClientLeaves, ClientClosed

LEMMA OwnedRequests ==
  ASSUME TypeOK, PendingOwned, NEW r \in Req, RequestStep(r)
  PROVE  PendingOwned'
<1> USE DEF TypeOK, ReqHandler
<1>1. r \notin Cmd
  OBVIOUS
<1>2. ASSUME NEW k \in ReqKind, RequestArrives(r, k)
      PROVE  PendingOwned'
  <2>1. PendingReqs' = PendingReqs
    BY <1>2 DEF RequestArrives, PendingReqs
  <2> QED
    BY <1>2, <2>1, OwnedQuiet DEF RequestArrives, PendingCmds
<1>3. CASE RequestStarts(r)
  <2>1. r \notin PendingReqs /\ r \notin InFlight /\ cmd' = cmd
    BY <1>3, OwnedAgain DEF RequestStarts, PendingReqs
  <2>2. CASE SendToExtension(r, pendingExtension, asked) /\ SetReq(r, "first")
    <3>1. PendingReqs' = PendingReqs \cup {r}
      BY <2>2 DEF SetReq, PendingReqs
    <3> QED
      BY <1>1, <2>1, <2>2, <3>1, OwnedBegun DEF PendingCmds
  <2>3. CASE SetReq(r, "failed") /\ UNCHANGED pendingExtension
    <3>1. PendingReqs' = PendingReqs
      BY <2>1, <2>3 DEF SetReq, PendingReqs
    <3> QED
      BY <2>1, <2>3, <3>1, OwnedQuiet DEF PendingCmds
  <2> QED
    BY <1>3, <2>2, <2>3, RequestGoes DEF RequestStarts
<1> QED
  BY <1>2, <1>3 DEF RequestStep

LEMMA OwnedCmds ==
  ASSUME TypeOK, PendingOwned, NEW c \in Cmd, Route(c) \/ WaitTimeout(c)
  PROVE  PendingOwned'
<1>1. c \notin PendingCmds /\ c \notin InFlight /\ c \notin Req /\ UNCHANGED req
  BY OwnedAgain DEF Route, WaitTimeout, PendingCmds
<1>2. CASE RouteForward(c)
  <2>1. PendingCmds' = PendingCmds \cup {c}
    BY <1>2 DEF RouteForward, PendingCmds, TypeOK
  <2> QED
    BY <1>1, <1>2, <2>1, OwnedBegun DEF RouteForward, PendingReqs
<1>3. CASE (Respond(c, "result") \/ Respond(c, "error")) /\ UNCHANGED pendingExtension
  <2>1. PendingCmds' = PendingCmds
    BY <1>1, <1>3, RespondedCmds
  <2> QED
    BY <1>1, <1>3, <2>1, OwnedQuiet DEF PendingReqs
<1> QED
  BY <1>2, <1>3 DEF Route, RouteLocal, RouteAutoAttach, RouteAttach, WaitTimeout

LEMMA OwnedStep == TypeOK /\ PendingOwned /\ [Next]_vars => PendingOwned'
<1> SUFFICES ASSUME TypeOK, PendingOwned, [Next]_vars PROVE PendingOwned'
  OBVIOUS
<1>1. ASSUME NEW id \in DOMAIN pendingExtension, PendingTimeout(id) PROVE PendingOwned'
  <2>1. CASE pendingExtension[id] \in Cmd
    BY <1>1, <2>1, OwnedCommand DEF PendingTimeout
  <2>2. CASE pendingExtension[id] \notin Cmd
    <3>1. pendingExtension[id] \in Req
      BY <2>2 DEF TypeOK
    <3> QED
      BY <1>1, <2>2, <3>1, OwnedRequest DEF PendingTimeout
  <2> QED
    BY <2>1, <2>2
<1>2. CASE DisconnectTimerFires
  <2>1. PendingCmds' = PendingCmds
    <3>1. CmdsWith("waiting") \cap PendingCmds = {}
      BY DEF CmdsWith, PendingCmds
    <3>2. cmd' = cmd => PendingCmds' = PendingCmds
      BY DEF PendingCmds
    <3> QED
      BY <1>2, <3>1, <3>2, RespondedCmds DEF DisconnectTimerFires
  <2> QED
    BY <1>2, <2>1, OwnedQuiet DEF DisconnectTimerFires, PendingReqs
<1>3. CASE Stop
  BY <1>3, OwnedSettled DEF Stop
<1>4. CASE UNCHANGED vars
  BY <1>4, OwnedQuiet DEF vars, jobVars, PendingCmds, PendingReqs
<1> QED
  BY <1>1, <1>2, <1>3, <1>4, OwnedSockets, OwnedMessages, OwnedClients, OwnedRequests, OwnedCmds
     DEF Next, ExtensionStep, SocketStep, MessageStep

(* Each handler that awaits the extension has exactly one pending entry:   *)
(* an answer, a timer or a close always finds it, and settles it once.     *)
THEOREM PendingsAreOwned == Spec => []PendingOwned
<1>1. Init => PendingOwned
  BY NoEntries DEF Init, PendingOwned, InFlight
<1> QED
  BY <1>1, OwnedStep, TypeCorrect, PTL DEF Spec
---------------------------------------------------------------------------
(***************************************************************************)
(* Answers.  Ids only grow, so that none an extension still holds is used  *)
(* again, whatever socket it came over.                                    *)
(***************************************************************************)
IdsKept ==
  \A e \in Ext : \A m \in asked[e] :
    /\ m.id < nextExtensionId
    /\ m.id \in DOMAIN pendingExtension => pendingExtension[m.id] = m.job

LEMMA IdsImply == TypeOK /\ IdsKept => AnswersFindTheirAsker
  BY DEF TypeOK, IdsKept, AnswersFindTheirAsker

(* Entries and held messages only become fewer.                            *)
LEMMA IdsFewer ==
  ASSUME TypeOK, IdsKept, nextExtensionId' \in Nat, nextExtensionId <= nextExtensionId',
         DOMAIN pendingExtension' \subseteq DOMAIN pendingExtension,
         \A i \in DOMAIN pendingExtension' : pendingExtension'[i] = pendingExtension[i],
         \A e \in Ext : asked'[e] \subseteq asked[e]
  PROVE  IdsKept'
  BY DEF IdsKept, TypeOK, Message

LEMMA IdsSame ==
  ASSUME TypeOK, IdsKept, UNCHANGED <<nextExtensionId, pendingExtension>>,
         \A e \in Ext : asked'[e] \subseteq asked[e]
  PROVE  IdsKept'
  BY DEF IdsKept

LEMMA WithoutFewer ==
  ASSUME NEW id
  PROVE  /\ DOMAIN Without(id) \subseteq DOMAIN pendingExtension
         /\ \A i \in DOMAIN Without(id) : Without(id)[i] = pendingExtension[i]
  BY DEF Without, Restrict

(* A message is sent.                                                      *)
LEMMA IdsSent ==
  ASSUME TypeOK, IdsKept, NEW job, NEW pending,
         DOMAIN pending \subseteq DOMAIN pendingExtension,
         \A i \in DOMAIN pending : pending[i] = pendingExtension[i],
         NEW unanswered, unanswered \in [Ext -> SUBSET Message],
         \A e \in Ext : unanswered[e] \subseteq asked[e],
         SendToExtension(job, pending, unanswered)
  PROVE  IdsKept'
<1> DEFINE m == [id |-> nextExtensionId, job |-> job]
<1>1. /\ nextExtensionId \in Nat /\ nextExtensionId' = nextExtensionId + 1
      /\ nextExtensionId \notin DOMAIN pending
  BY DEF TypeOK, SendToExtension, TakeId
<1>2. /\ DOMAIN pendingExtension' = DOMAIN pending \cup {nextExtensionId}
      /\ pendingExtension'[nextExtensionId] = job
      /\ \A i \in DOMAIN pending : pendingExtension'[i] = pending[i]
  BY <1>1 DEF SendToExtension
<1>3. \A e \in Ext : asked'[e] \subseteq asked[e] \cup {m}
  BY DEF SendToExtension, ExtensionConnected, TypeOK
<1>4. \A e \in Ext : \A n \in asked[e] : n.id \in Nat /\ n.id < nextExtensionId
  BY DEF TypeOK, Message, IdsKept
<1> SUFFICES ASSUME NEW e \in Ext, NEW n \in asked'[e]
             PROVE  /\ n.id < nextExtensionId'
                    /\ n.id \in DOMAIN pendingExtension' => pendingExtension'[n.id] = n.job
  BY DEF IdsKept
<1>5. CASE n = m
  BY <1>1, <1>2, <1>5
<1>6. CASE n \in asked[e]
  BY <1>1, <1>2, <1>4, <1>6 DEF IdsKept
<1> QED
  BY <1>3, <1>5, <1>6

LEMMA IdsRequest ==
  ASSUME TypeOK, IdsKept, NEW r, NEW id, NEW answer,
         NEW unanswered \in [Ext -> SUBSET Message],
         \A e \in Ext : unanswered[e] \subseteq asked[e],
         RequestAnswered(r, id, answer, unanswered)
  PROVE  IdsKept'
<1>1. CASE SendToExtension(r, Without(id), unanswered)
  BY <1>1, WithoutFewer, IdsSent
<1>2. CASE /\ pendingExtension' = Without(id) /\ asked' = unanswered
           /\ TakeId \/ UNCHANGED nextExtensionId
  <2>1. nextExtensionId' \in Nat /\ nextExtensionId <= nextExtensionId'
    BY <1>2 DEF TakeId, TypeOK
  <2> QED
    BY <1>2, <2>1, WithoutFewer, IdsFewer
<1> QED
  BY <1>1, <1>2, RequestGoesOn

LEMMA IdsMessages ==
  ASSUME TypeOK, IdsKept, NEW e \in Ext, MessageStep(e)
  PROVE  IdsKept'
<1>1. ASSUME NEW m \in asked[e], NEW answer \in {"ok", "error", "missing"},
             ExtensionAnswers(e, m, answer)
      PROVE  IdsKept'
  <2> DEFINE unanswered == [asked EXCEPT ![e] = @ \ {m}]
  <2>1. unanswered \in [Ext -> SUBSET Message] /\ \A f \in Ext : unanswered[f] \subseteq asked[f]
    BY DEF TypeOK
  <2> HIDE DEF unanswered
  <2>2. \/ asked' = unanswered /\ UNCHANGED <<nextExtensionId, pendingExtension>>
        \/ asked' = unanswered /\ pendingExtension' = Without(m.id) /\ UNCHANGED nextExtensionId
        \/ RequestAnswered(pendingExtension[m.id], m.id, answer, unanswered)
    BY <1>1 DEF ExtensionAnswers, CommandAnswered, jobVars, unanswered
  <2>3. nextExtensionId \in Nat
    BY DEF TypeOK
  <2> QED
    BY <2>1, <2>2, <2>3, IdsSame, IdsFewer, WithoutFewer, IdsRequest
<1>2. CASE UNCHANGED <<jobVars, extVars>>
  BY <1>2, IdsSame DEF jobVars, extVars
<1> QED
  BY <1>1, <1>2 DEF MessageStep, TargetAttached, SessionDetached, TargetGone

LEMMA IdsStep == TypeOK /\ IdsKept /\ [Next]_vars => IdsKept'
<1> SUFFICES ASSUME TypeOK, IdsKept, [Next]_vars PROVE IdsKept'
  OBVIOUS
<1>1. ASSUME NEW e \in Ext, SocketStep(e) PROVE IdsKept'
  <2>1. CASE ExtensionClosed(e)
    <3>1. \A f \in Ext : asked'[f] \subseteq asked[f]
      BY <2>1 DEF ExtensionClosed, TypeOK
    <3>2. /\ nextExtensionId' \in Nat /\ nextExtensionId <= nextExtensionId'
          /\ pendingExtension' = NoPending \/ pendingExtension' = pendingExtension
      BY <2>1, RejectTyped DEF ExtensionClosed, jobVars, TypeOK
    <3> QED
      BY <3>1, <3>2, IdsFewer DEF NoPending
  <2>2. CASE UNCHANGED <<nextExtensionId, pendingExtension, asked>>
    BY <2>2, IdsSame
  <2> QED
    BY <1>1, <2>1, <2>2 DEF SocketStep, ExtensionUpgrade, ExtensionRefused,
       ExtensionHandshakeFails, ExtensionLeaves, jobVars
<1>2. ASSUME NEW r \in Req, RequestStep(r) PROVE IdsKept'
  <2>1. CASE SendToExtension(r, pendingExtension, asked)
    BY <2>1, IdsSent DEF TypeOK
  <2>2. CASE /\ UNCHANGED <<pendingExtension, asked>>
             /\ TakeId \/ UNCHANGED nextExtensionId
    BY <2>2, IdsFewer DEF TakeId, TypeOK
  <2> QED
    BY <1>2, <2>1, <2>2, RequestGoes DEF RequestStep, RequestArrives, RequestStarts, extVars
<1>3. ASSUME NEW c \in Cmd, Route(c) \/ WaitTimeout(c) PROVE IdsKept'
  <2>1. CASE SendToExtension(c, pendingExtension, asked)
    BY <2>1, IdsSent DEF TypeOK
  <2>2. CASE UNCHANGED <<nextExtensionId, pendingExtension, asked>>
    BY <2>2, IdsSame
  <2> QED
    BY <1>3, <2>1, <2>2 DEF Route, RouteLocal, RouteAutoAttach, RouteAttach, RouteForward,
       WaitTimeout, extVars
<1>4. ASSUME NEW id \in DOMAIN pendingExtension, PendingTimeout(id) PROVE IdsKept'
  <2>1. asked \in [Ext -> SUBSET Message]
    BY DEF TypeOK
  <2>2. \/ pendingExtension' = Without(id) /\ UNCHANGED <<nextExtensionId, asked>>
        \/ RequestAnswered(pendingExtension[id], id, "timeout", asked)
    BY <1>4 DEF PendingTimeout
  <2>3. nextExtensionId \in Nat
    BY DEF TypeOK
  <2> QED
    BY <2>1, <2>2, <2>3, IdsFewer, WithoutFewer, IdsRequest
<1>5. CASE Stop
  BY <1>5, IdsFewer, RejectTyped DEF Stop, NoPending
<1>6. CASE (\E cl \in Client : ClientStep(cl)) \/ DisconnectTimerFires \/ UNCHANGED vars
  <2>1. UNCHANGED <<nextExtensionId, pendingExtension, asked>>
    BY <1>6 DEF ClientStep, ClientConnects, ClientLeaves, ClientClosed, CommandReceived,
       DisconnectTimerFires, vars, jobVars, extVars
  <2> QED
    BY <2>1, IdsSame
<1> QED
  BY <1>1, <1>2, <1>3, <1>4, <1>5, <1>6, IdsMessages
     DEF Next, ExtensionStep, SocketStep, MessageStep

(* An answer settles the handler it is the answer to and no other, however *)
(* long the extension takes, and whoever waits by then.                    *)
THEOREM AnswersAreNotMixedUp == Spec => []AnswersFindTheirAsker
<1>1. Init => IdsKept
  BY DEF Init, IdsKept
<1> QED
  BY <1>1, IdsStep, IdsImply, TypeInit, TypeStep, PTL DEF Spec
---------------------------------------------------------------------------
(***************************************************************************)
(* The clients' views.  A client that has not connected has none.          *)
(***************************************************************************)
Listening(cl) == cl \in cdpClients /\ cliState[cl] = "open"

NewcomersBlank ==
  \A cl \in Client : cliState[cl] = "fresh" => view[cl] = {} /\ cl \notin autoAttached

ViewInv == ClientsSeeTheCache /\ NewcomersBlank

LEMMA ViewQuiet ==
  ASSUME TypeOK, ViewInv, UNCHANGED tabVars, cdpClients' \subseteq cdpClients,
         \A cl \in Client : /\ cliState'[cl] = "fresh" => cliState[cl] = "fresh"
                            /\ Listening(cl)' => Listening(cl)
  PROVE  ViewInv'
  BY DEF TypeOK, ViewInv, ClientsSeeTheCache, NewcomersBlank, Listening, tabVars

LEMMA ViewSame ==
  ASSUME TypeOK, ViewInv, UNCHANGED <<tabVars, cliVars>>
  PROVE  ViewInv'
  BY ViewQuiet DEF Listening, cliVars

(* The cache and what is broadcast change alike.                           *)
LEMMA ViewBroadcast ==
  ASSUME TypeOK, ViewInv, NEW gone, NEW new, NEW dropped, Broadcast(gone, new),
         connectedTargets' = (connectedTargets \ dropped) \cup new,
         connectedTargets \cap gone = connectedTargets \cap dropped,
         UNCHANGED <<cliVars, autoAttached>>
  PROVE  ViewInv'
<1>1. \A cl \in Client : view'[cl] = IF Listening(cl) THEN (view[cl] \ gone) \cup new ELSE view[cl]
  BY DEF Broadcast, Listening
<1>2. \A cl \in Client : Listening(cl) => view[cl] \subseteq connectedTargets
  BY DEF ViewInv, ClientsSeeTheCache, Listening
<1>3. ClientsSeeTheCache'
  <2> SUFFICES ASSUME NEW cl \in cdpClients, cliState[cl] = "open"
               PROVE  /\ view'[cl] \subseteq connectedTargets'
                      /\ cl \in autoAttached => view'[cl] = connectedTargets'
    BY DEF ClientsSeeTheCache, cliVars
  <2>1. cl \in Client /\ Listening(cl)
    BY DEF TypeOK, Listening
  <2>2. view'[cl] = (view[cl] \ gone) \cup new /\ view[cl] \subseteq connectedTargets
    BY <1>1, <1>2, <2>1
  <2>3. cl \in autoAttached => view[cl] = connectedTargets
    BY DEF ViewInv, ClientsSeeTheCache
  <2> QED
    BY <2>2, <2>3
<1>4. NewcomersBlank'
  BY <1>1 DEF ViewInv, NewcomersBlank, Listening, cliVars
<1> QED
  BY <1>3, <1>4 DEF ViewInv

LEMMA ViewPrune ==
  ASSUME TypeOK, ViewInv, NEW c \in Cmd, PruneStale(c), UNCHANGED <<cliVars, autoAttached>>
  PROVE  ViewInv'
<1>1. connectedTargets' = (connectedTargets \ Stale(c)) \cup {} /\ Broadcast(Stale(c), {})
  BY DEF PruneStale
<1> QED
  BY <1>1, ViewBroadcast

LEMMA ViewMessages ==
  ASSUME TypeOK, ViewInv, NEW e \in Ext, MessageStep(e)
  PROVE  ViewInv'
<1>1. ASSUME NEW s \in Session, NEW t \in Target, TargetAttached(e, s, t)
      PROVE  ViewInv'
  <2> DEFINE new == [sessionId |-> s, targetId |-> t]
  <2>1. CASE AfterSession(s) = {new}
    <3>1. connectedTargets' = connectedTargets
      BY <1>1, <2>1 DEF TargetAttached, AfterSession
    <3> QED
      BY <1>1, <2>1, <3>1, ViewSame DEF TargetAttached, tabVars
  <2>2. CASE AfterSession(s) # {new}
    <3>1. /\ Broadcast(AfterSession(s), {new})
          /\ connectedTargets' = (connectedTargets \ AfterSession(s)) \cup {new}
          /\ UNCHANGED <<cliVars, autoAttached>>
      BY <1>1, <2>2 DEF TargetAttached
    <3> QED
      BY <3>1, ViewBroadcast
  <2> QED
    BY <2>1, <2>2
<1>2. ASSUME NEW s \in Session, SessionDetached(e, s)
      PROVE  ViewInv'
  <2> DEFINE gone == {a \in Attachment : a.sessionId = s}
  <2>1. /\ connectedTargets' = (connectedTargets \ AfterSession(s)) \cup {}
        /\ Broadcast(gone, {}) /\ UNCHANGED <<cliVars, autoAttached>>
    BY <1>2 DEF SessionDetached
  <2>2. connectedTargets \cap gone = connectedTargets \cap AfterSession(s)
    BY DEF AfterSession, TypeOK
  <2> QED
    BY <2>1, <2>2, ViewBroadcast
<1>3. ASSUME NEW t \in Target, TargetGone(e, t)
      PROVE  ViewInv'
  <2> DEFINE gone == {a \in Attachment : a.targetId = t}
  <2>1. /\ connectedTargets' = (connectedTargets \ AfterTarget(t)) \cup {}
        /\ Broadcast(gone, {}) /\ UNCHANGED <<cliVars, autoAttached>>
    BY <1>3 DEF TargetGone
  <2>2. connectedTargets \cap gone = connectedTargets \cap AfterTarget(t)
    BY DEF AfterTarget, TypeOK
  <2> QED
    BY <2>1, <2>2, ViewBroadcast
<1>4. ASSUME NEW m \in asked[e], NEW answer, ExtensionAnswers(e, m, answer)
      PROVE  ViewInv'
  <2>1. UNCHANGED <<cliVars, autoAttached>>
    BY <1>4 DEF ExtensionAnswers
  <2>2. \/ UNCHANGED <<connectedTargets, view>>
        \/ pendingExtension[m.id] \in Cmd /\ PruneStale(pendingExtension[m.id])
    BY <1>4, RequestGoesOn DEF ExtensionAnswers, CommandAnswered
  <2> QED
    BY <2>1, <2>2, ViewSame, ViewPrune DEF tabVars
<1> QED
  BY <1>1, <1>2, <1>3, <1>4 DEF MessageStep

(* A client is told of cached tabs, of one or of all.                      *)
LEMMA ViewTold ==
  ASSUME TypeOK, ViewInv, NEW cl \in Client, cliState[cl] = "open", NEW told,
         told \subseteq connectedTargets, view' = [view EXCEPT ![cl] = @ \cup told],
         \/ UNCHANGED autoAttached
         \/ autoAttached' = autoAttached \cup {cl} /\ told = connectedTargets,
         UNCHANGED <<cliVars, connectedTargets>>
  PROVE  ViewInv'
<1>1. /\ \A d \in Client \ {cl} : view'[d] = view[d]
      /\ view'[cl] = view[cl] \cup told
  BY DEF TypeOK
<1>2. \A d \in Client \ {cl} : d \in autoAttached' => d \in autoAttached
  OBVIOUS
<1>3. ClientsSeeTheCache'
  BY <1>1, <1>2 DEF TypeOK, ViewInv, ClientsSeeTheCache, cliVars
<1>4. NewcomersBlank'
  BY <1>1, <1>2 DEF ViewInv, NewcomersBlank, cliVars
<1> QED
  BY <1>3, <1>4 DEF ViewInv

LEMMA ViewRoute ==
  ASSUME TypeOK, ViewInv, NEW c \in Cmd, Route(c)
  PROVE  ViewInv'
<1>1. UNCHANGED cliVars /\ cmd[c].client \in Client
  BY DEF Route, TypeOK, CmdHandler, Awaiting, Ended
<1>2. CASE UNCHANGED tabVars
  BY <1>1, <1>2, ViewSame
<1>3. CASE RouteAutoAttach(c)
  <2>1. CASE cmd[c].shape.session = None /\ cliState[cmd[c].client] = "open"
    BY <1>1, <1>3, <2>1, ViewTold DEF RouteAutoAttach
  <2>2. CASE ~(cmd[c].shape.session = None /\ cliState[cmd[c].client] = "open")
    BY <1>1, <1>3, <2>2, ViewSame DEF RouteAutoAttach, tabVars
  <2> QED
    BY <2>1, <2>2
<1>4. CASE RouteAttach(c)
  <2>1. ASSUME NEW a \in AfterTarget(cmd[c].shape.target),
               view' = IF cliState[cmd[c].client] = "open"
                       THEN [view EXCEPT ![cmd[c].client] = @ \cup {a}] ELSE view,
               UNCHANGED connectedTargets
        PROVE  ViewInv'
    <3>1. {a} \subseteq connectedTargets /\ UNCHANGED autoAttached
      BY <1>4 DEF AfterTarget, RouteAttach
    <3>2. CASE cliState[cmd[c].client] = "open"
      BY <1>1, <2>1, <3>1, <3>2, ViewTold
    <3>3. CASE cliState[cmd[c].client] # "open"
      BY <1>1, <2>1, <3>1, <3>3, ViewSame DEF tabVars
    <3> QED
      BY <3>2, <3>3
  <2>2. CASE PruneStale(c)
    BY <1>1, <1>4, <2>2, ViewPrune DEF RouteAttach
  <2>3. CASE UNCHANGED <<connectedTargets, view>>
    BY <1>1, <1>4, <2>3, ViewSame DEF RouteAttach, tabVars
  <2> QED
    BY <1>4, <2>1, <2>2, <2>3 DEF RouteAttach
<1> QED
  BY <1>2, <1>3, <1>4 DEF Route, RouteLocal, RouteForward

LEMMA ViewClients ==
  ASSUME TypeOK, ViewInv, NEW cl \in Client, ClientStep(cl)
  PROVE  ViewInv'
<1>1. CASE ClientConnects(cl)
  <2>1. view[cl] = {} /\ cl \notin autoAttached
    BY <1>1 DEF ClientConnects, ViewInv, NewcomersBlank
  <2>2. /\ \A d \in Client \ {cl} : cliState'[d] = cliState[d]
        /\ cliState'[cl] = "open"
        /\ cdpClients' = cdpClients \cup {cl} /\ UNCHANGED tabVars
    BY <1>1 DEF ClientConnects, TypeOK
  <2>3. ClientsSeeTheCache'
    BY <2>1, <2>2 DEF TypeOK, ViewInv, ClientsSeeTheCache, tabVars
  <2>4. NewcomersBlank'
    BY <2>2 DEF ViewInv, NewcomersBlank, tabVars
  <2> QED
    BY <2>3, <2>4 DEF ViewInv
<1>2. CASE ClientLeaves(cl)
  <2>1. /\ \A d \in Client : cliState'[d] = IF d = cl THEN "leaving" ELSE cliState[d]
        /\ \A d \in Client : view'[d] = IF cliState'[d] = "open" THEN view[d] ELSE {}
        /\ UNCHANGED <<connectedTargets, autoAttached, cdpClients>>
    BY <1>2 DEF ClientLeaves, ForgetViews, TypeOK
  <2>2. ClientsSeeTheCache'
    BY <2>1 DEF TypeOK, ViewInv, ClientsSeeTheCache
  <2>3. NewcomersBlank'
    BY <2>1 DEF ViewInv, NewcomersBlank
  <2> QED
    BY <2>2, <2>3 DEF ViewInv
<1>3. CASE ClientClosed(cl)
  <2>1. UNCHANGED tabVars /\ cdpClients' \subseteq cdpClients
        /\ \A d \in Client : cliState'[d] # "closed" => cliState'[d] = cliState[d]
    BY <1>3 DEF ClientClosed, TypeOK
  <2> QED
    BY <2>1, ViewQuiet DEF Listening
<1>4. ASSUME NEW c \in Cmd, NEW sh \in CmdShape, CommandReceived(c, cl, sh)
      PROVE  ViewInv'
  BY <1>4, ViewSame DEF CommandReceived
<1> QED
  BY <1>1, <1>2, <1>3, <1>4 DEF ClientStep

LEMMA ViewStep == TypeOK /\ ViewInv /\ [Next]_vars => ViewInv'
<1> SUFFICES ASSUME TypeOK, ViewInv, [Next]_vars PROVE ViewInv'
  OBVIOUS
<1>1. ASSUME NEW e \in Ext, SocketStep(e) PROVE ViewInv'
  BY <1>1, ViewSame DEF SocketStep, ExtensionUpgrade, ExtensionRefused,
     ExtensionHandshakeFails, ExtensionLeaves, ExtensionClosed
<1>2. ASSUME NEW r \in Req, RequestStep(r) PROVE ViewInv'
  BY <1>2, ViewSame DEF RequestStep, RequestArrives, RequestStarts
<1>3. ASSUME NEW c \in Cmd, WaitTimeout(c) PROVE ViewInv'
  BY <1>3, ViewSame DEF WaitTimeout
<1>4. ASSUME NEW id \in DOMAIN pendingExtension, PendingTimeout(id) PROVE ViewInv'
  <2>1. UNCHANGED <<tabVars, cliVars>>
    BY <1>4, RequestGoesOn DEF PendingTimeout, tabVars
  <2> QED
    BY <2>1, ViewSame
<1>5. CASE DisconnectTimerFires
  <2>1. CASE ExtensionConnected
    BY <1>5, <2>1, ViewSame DEF DisconnectTimerFires, tabVars, cliVars
  <2>2. CASE ~ExtensionConnected
    <3>1. /\ cdpClients' = {} /\ ForgetViews(cliState') /\ UNCHANGED autoAttached
          /\ \A cl \in Client : cliState'[cl] = "fresh" => cliState[cl] = "fresh"
      BY <1>5, <2>2 DEF DisconnectTimerFires
    <3> QED
      BY <3>1 DEF ViewInv, ClientsSeeTheCache, NewcomersBlank, ForgetViews
  <2> QED
    BY <2>1, <2>2
<1>6. CASE Stop
  <2>1. /\ ForgetViews(cliState') /\ UNCHANGED <<connectedTargets, autoAttached, cdpClients>>
        /\ \A cl \in Client : /\ cliState'[cl] = "fresh" => cliState[cl] = "fresh"
                              /\ cliState'[cl] = "open" => cl \notin cdpClients
    BY <1>6 DEF Stop
  <2> QED
    BY <2>1 DEF TypeOK, ViewInv, ClientsSeeTheCache, NewcomersBlank, ForgetViews
<1>7. CASE UNCHANGED vars
  BY <1>7, ViewSame DEF vars
<1> QED
  BY <1>1, <1>2, <1>3, <1>4, <1>5, <1>6, <1>7, ViewMessages, ViewRoute, ViewClients
     DEF Next, ExtensionStep, SocketStep, MessageStep

(* An open client knows no tab the relay has dropped, and, once it has     *)
(* asked for them, all the relay has.                                      *)
THEOREM ViewsFollowTheCache == Spec => []ClientsSeeTheCache
<1>1. Init => ViewInv
  BY DEF Init, ViewInv, ClientsSeeTheCache, NewcomersBlank
<1>2. ViewInv => ClientsSeeTheCache
  BY DEF ViewInv
<1> QED
  BY <1>1, <1>2, ViewStep, TypeInit, TypeStep, PTL DEF Spec
---------------------------------------------------------------------------
(***************************************************************************)
(* The relay implements CdpCommandService: commands and sockets move as    *)
(* they do there, or not at all.                                           *)
(***************************************************************************)
SendersKnown ==
  \A c \in Cmd : cmd[c].client # None => cliState[cmd[c].client] # "fresh"

Gone == {"leaving", "closing", "closed"}

SocketsMove ==
  \A cl \in Client :
    \/ cliState'[cl] = cliState[cl]
    \/ cliState[cl] = "fresh" /\ cliState'[cl] = "open"
    \/ cliState[cl] # "fresh" /\ cliState'[cl] \in Gone

Stays(c) ==
  /\ cmd'[c].client = cmd[c].client
  /\ \/ cmd'[c].status = cmd[c].status
     \/ cmd[c].status \in Awaiting /\ cmd'[c].status \in Awaiting

Asks(c) ==
  /\ cmd[c].status = "unsent" /\ cmd'[c].status \in Awaiting
  /\ cmd'[c].client \in Client /\ cliState[cmd'[c].client] # "fresh"

Settles(c) ==
  /\ cmd[c].status \in Awaiting /\ cmd'[c].client = cmd[c].client
  /\ \/ cmd'[c].status \in {"result", "error"} /\ cliState'[cmd[c].client] = "open"
     \/ cmd'[c].status = "dropped" /\ cliState'[cmd[c].client] # "open"

CmdsMove == \A c \in Cmd : Stays(c) \/ Asks(c) \/ Settles(c)

LEMMA SendersInit == Init => SendersKnown
  BY DEF Init, SendersKnown

LEMMA SendersStep ==
  ASSUME TypeOK, SendersKnown, SocketsMove, CmdsMove
  PROVE  SendersKnown'
<1> SUFFICES ASSUME NEW c \in Cmd, cmd'[c].client # None
             PROVE  cliState'[cmd'[c].client] # "fresh"
  BY DEF SendersKnown
<1>1. cmd[c].client \in Client \cup {None}
  BY DEF TypeOK, CmdHandler
<1>2. cmd'[c].client \in Client /\ cliState[cmd'[c].client] # "fresh"
  BY <1>1 DEF CmdsMove, Stays, Asks, Settles, SendersKnown
<1> QED
  BY <1>2 DEF SocketsMove, Gone

LEMMA Implements ==
  ASSUME TypeOK, TypeOK', SendersKnown, SocketsMove, CmdsMove
  PROVE  Service!Next
<1> DEFINE status == [c \in Cmd |-> ServiceStatus(cmd[c].status)]
           sender == [c \in Cmd |-> cmd[c].client]
           up == [cl \in Client |-> SocketLife(cliState[cl])]
<1>1. \A c \in Cmd : /\ cmd[c].client \in Client \cup {None} /\ cmd'[c].client \in Client \cup {None}
                     /\ cmd[c].status \in Awaiting \cup Ended /\ cmd'[c].status \in Awaiting \cup Ended
                     /\ cmd[c].status \in Awaiting => cmd[c].client \in Client
  BY DEF TypeOK, CmdHandler, Awaiting, Ended
<1>2. \A cl \in Client : /\ cliState[cl] \in {"fresh", "open"} \cup Gone
                         /\ cliState'[cl] \in {"fresh", "open"} \cup Gone
  BY DEF TypeOK, Gone
<1>3. /\ status' \in [Cmd -> Service!Status]
      /\ sender' \in [Cmd -> Client \cup {None}]
      /\ up' \in [Client -> {"fresh", "open", "gone"}]
  <2>1. \A c \in Cmd : ServiceStatus(cmd'[c].status) \in Service!Status
    BY <1>1 DEF ServiceStatus, Service!Status, Service!Settled, Awaiting, Ended
  <2>2. \A cl \in Client : SocketLife(cliState'[cl]) \in {"fresh", "open", "gone"}
    BY DEF SocketLife
  <2> QED
    BY <1>1, <2>1, <2>2 DEF ServiceStatus, SocketLife
<1>4. ASSUME NEW cl \in Client
      PROVE  Service!SocketStep(cl)
  BY <1>2, <1>4 DEF SocketsMove, Service!SocketStep, SocketLife, Gone
<1>5. ASSUME NEW c \in Cmd
      PROVE  Service!Ask(c) \/ Service!Answer(c) \/ Service!Drop(c) \/ Service!Keep(c)
  <2>1. CASE Stays(c)
    BY <2>1 DEF Stays, Service!Keep, ServiceStatus
  <2>2. CASE Asks(c)
    BY <2>2 DEF Asks, Service!Ask, ServiceStatus, SocketLife, Awaiting
  <2>3. CASE Settles(c)
    <3>1. cmd[c].client \in Client /\ cliState[cmd[c].client] # "fresh"
      BY <1>1, <2>3 DEF Settles, SendersKnown
    <3>2. cliState'[cmd[c].client] # "fresh"
      BY <3>1 DEF SocketsMove, Gone
    <3> QED
      BY <2>3, <3>1, <3>2
         DEF Settles, Service!Answer, Service!Drop, ServiceStatus, SocketLife, Awaiting
  <2> QED
    BY <2>1, <2>2, <2>3 DEF CmdsMove
<1> HIDE DEF status, sender, up
<1> QED
  BY <1>3, <1>4, <1>5 DEF Service!Next, status, sender, up

(* Respond and RespondAll settle commands that are under way.              *)
LEMMA RespondMoves ==
  ASSUME TypeOK, NEW c \in Cmd, cmd[c].status \in Awaiting, NEW outcome \in {"result", "error"},
         Respond(c, outcome), UNCHANGED cliState
  PROVE  SocketsMove /\ CmdsMove
<1>1. \A d \in Cmd \ {c} : Stays(d)
  BY DEF Respond, TypeOK, Stays
<1>2. Settles(c)
  BY DEF Respond, Sent, TypeOK, Settles
<1> QED
  BY <1>1, <1>2 DEF SocketsMove, CmdsMove

LEMMA RespondAllMoves ==
  ASSUME TypeOK, NEW S, \A c \in S \cap Cmd : cmd[c].status \in Awaiting,
         RespondAll(S, cliState')
  PROVE  CmdsMove
<1> SUFFICES ASSUME NEW c \in Cmd
             PROVE  Stays(c) \/ Settles(c)
  BY DEF CmdsMove
<1>1. CASE c \in S
  BY <1>1 DEF RespondAll, Sent, TypeOK, Settles
<1>2. CASE c \notin S
  BY <1>2 DEF RespondAll, TypeOK, Stays
<1> QED
  BY <1>1, <1>2

LEMMA NothingMoves ==
  ASSUME UNCHANGED <<cmd, cliState>>
  PROVE  SocketsMove /\ CmdsMove
  BY DEF SocketsMove, CmdsMove, Stays

LEMMA InFlightAwaits ==
  ASSUME PendingOwned
  PROVE  \A c \in InFlight \cap Cmd : cmd[c].status \in Awaiting
  BY DEF PendingOwned, Awaiting

LEMMA ServiceMoves ==
  ASSUME TypeOK, PendingOwned, [Next]_vars
  PROVE  SocketsMove /\ CmdsMove
<1>1. ASSUME NEW e \in Ext, SocketStep(e) PROVE SocketsMove /\ CmdsMove
  <2>1. UNCHANGED cliState
    BY <1>1 DEF SocketStep, ExtensionUpgrade, ExtensionRefused, ExtensionHandshakeFails,
       ExtensionLeaves, ExtensionClosed, cliVars
  <2>2. SocketsMove
    BY <2>1 DEF SocketsMove
  <2>3. CASE ExtensionUpgrade(e)
    <3>1. \A c \in Cmd : Stays(c)
      BY <2>3 DEF ExtensionUpgrade, WakeWaiters, CmdsWith, Stays, Awaiting, TypeOK
    <3> QED
      BY <2>2, <3>1 DEF CmdsMove
  <2>4. CASE ExtensionClosed(e) /\ Current(e)
    <3>1. RespondAll(InFlight \cap Cmd, cliState')
      BY <2>1, <2>4 DEF ExtensionClosed
    <3> QED
      BY <2>2, <3>1, InFlightAwaits, RespondAllMoves
  <2>5. CASE UNCHANGED cmd
    BY <2>1, <2>5, NothingMoves
  <2> QED
    BY <1>1, <2>3, <2>4, <2>5 DEF SocketStep, ExtensionRefused, ExtensionHandshakeFails,
       ExtensionLeaves, ExtensionClosed, jobVars
<1>2. ASSUME NEW e \in Ext, MessageStep(e) PROVE SocketsMove /\ CmdsMove
  <2>1. UNCHANGED cliState
    BY <1>2, MessagesKeepSockets
  <2>2. ASSUME NEW m \in asked[e], NEW answer \in {"ok", "error", "missing"},
               ExtensionAnswers(e, m, answer)
        PROVE  SocketsMove /\ CmdsMove
    <3>1. CASE m.id \in DOMAIN pendingExtension /\ pendingExtension[m.id] \in Cmd
      <4>1. pendingExtension[m.id] \in InFlight
        BY <3>1 DEF InFlight, Range
      <4> QED
        BY <2>1, <2>2, <3>1, <4>1, InFlightAwaits, RespondMoves
           DEF ExtensionAnswers, CommandAnswered
    <3>2. CASE ~(m.id \in DOMAIN pendingExtension /\ pendingExtension[m.id] \in Cmd)
      BY <2>1, <2>2, <3>2, NothingMoves, RequestGoesOn DEF ExtensionAnswers, jobVars
    <3> QED
      BY <3>1, <3>2
  <2>3. CASE UNCHANGED cmd
    BY <2>1, <2>3, NothingMoves
  <2> QED
    BY <1>2, <2>2, <2>3 DEF MessageStep, TargetAttached, SessionDetached, TargetGone, jobVars
<1>3. ASSUME NEW cl \in Client, ClientStep(cl) PROVE SocketsMove /\ CmdsMove
  <2>1. ASSUME NEW c \in Cmd, NEW sh \in CmdShape, CommandReceived(c, cl, sh)
        PROVE  SocketsMove /\ CmdsMove
    <3>1. Asks(c) /\ \A d \in Cmd \ {c} : Stays(d)
      BY <2>1 DEF CommandReceived, Asks, Stays, Awaiting, TypeOK
    <3>2. UNCHANGED cliState
      BY <2>1 DEF CommandReceived, cliVars
    <3> QED
      BY <3>1, <3>2 DEF SocketsMove, CmdsMove
  <2>2. CASE ClientConnects(cl) \/ ClientLeaves(cl) \/ ClientClosed(cl)
    <3>1. UNCHANGED cmd
      BY <2>2 DEF ClientConnects, ClientLeaves, ClientClosed, jobVars
    <3>2. SocketsMove
      BY <2>2 DEF ClientConnects, ClientLeaves, ClientClosed, SocketsMove, Gone, TypeOK
    <3> QED
      BY <3>1, <3>2 DEF CmdsMove, Stays
  <2> QED
    BY <1>3, <2>1, <2>2 DEF ClientStep
<1>4. ASSUME NEW c \in Cmd, Route(c) \/ WaitTimeout(c) PROVE SocketsMove /\ CmdsMove
  <2>1. UNCHANGED cliState /\ cmd[c].status \in {"woken", "waiting"}
    BY <1>4 DEF Route, WaitTimeout, cliVars
  <2>2. CASE RouteForward(c)
    <3>1. \A d \in Cmd : Stays(d)
      BY <2>1, <2>2 DEF RouteForward, Stays, Awaiting, TypeOK, CmdHandler
    <3> QED
      BY <2>1, <3>1 DEF SocketsMove, CmdsMove
  <2>3. CASE Respond(c, "result") \/ Respond(c, "error")
    BY <2>1, <2>3, RespondMoves DEF Awaiting
  <2> QED
    BY <1>4, <2>2, <2>3 DEF Route, RouteLocal, RouteAutoAttach, RouteAttach, WaitTimeout
<1>5. ASSUME NEW id \in DOMAIN pendingExtension, PendingTimeout(id)
      PROVE  SocketsMove /\ CmdsMove
  <2>1. UNCHANGED cliState /\ pendingExtension[id] \in InFlight
    BY <1>5 DEF PendingTimeout, cliVars, InFlight, Range
  <2>2. CASE pendingExtension[id] \in Cmd
    BY <1>5, <2>1, <2>2, InFlightAwaits, RespondMoves DEF PendingTimeout
  <2>3. CASE pendingExtension[id] \notin Cmd
    BY <1>5, <2>1, <2>3, NothingMoves, RequestGoesOn DEF PendingTimeout
  <2> QED
    BY <2>2, <2>3
<1>6. CASE DisconnectTimerFires
  <2>1. CASE UNCHANGED <<cmd, cliState>>
    BY <2>1, NothingMoves
  <2>2. CASE ~ExtensionConnected
    <3>1. RespondAll(CmdsWith("waiting"), cliState')
      BY <1>6, <2>2 DEF DisconnectTimerFires
    <3>2. SocketsMove
      BY <1>6, <2>2 DEF DisconnectTimerFires, SocketsMove, Gone
    <3>3. \A c \in CmdsWith("waiting") : cmd[c].status \in Awaiting
      BY DEF CmdsWith, Awaiting
    <3> QED
      BY <3>1, <3>2, <3>3, RespondAllMoves
  <2> QED
    BY <1>6, <2>1, <2>2 DEF DisconnectTimerFires
<1>7. CASE Stop
  <2>1. RespondAll(CmdsWith("waiting") \cup (InFlight \cap Cmd), cliState')
    BY <1>7 DEF Stop
  <2>2. SocketsMove
    BY <1>7 DEF Stop, SocketsMove, Gone
  <2>3. \A c \in CmdsWith("waiting") \cup (InFlight \cap Cmd) : cmd[c].status \in Awaiting
    BY InFlightAwaits DEF CmdsWith, Awaiting
  <2> QED
    BY <2>1, <2>2, <2>3, RespondAllMoves
<1>8. CASE (\E r \in Req : RequestStep(r)) \/ UNCHANGED vars
  <2>1. UNCHANGED <<cmd, cliState>>
    BY <1>8 DEF RequestStep, RequestArrives, RequestStarts, cliVars, jobVars, vars
  <2> QED
    BY <2>1, NothingMoves
<1> QED
  BY <1>1, <1>2, <1>3, <1>4, <1>5, <1>6, <1>7, <1>8
     DEF Next, ExtensionStep, SocketStep, MessageStep

(* The relay keeps the promise of CdpCommandService: a command is settled  *)
(* at most once, with an answer while its sender's socket is open, and     *)
(* dropped only when it is not.                                            *)
THEOREM RelayServes == Spec => ServiceSpec
<1>1. Init => Service!Init
  BY DEF Init, Service!Init, ServiceStatus, SocketLife, Awaiting
<1>2. TypeOK /\ TypeOK' /\ PendingOwned /\ SendersKnown /\ [Next]_vars => Service!Next
  BY ServiceMoves, Implements
<1>3. TypeOK /\ PendingOwned /\ SendersKnown /\ [Next]_vars => SendersKnown'
  BY ServiceMoves, SendersStep
<1>4. Spec => []TypeOK /\ []PendingOwned
  BY TypeCorrect, PendingsAreOwned
<1>5. Spec => []SendersKnown
  BY <1>3, <1>4, SendersInit, PTL DEF Spec
<1> QED
  BY <1>1, <1>2, <1>4, <1>5, PTL DEF Spec, ServiceSpec, Service!Spec
---------------------------------------------------------------------------
(***************************************************************************)
(* Liveness, from EventLoop: what stays due gets its event.  A handler     *)
(* only moves onward, through at most two waits, and each of its waits is  *)
(* bounded by a timer of its own.                                          *)
(***************************************************************************)
Finished == {"result", "error", "dropped"}

Onward(c) ==
  \/ cmd[c].status = "unsent"
  \/ cmd'[c].status = cmd[c].status
  \/ cmd'[c].status \in Finished
  \/ cmd[c].status = "waiting" /\ cmd'[c].status = "woken"
  \/ cmd[c].status = "woken" /\ cmd'[c].status = "pending"

LEMMA RespondOnward ==
  ASSUME TypeOK, NEW d \in Cmd, NEW outcome \in {"result", "error"}, Respond(d, outcome)
  PROVE  \A c \in Cmd : Onward(c) /\ (c = d => cmd'[c].status \in Finished)
  BY DEF TypeOK, Respond, Sent, Onward, Finished

LEMMA RespondAllOnward ==
  ASSUME TypeOK, NEW S, NEW sockets, RespondAll(S, sockets)
  PROVE  \A c \in Cmd : Onward(c)
  BY DEF TypeOK, RespondAll, Sent, Onward, Finished

LEMMA CmdsOnward ==
  ASSUME TypeOK, [Next]_vars
  PROVE  \A c \in Cmd : Onward(c)
<1>0. ASSUME UNCHANGED cmd PROVE \A c \in Cmd : Onward(c)
  BY <1>0 DEF Onward
<1>1. ASSUME NEW e \in Ext, ExtensionStep(e)
      PROVE  \A c \in Cmd : Onward(c)
  <2>1. CASE ExtensionUpgrade(e)
    BY <2>1 DEF ExtensionUpgrade, WakeWaiters, CmdsWith, Onward, TypeOK
  <2>2. CASE ExtensionClosed(e)
    BY <2>2, <1>0, RespondAllOnward DEF ExtensionClosed, jobVars
  <2>3. ASSUME NEW m \in asked[e], NEW answer \in {"ok", "error", "missing"},
               ExtensionAnswers(e, m, answer)
        PROVE  \A c \in Cmd : Onward(c)
    <3>1. CASE m.id \notin DOMAIN pendingExtension
      BY <2>3, <3>1, <1>0 DEF ExtensionAnswers, jobVars
    <3>2. CASE m.id \in DOMAIN pendingExtension /\ pendingExtension[m.id] \in Cmd
      BY <2>3, <3>2, RespondOnward DEF ExtensionAnswers, CommandAnswered
    <3>3. CASE m.id \in DOMAIN pendingExtension /\ pendingExtension[m.id] \notin Cmd
      BY <2>3, <3>3, <1>0, RequestGoesOn DEF ExtensionAnswers
    <3> QED
      BY <3>1, <3>2, <3>3
  <2> QED
    BY <1>1, <2>1, <2>2, <2>3, <1>0
       DEF ExtensionStep, ExtensionRefused, ExtensionHandshakeFails, ExtensionLeaves,
           TargetAttached, SessionDetached, TargetGone, jobVars
<1>2. ASSUME NEW cl \in Client, ClientStep(cl)
      PROVE  \A c \in Cmd : Onward(c)
  <2>1. ASSUME NEW d \in Cmd, NEW sh \in CmdShape, CommandReceived(d, cl, sh)
        PROVE  \A c \in Cmd : Onward(c)
    BY <2>1 DEF CommandReceived, Onward, TypeOK
  <2> QED
    BY <1>2, <2>1, <1>0 DEF ClientStep, ClientConnects, ClientLeaves, ClientClosed, jobVars
<1>3. ASSUME NEW d \in Cmd, Route(d) \/ WaitTimeout(d)
      PROVE  \A c \in Cmd : Onward(c)
  <2>1. CASE Respond(d, "result") \/ Respond(d, "error")
    BY <2>1, RespondOnward
  <2>2. CASE Route(d) /\ RouteForward(d)
    BY <2>2 DEF Route, RouteForward, Onward, TypeOK
  <2> QED
    BY <1>3, <2>1, <2>2 DEF Route, RouteLocal, RouteAutoAttach, RouteAttach, WaitTimeout
<1>4. ASSUME NEW id \in DOMAIN pendingExtension, PendingTimeout(id)
      PROVE  \A c \in Cmd : Onward(c)
  <2>1. CASE pendingExtension[id] \in Cmd
    BY <1>4, <2>1, RespondOnward DEF PendingTimeout
  <2>2. CASE pendingExtension[id] \notin Cmd
    BY <1>4, <2>2, <1>0, RequestGoesOn DEF PendingTimeout
  <2> QED
    BY <2>1, <2>2
<1>5. CASE DisconnectTimerFires \/ Stop
  BY <1>5, <1>0, RespondAllOnward DEF DisconnectTimerFires, Stop
<1>6. CASE (\E r \in Req : RequestStep(r)) \/ UNCHANGED vars
  BY <1>6, <1>0 DEF RequestStep, RequestArrives, RequestStarts, jobVars, vars
<1> QED
  BY <1>1, <1>2, <1>3, <1>4, <1>5, <1>6 DEF Next

(* The event a waiting handler has due settles it or takes it one wait on. *)
LEMMA DueEvents ==
  ASSUME TypeOK, NEW c \in Cmd
  PROVE  /\ Route(c) => cmd'[c].status \in Finished \cup {"pending"}
         /\ WaitTimeout(c) => cmd'[c].status \in Finished
         /\ JobTimeout(c) => cmd'[c].status \in Finished
<1>1. ASSUME Route(c) PROVE cmd'[c].status \in Finished \cup {"pending"}
  <2>1. CASE Respond(c, "result") \/ Respond(c, "error")
    BY <2>1, RespondOnward
  <2>2. CASE RouteForward(c)
    BY <2>2 DEF RouteForward, TypeOK, CmdHandler
  <2> QED
    BY <1>1, <2>1, <2>2 DEF Route, RouteLocal, RouteAutoAttach, RouteAttach
<1>2. ASSUME WaitTimeout(c) PROVE cmd'[c].status \in Finished
  BY <1>2, RespondOnward DEF WaitTimeout
<1>3. ASSUME JobTimeout(c) PROVE cmd'[c].status \in Finished
  BY <1>3, RespondOnward DEF JobTimeout, PendingTimeout
<1> QED
  BY <1>1, <1>2, <1>3

LEMMA CommandServed ==
  ASSUME NEW k \in Cmd
  PROVE  Spec /\ RouteHappens(k) /\ WaitEnds(k) /\ TimerRuns(k)
           => Service!ServedInTheEnd(k)
<1>1. /\ TypeOK /\ cmd[k].status = "waiting" /\ [Next]_vars
           => \/ (cmd[k].status = "waiting")' \/ (cmd[k].status = "woken")'
              \/ (cmd[k].status \in Finished)'
      /\ TypeOK /\ cmd[k].status = "woken" /\ [Next]_vars
           => \/ (cmd[k].status = "woken")' \/ (cmd[k].status = "pending")'
              \/ (cmd[k].status \in Finished)'
      /\ TypeOK /\ cmd[k].status = "pending" /\ [Next]_vars
           => (cmd[k].status = "pending")' \/ (cmd[k].status \in Finished)'
  BY CmdsOnward DEF Onward
<1>2. /\ TypeOK /\ <<Route(k)>>_vars
           => (cmd[k].status \in Finished)' \/ (cmd[k].status = "pending")'
      /\ TypeOK /\ <<WaitTimeout(k)>>_vars => (cmd[k].status \in Finished)'
      /\ TypeOK /\ <<JobTimeout(k)>>_vars => (cmd[k].status \in Finished)'
  BY DueEvents
<1>3. /\ (cmd[k].status # "woken") <=> ~(cmd[k].status = "woken")
      /\ (cmd[k].status # "waiting") <=> ~(cmd[k].status = "waiting")
      /\ (k \notin InFlight) <=> ~(k \in InFlight)
  OBVIOUS
<1>4. PendingOwned => (cmd[k].status = "pending" <=> k \in InFlight)
  BY DEF PendingOwned
<1>5. cmd[k].status \in Awaiting
        <=> \/ cmd[k].status = "woken" \/ cmd[k].status = "waiting"
            \/ cmd[k].status = "pending"
  BY DEF Awaiting
<1>6. /\ (cmd[k].status = "woken") => ~(cmd[k].status = "pending")
      /\ (cmd[k].status \in Finished) => ~(cmd[k].status = "pending") /\ ~(cmd[k].status = "woken")
  BY DEF Finished
<1>7. TypeOK => /\ [c \in Cmd |-> ServiceStatus(cmd[c].status)][k] = "outstanding"
                     <=> cmd[k].status \in Awaiting
                /\ [c \in Cmd |-> ServiceStatus(cmd[c].status)][k] \in Service!Settled
                     <=> cmd[k].status \in Finished
  <2>1. TypeOK => cmd[k].status \in Awaiting \cup Ended
    BY DEF TypeOK, CmdHandler
  <2> QED
    BY <2>1 DEF ServiceStatus, Service!Settled, Awaiting, Ended, Finished
<1> QED
  BY <1>7, <1>1, <1>2, <1>3, <1>4, <1>5, <1>6, TypeCorrect, PendingsAreOwned, PTL
     DEF Spec, RouteHappens, WaitEnds, TimerRuns, Service!ServedInTheEnd

(* Every command that is sent is settled, whatever the extension does: by  *)
(* its answer, by its going away, by a timer or by stop().                 *)
THEOREM CommandsAreServed == Spec /\ EventLoop => CommandsServed
<1> SUFFICES ASSUME Spec /\ EventLoop
             PROVE  \A c \in Cmd : Service!ServedInTheEnd(c)
  BY DEF CommandsServed, Service!Served
<1> TAKE k \in Cmd
<1>1. RouteHappens(k) /\ WaitEnds(k) /\ TimerRuns(k)
  BY DEF EventLoop
<1> QED
  BY <1>1, CommandServed

(* An HTTP request, likewise: its first message is followed by a second or *)
(* by the end, and the second by the end.                                  *)
Over == {"ok", "failed"}

ReqOnward(r) ==
  \/ req[r].status \in {"unsent", "reading"}
  \/ req'[r].status = req[r].status
  \/ req'[r].status \in Over
  \/ req[r].status = "first" /\ req'[r].status = "second"

LEMMA AnsweredOnward ==
  ASSUME TypeOK, NEW r \in Req, NEW id, NEW answer, NEW unanswered,
         RequestAnswered(r, id, answer, unanswered)
  PROVE  /\ \A q \in Req : ReqOnward(q)
         /\ req[r].status = "first" => req'[r].status \in Over \cup {"second"}
         /\ req[r].status = "second" => req'[r].status \in Over
<1>1. \/ SetReq(r, "ok") \/ SetReq(r, "failed")
      \/ SetReq(r, "second") /\ req[r].status = "first"
  BY RequestGoesOn
<1> QED
  BY <1>1 DEF SetReq, TypeOK, ReqHandler, ReqOnward, Over

LEMMA RejectOnward ==
  ASSUME TypeOK, RejectAllReqs
  PROVE  \A r \in Req : ReqOnward(r)
  BY DEF TypeOK, ReqHandler, RejectAllReqs, ReqOnward, Over

LEMMA EntryOwner ==
  ASSUME TypeOK, NEW id \in DOMAIN pendingExtension, pendingExtension[id] \notin Cmd
  PROVE  pendingExtension[id] \in Req
  BY DEF TypeOK

LEMMA ReqsOnward ==
  ASSUME TypeOK, [Next]_vars
  PROVE  \A r \in Req : ReqOnward(r)
<1>0. ASSUME UNCHANGED req PROVE \A r \in Req : ReqOnward(r)
  BY <1>0 DEF ReqOnward
<1>1. ASSUME NEW e \in Ext, ExtensionStep(e)
      PROVE  \A r \in Req : ReqOnward(r)
  <2>1. CASE ExtensionClosed(e)
    BY <2>1, <1>0, RejectOnward DEF ExtensionClosed, jobVars
  <2>2. ASSUME NEW m \in asked[e], NEW answer \in {"ok", "error", "missing"},
               ExtensionAnswers(e, m, answer)
        PROVE  \A r \in Req : ReqOnward(r)
    <3>1. CASE m.id \notin DOMAIN pendingExtension
      BY <2>2, <3>1, <1>0 DEF ExtensionAnswers, jobVars
    <3>2. CASE m.id \in DOMAIN pendingExtension /\ pendingExtension[m.id] \in Cmd
      BY <2>2, <3>2, <1>0 DEF ExtensionAnswers, CommandAnswered
    <3>3. CASE m.id \in DOMAIN pendingExtension /\ pendingExtension[m.id] \notin Cmd
      BY <2>2, <3>3, EntryOwner, AnsweredOnward DEF ExtensionAnswers
    <3> QED
      BY <3>1, <3>2, <3>3
  <2> QED
    BY <1>1, <2>1, <2>2, <1>0
       DEF ExtensionStep, ExtensionUpgrade, ExtensionRefused, ExtensionHandshakeFails,
           ExtensionLeaves, TargetAttached, SessionDetached, TargetGone, jobVars
<1>2. ASSUME NEW cl \in Client, ClientStep(cl)
      PROVE  \A r \in Req : ReqOnward(r)
  BY <1>2, <1>0 DEF ClientStep, ClientConnects, ClientLeaves, ClientClosed, CommandReceived, jobVars
<1>3. ASSUME NEW c \in Cmd, Route(c) \/ WaitTimeout(c)
      PROVE  \A r \in Req : ReqOnward(r)
  BY <1>3, <1>0 DEF Route, WaitTimeout
<1>4. ASSUME NEW id \in DOMAIN pendingExtension, PendingTimeout(id)
      PROVE  \A r \in Req : ReqOnward(r)
  BY <1>4, <1>0, EntryOwner, AnsweredOnward DEF PendingTimeout
<1>5. ASSUME NEW q \in Req, RequestStep(q)
      PROVE  \A r \in Req : ReqOnward(r)
  <2>1. req[q].status \in {"unsent", "reading"} /\ \A r \in Req \ {q} : req'[r] = req[r]
    BY <1>5, RequestGoes DEF RequestStep, RequestArrives, RequestStarts, SetReq, TypeOK
  <2> QED
    BY <2>1 DEF ReqOnward
<1>6. CASE DisconnectTimerFires \/ Stop \/ UNCHANGED vars
  BY <1>6, <1>0, RejectOnward DEF DisconnectTimerFires, Stop, jobVars, vars
<1> QED
  BY <1>1, <1>2, <1>3, <1>4, <1>5, <1>6 DEF Next

LEMMA RequestTimer ==
  ASSUME TypeOK, NEW r \in Req, JobTimeout(r)
  PROVE  /\ req[r].status = "first" => req'[r].status \in Over \cup {"second"}
         /\ req[r].status = "second" => req'[r].status \in Over
<1>1. PICK id \in DOMAIN pendingExtension : pendingExtension[id] = r /\ PendingTimeout(id)
  BY DEF JobTimeout
<1>2. RequestAnswered(r, id, "timeout", asked)
  BY <1>1 DEF PendingTimeout
<1> QED
  BY <1>2, AnsweredOnward

LEMMA RequestAnsweredInTheEnd ==
  ASSUME NEW r \in Req
  PROVE  Spec /\ TimerRuns(r) => IsAnswered(r)
<1>1. /\ TypeOK /\ req[r].status = "first" /\ [Next]_vars
           => \/ (req[r].status = "first")' \/ (req[r].status = "second")'
              \/ (req[r].status \in {"ok", "failed"})'
      /\ TypeOK /\ req[r].status = "second" /\ [Next]_vars
           => (req[r].status = "second")' \/ (req[r].status \in {"ok", "failed"})'
  BY ReqsOnward DEF ReqOnward, Over
<1>2. /\ TypeOK /\ req[r].status = "first" /\ <<JobTimeout(r)>>_vars
           => (req[r].status = "second")' \/ (req[r].status \in {"ok", "failed"})'
      /\ TypeOK /\ req[r].status = "second" /\ <<JobTimeout(r)>>_vars
           => (req[r].status \in {"ok", "failed"})'
  BY RequestTimer DEF Over
<1>3. (r \notin InFlight) <=> ~(r \in InFlight)
  OBVIOUS
<1>4. PendingOwned => (req[r].status \in {"first", "second"} <=> r \in InFlight)
  BY DEF PendingOwned
<1>5. /\ req[r].status \in {"first", "second"}
           <=> req[r].status = "first" \/ req[r].status = "second"
      /\ (req[r].status = "second") => ~(req[r].status = "first")
      /\ (req[r].status \in {"ok", "failed"}) => ~(req[r].status \in {"first", "second"})
  OBVIOUS
<1> QED
  BY <1>1, <1>2, <1>3, <1>4, <1>5, TypeCorrect, PendingsAreOwned, PTL
     DEF Spec, TimerRuns, IsAnswered

(* Every HTTP request that reached the extension is answered, though the   *)
(* extension may answer neither of its messages.                           *)
THEOREM RequestsAreSettled == Spec /\ EventLoop => RequestsSettle
<1> SUFFICES ASSUME Spec /\ EventLoop PROVE \A r \in Req : IsAnswered(r)
  BY DEF RequestsSettle
<1> TAKE r \in Req
<1>1. TimerRuns(r)
  BY DEF EventLoop
<1> QED
  BY <1>1, RequestAnsweredInTheEnd

(* The grace period.  An open client is on the list the relay closes, and  *)
(* the server runs as long as there is one.                                *)
ClientsListed ==
  \A cl \in Client : cliState[cl] = "open" => cl \in cdpClients /\ server = "running"

LEMMA ListedStep ==
  ASSUME TypeOK, ClientsListed, [Next]_vars
  PROVE  ClientsListed'
<1>0. ASSUME UNCHANGED <<cliVars, server>> PROVE ClientsListed'
  BY <1>0 DEF ClientsListed, cliVars
<1>1. ASSUME NEW e \in Ext, ExtensionStep(e) PROVE UNCHANGED <<cliVars, server>>
  BY <1>1 DEF ExtensionStep, ExtensionUpgrade, ExtensionRefused, ExtensionHandshakeFails,
     ExtensionLeaves, ExtensionClosed, TargetAttached, SessionDetached, TargetGone,
     ExtensionAnswers
<1>2. ASSUME NEW cl \in Client, ClientStep(cl) PROVE ClientsListed'
  BY <1>2, <1>0 DEF ClientStep, ClientConnects, ClientLeaves, ClientClosed, CommandReceived,
     ClientsListed, TypeOK
<1>3. CASE DisconnectTimerFires \/ Stop
  BY <1>3, <1>0 DEF DisconnectTimerFires, Stop, ClientsListed, cliVars
<1>4. CASE (\E r \in Req : RequestStep(r)) \/ (\E c \in Cmd : Route(c) \/ WaitTimeout(c))
  BY <1>4, <1>0 DEF RequestStep, RequestStarts, RequestArrives, Route, WaitTimeout
<1>5. CASE (\E id \in DOMAIN pendingExtension : PendingTimeout(id)) \/ UNCHANGED vars
  BY <1>5, <1>0 DEF PendingTimeout, vars
<1> QED
  BY <1>0, <1>1, <1>2, <1>3, <1>4, <1>5 DEF Next

Leaving(e) == extensionWs = e /\ extState[e] = "closing"
GraceRuns == extensionWs = None /\ disconnectTimer = "armed"

(* Until the client is closed or another extension is there, the extension *)
(* that left is closing or its grace period runs.                          *)
LEMMA GraceStep ==
  ASSUME TypeOK, ClientsListed, ~HandshakeMayFail, NEW e \in Ext, NEW cl \in Client,
         cliState[cl] = "open", [Next]_vars
  PROVE  /\ Leaving(e) => \/ Leaving(e)' \/ GraceRuns'
                          \/ cliState'[cl] # "open" \/ ExtensionConnected'
         /\ GraceRuns => \/ GraceRuns'
                         \/ cliState'[cl] # "open" \/ ExtensionConnected'
<1>0. ASSUME UNCHANGED <<extensionWs, extState, disconnectTimer>>
      PROVE  (Leaving(e) => Leaving(e)') /\ (GraceRuns => GraceRuns')
  BY <1>0 DEF Leaving, GraceRuns
<1>1. ASSUME NEW d \in Ext, ExtensionUpgrade(d)
      PROVE  ExtensionConnected'
  BY <1>1 DEF ExtensionUpgrade, ExtensionConnected, TypeOK
<1>2. ASSUME NEW d \in Ext, ExtensionRefused(d) \/ ExtensionLeaves(d)
      PROVE  (Leaving(e) => Leaving(e)') /\ (GraceRuns => GraceRuns')
  BY <1>2 DEF ExtensionRefused, ExtensionLeaves, Leaving, GraceRuns, TypeOK
<1>3. ASSUME NEW d \in Ext, ExtensionClosed(d)
      PROVE  (Leaving(e) => Leaving(e)' \/ GraceRuns') /\ (GraceRuns => GraceRuns')
  BY <1>3 DEF ExtensionClosed, Current, StartGrace, Leaving, GraceRuns, TypeOK
<1>4. ASSUME NEW d \in Ext, ExtensionStep(d),
             ~ExtensionUpgrade(d), ~ExtensionRefused(d), ~ExtensionLeaves(d), ~ExtensionClosed(d)
      PROVE  UNCHANGED <<extensionWs, extState, disconnectTimer>>
  BY <1>4 DEF ExtensionStep, ExtensionHandshakeFails, TargetAttached, SessionDetached,
     TargetGone, ExtensionAnswers, extVars
<1>5. CASE DisconnectTimerFires \/ Stop
  <2>1. cl \in cdpClients
    BY DEF ClientsListed
  <2>2. ASSUME ~ExtensionConnected \/ Stop PROVE cliState'[cl] # "open"
    BY <1>5, <2>1, <2>2 DEF DisconnectTimerFires, Stop
  <2>3. ExtensionConnected => ~Leaving(e) /\ ~GraceRuns
    BY DEF ExtensionConnected, Leaving, GraceRuns
  <2> QED
    BY <1>5, <2>2, <2>3
<1>6. ASSUME NEW k \in Client, ClientStep(k)
      PROVE  UNCHANGED <<extensionWs, extState, disconnectTimer>>
  BY <1>6 DEF ClientStep, ClientConnects, ClientLeaves, ClientClosed, CommandReceived, extVars
<1>7. CASE (\E r \in Req : RequestStep(r)) \/ (\E c \in Cmd : Route(c) \/ WaitTimeout(c))
  BY <1>7, <1>0 DEF RequestStep, RequestStarts, RequestArrives, Route, WaitTimeout, extVars
<1>8. CASE (\E id \in DOMAIN pendingExtension : PendingTimeout(id)) \/ UNCHANGED vars
  BY <1>8, <1>0 DEF PendingTimeout, extVars, vars
<1> QED
  BY <1>0, <1>1, <1>2, <1>3, <1>4, <1>5, <1>6, <1>7, <1>8 DEF Next

LEMMA GraceEvents ==
  ASSUME TypeOK, ClientsListed, ~HandshakeMayFail, NEW e \in Ext, NEW cl \in Client,
         cliState[cl] = "open"
  PROVE  /\ Leaving(e) /\ ExtensionClosed(e) => GraceRuns'
         /\ GraceRuns /\ DisconnectTimerFires => cliState'[cl] # "open"
<1>1. Leaving(e) /\ ExtensionClosed(e) => GraceRuns'
  BY DEF Leaving, ExtensionClosed, Current, StartGrace, GraceRuns
<1>2. GraceRuns /\ DisconnectTimerFires => cliState'[cl] # "open"
  BY DEF GraceRuns, DisconnectTimerFires, ExtensionConnected, ClientsListed
<1> QED
  BY <1>1, <1>2

LEMMA ClientReleasedInTheEnd ==
  ASSUME NEW e \in Ext, NEW cl \in Client, ~HandshakeMayFail
  PROVE  Spec /\ ExtensionCloses(e) /\ GraceEnds => IsReleased(e, cl)
<1>1. /\ TypeOK /\ ClientsListed /\ cliState[cl] = "open" /\ Leaving(e) /\ [Next]_vars
           => Leaving(e)' \/ GraceRuns' \/ (cliState[cl] # "open" \/ ExtensionConnected)'
      /\ TypeOK /\ ClientsListed /\ cliState[cl] = "open" /\ GraceRuns /\ [Next]_vars
           => GraceRuns' \/ (cliState[cl] # "open" \/ ExtensionConnected)'
  BY GraceStep
<1>2. /\ TypeOK /\ ClientsListed /\ cliState[cl] = "open" /\ Leaving(e)
           /\ <<ExtensionClosed(e)>>_vars => GraceRuns'
      /\ TypeOK /\ ClientsListed /\ cliState[cl] = "open" /\ GraceRuns
           /\ <<DisconnectTimerFires>>_vars => (cliState[cl] # "open" \/ ExtensionConnected)'
  BY GraceEvents
<1>3. /\ (extensionWs = e /\ extState[e] = "closing" /\ cliState[cl] = "open")
           <=> Leaving(e) /\ cliState[cl] = "open"
      /\ (cliState[cl] # "open" \/ ExtensionConnected)
           <=> ~(cliState[cl] = "open") \/ ExtensionConnected
      /\ (extState[e] # "closing") => ~Leaving(e)
      /\ GraceRuns => ~(disconnectTimer # "armed")
  BY DEF Leaving, GraceRuns
<1>4. Init => ClientsListed
  BY DEF Init, ClientsListed
<1>5. TypeOK /\ ClientsListed /\ [Next]_vars => ClientsListed'
  BY ListedStep
<1> QED
  BY <1>1, <1>2, <1>3, <1>4, <1>5, TypeCorrect, PTL
     DEF Spec, ExtensionCloses, GraceEnds, IsReleased

(* When the extension goes and no other comes, the clients that were       *)
(* connected are closed: the grace period is armed, and ends.              *)
THEOREM ClientsAreReleased ==
  ASSUME ~HandshakeMayFail
  PROVE  Spec /\ EventLoop => ClientsReleased
<1> SUFFICES ASSUME Spec /\ EventLoop
             PROVE  \A e \in Ext, cl \in Client : IsReleased(e, cl)
  BY DEF ClientsReleased
<1> TAKE e \in Ext, cl \in Client
<1>1. ExtensionCloses(e) /\ GraceEnds
  BY DEF EventLoop
<1> QED
  BY <1>1, ClientReleasedInTheEnd
---------------------------------------------------------------------------
(***************************************************************************)
(* The relay implements RelaySockets: sockets open alone, and a number is  *)
(* given to a socket in a step that finds and leaves it open and takes the *)
(* number from the counter.                                                *)
(***************************************************************************)
(* The counter does not go back, and what socket e is newly sent is the    *)
(* message under the number the counter showed.                            *)
Given(e) ==
  asked'[e] \subseteq asked[e]
    \/ /\ extensionWs = e /\ extState[e] = "open"
       /\ nextExtensionId < nextExtensionId' /\ UNCHANGED extState
       /\ \A m \in asked'[e] \ asked[e] : m.id = nextExtensionId

NumbersGiven == nextExtensionId <= nextExtensionId' /\ \A e \in Ext : Given(e)

LEMMA NothingGiven ==
  ASSUME TypeOK, TakeId \/ UNCHANGED nextExtensionId,
         \A e \in Ext : asked'[e] \subseteq asked[e]
  PROVE  NumbersGiven
  BY DEF NumbersGiven, Given, TakeId, TypeOK

LEMMA SendGives ==
  ASSUME TypeOK, NEW job, NEW pending, NEW unanswered \in [Ext -> SUBSET Message],
         \A e \in Ext : unanswered[e] \subseteq asked[e],
         SendToExtension(job, pending, unanswered), UNCHANGED extState
  PROVE  NumbersGiven
<1>1. nextExtensionId < nextExtensionId'
  BY DEF SendToExtension, TakeId, TypeOK
<1>2. CASE ExtensionConnected
  <2>1. extensionWs \in Ext /\ extState[extensionWs] = "open"
    BY <1>2 DEF ExtensionConnected, TypeOK
  <2>2. \A e \in Ext \ {extensionWs} : asked'[e] = unanswered[e]
    BY <1>2, <2>1 DEF SendToExtension
  <2>3. asked'[extensionWs]
          = unanswered[extensionWs] \cup {[id |-> nextExtensionId, job |-> job]}
    BY <1>2, <2>1 DEF SendToExtension
  <2>4. \A m \in asked'[extensionWs] \ asked[extensionWs] : m.id = nextExtensionId
    BY <2>1, <2>3
  <2>5. ASSUME NEW e \in Ext PROVE Given(e)
    BY <1>1, <2>1, <2>2, <2>4 DEF Given
  <2>6. nextExtensionId <= nextExtensionId'
    BY <1>1 DEF SendToExtension, TakeId, TypeOK
  <2> QED
    BY <2>5, <2>6 DEF NumbersGiven
<1>3. CASE ~ExtensionConnected
  <2>1. asked' = unanswered
    BY <1>3 DEF SendToExtension
  <2>2. nextExtensionId <= nextExtensionId'
    BY <1>1 DEF SendToExtension, TakeId, TypeOK
  <2> QED
    BY <2>1, <2>2 DEF NumbersGiven, Given
<1> QED
  BY <1>2, <1>3

LEMMA AnswersGive ==
  ASSUME TypeOK, NEW r, NEW id, NEW answer, NEW unanswered \in [Ext -> SUBSET Message],
         \A e \in Ext : unanswered[e] \subseteq asked[e],
         RequestAnswered(r, id, answer, unanswered), UNCHANGED extState
  PROVE  NumbersGiven
  BY RequestGoesOn, SendGives, NothingGiven

LEMMA NumbersStep ==
  ASSUME TypeOK, [Next]_vars
  PROVE  NumbersGiven
<1>1. ASSUME NEW e \in Ext, SocketStep(e) PROVE NumbersGiven
  <2>1. CASE ExtensionClosed(e)
    <3>1. nextExtensionId <= nextExtensionId'
      BY <2>1, RejectTyped DEF ExtensionClosed, jobVars, TypeOK
    <3>2. \A f \in Ext : asked'[f] \subseteq asked[f]
      BY <2>1 DEF ExtensionClosed, TypeOK
    <3> QED
      BY <3>1, <3>2 DEF NumbersGiven, Given
  <2>2. CASE ~ExtensionClosed(e)
    BY <1>1, <2>2, NothingGiven DEF SocketStep, ExtensionUpgrade, ExtensionRefused,
       ExtensionHandshakeFails, ExtensionLeaves, jobVars
  <2> QED
    BY <2>1, <2>2
<1>2. ASSUME NEW e \in Ext, MessageStep(e) PROVE NumbersGiven
  <2>1. ASSUME NEW m \in asked[e], NEW answer \in {"ok", "error", "missing"},
               ExtensionAnswers(e, m, answer)
        PROVE  NumbersGiven
    <3> DEFINE unanswered == [asked EXCEPT ![e] = @ \ {m}]
    <3>1. /\ unanswered \in [Ext -> SUBSET Message]
          /\ \A f \in Ext : unanswered[f] \subseteq asked[f]
      BY DEF TypeOK
    <3> HIDE DEF unanswered
    <3>2. \/ asked' = unanswered /\ UNCHANGED nextExtensionId
          \/ RequestAnswered(pendingExtension[m.id], m.id, answer, unanswered)
      BY <2>1 DEF ExtensionAnswers, CommandAnswered, jobVars, unanswered
    <3>3. UNCHANGED extState
      BY <2>1 DEF ExtensionAnswers
    <3> QED
      BY <3>1, <3>2, <3>3, NothingGiven, AnswersGive
  <2> QED
    BY <1>2, <2>1, NothingGiven DEF MessageStep, TargetAttached, SessionDetached, TargetGone,
       jobVars, extVars
<1>3. ASSUME NEW c \in Cmd, Route(c) \/ WaitTimeout(c) PROVE NumbersGiven
  <2>1. CASE SendToExtension(c, pendingExtension, asked) /\ UNCHANGED extState
    BY <2>1, SendGives DEF TypeOK
  <2>2. CASE UNCHANGED <<nextExtensionId, asked>>
    BY <2>2, NothingGiven
  <2> QED
    BY <1>3, <2>1, <2>2 DEF Route, RouteLocal, RouteAutoAttach, RouteAttach, RouteForward,
       WaitTimeout, extVars
<1>4. ASSUME NEW r \in Req, RequestStep(r) PROVE NumbersGiven
  <2>1. CASE SendToExtension(r, pendingExtension, asked) /\ UNCHANGED extState
    BY <2>1, SendGives DEF TypeOK
  <2>2. CASE UNCHANGED asked /\ (TakeId \/ UNCHANGED nextExtensionId)
    BY <2>2, NothingGiven
  <2> QED
    BY <1>4, <2>1, <2>2, RequestGoes DEF RequestStep, RequestArrives, RequestStarts, extVars
<1>5. ASSUME NEW id \in DOMAIN pendingExtension, PendingTimeout(id) PROVE NumbersGiven
  <2>1. asked \in [Ext -> SUBSET Message]
    BY DEF TypeOK
  <2> QED
    BY <1>5, <2>1, NothingGiven, AnswersGive DEF PendingTimeout
<1>6. CASE Stop
  BY <1>6, RejectTyped DEF Stop, NumbersGiven, Given
<1>7. CASE (\E cl \in Client : ClientStep(cl)) \/ DisconnectTimerFires \/ UNCHANGED vars
  BY <1>7, NothingGiven DEF ClientStep, ClientConnects, ClientLeaves, ClientClosed,
     CommandReceived, DisconnectTimerFires, vars, jobVars, extVars
<1> QED
  BY <1>1, <1>2, <1>3, <1>4, <1>5, <1>6, <1>7 DEF Next, ExtensionStep, SocketStep, MessageStep

OpensAlone(e) ==
  /\ extState[e] = "fresh" /\ extState'[e] = "open"
  /\ \A f \in Ext \ {e} : extState[f] # "open" /\ extState'[f] # "open"

ExtensionMoves(e) ==
  OpensAlone(e) \/ extState'[e] \in {"closing", "closed"} \/ extState'[e] = extState[e]

LEMMA ExtensionsMove ==
  ASSUME TypeOK, OneOpenExtension, [Next]_vars
  PROVE  \A e \in Ext : ExtensionMoves(e)
<1>1. ASSUME NEW e \in Ext, ExtensionUpgrade(e)
      PROVE  \A f \in Ext : ExtensionMoves(f)
  <2>1. \A f \in Ext : extState[f] # "open"
    BY <1>1 DEF ExtensionUpgrade, NoLiveExtension, ExtensionConnected, OneOpenExtension, TypeOK
  <2>2. OpensAlone(e) /\ \A f \in Ext \ {e} : extState'[f] = extState[f]
    BY <1>1, <2>1 DEF ExtensionUpgrade, OpensAlone, TypeOK
  <2> QED
    BY <2>2 DEF ExtensionMoves
<1>2. ASSUME NEW e \in Ext, SocketStep(e), ~ExtensionUpgrade(e)
      PROVE  \A f \in Ext : ExtensionMoves(f)
  BY <1>2 DEF SocketStep, ExtensionRefused, ExtensionHandshakeFails, ExtensionLeaves,
     ExtensionClosed, ExtensionMoves, TypeOK
<1>3. CASE Stop
  BY <1>3 DEF Stop, ExtensionMoves, TypeOK
<1>4. CASE UNCHANGED extState
  BY <1>4 DEF ExtensionMoves
<1> QED
  BY <1>1, <1>2, <1>3, <1>4, OthersKeepSockets, MessagesKeepSockets
     DEF Next, ExtensionStep, SocketStep, MessageStep, vars, extVars

LEMMA SocketsMoves ==
  ASSUME TypeOK, TypeOK', OneOpenExtension, [Next]_vars
  PROVE  Sockets!Next
<1> DEFINE life == [e \in Ext |-> ExtensionLife(extState[e])]
           held == [e \in Ext |-> {m.id : m \in asked[e]}]
<1>1. life' \in [Ext -> Sockets!Life]
  BY DEF ExtensionLife, Sockets!Life
<1>2. ASSUME NEW e \in Ext
      PROVE  Sockets!Opens(e) \/ Sockets!Ends(e) \/ Sockets!Stays(e)
  <2>1. OpensAlone(e) => Sockets!Opens(e)
    BY DEF OpensAlone, Sockets!Opens, ExtensionLife
  <2> QED
    BY <2>1, ExtensionsMove DEF ExtensionMoves, Sockets!Ends, Sockets!Stays, ExtensionLife
<1>3. nextExtensionId' - 1 \in Nat /\ nextExtensionId - 1 <= nextExtensionId' - 1
  BY NumbersStep DEF NumbersGiven, TypeOK
<1>4. held' \in [Ext -> SUBSET Nat]
  BY DEF TypeOK, Message
<1>5. ASSUME NEW e \in Ext, NEW n \in held'[e] \ held[e]
      PROVE  Sockets!IsSent(e, n)
  <2>1. PICK m \in asked'[e] \ asked[e] : m.id = n
    BY <1>5
  <2>2. /\ extState[e] = "open" /\ nextExtensionId < nextExtensionId' /\ UNCHANGED extState
        /\ n = nextExtensionId
    BY <2>1, NumbersStep DEF NumbersGiven, Given
  <2> QED
    BY <2>2 DEF Sockets!IsSent, Sockets!Stays, ExtensionLife, TypeOK
<1> QED
  BY <1>1, <1>2, <1>3, <1>4, <1>5 DEF Sockets!Next

(* At most one socket is the extension's at a time, and messages go to it  *)
(* alone, under numbers of their own: what the bridges of the server       *)
(* assume of the relay they connect to.                                    *)
THEOREM RelayKeepsSockets == Spec => SocketsSpec
<1>1. Init => Sockets!Init
  BY DEF Init, Sockets!Init, ExtensionLife
<1>2. TypeOK /\ TypeOK' /\ OneOpenExtension /\ [Next]_vars => Sockets!Next
  BY SocketsMoves
<1> QED
  BY <1>1, <1>2, TypeCorrect, OneExtension, PTL DEF Spec, SocketsSpec, Sockets!Spec
===========================================================================
