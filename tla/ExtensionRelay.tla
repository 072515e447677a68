-------------------------- MODULE ExtensionRelay --------------------------
(***************************************************************************)
(* The relay of src/src/browser/extension-relay.ts: one HTTP/WebSocket     *)
(* server per port, with at most one browser extension behind it and any   *)
(* number of CDP clients in front.  Commands of the clients and of the     *)
(* HTTP routes become numbered messages to the extension; its answers are  *)
(* matched by number and its events are broadcast.                         *)
(*                                                                         *)
(* One action is one run of the event loop up to the moment the microtask  *)
(* queue is empty, except that commands woken by a reconnect (or just      *)
(* received) are routed by steps of their own, Route, which come before    *)
(* any other event: that is the guard MicrotasksDone.                      *)
(*                                                                         *)
(* Time is abstracted: the 3 s wait, the 20 s grace and the 30/15/10 s     *)
(* request timers (the first two can be set in the environment) may fire   *)
(* at any moment while they are armed.  Tab metadata (title, url) and the  *)
(* order of the target cache are left out.                                 *)
(***************************************************************************)
EXTENDS Naturals, FiniteSets, Functions

CONSTANTS
  Ext,       \* extension sockets that may ever be opened
  Client,    \* CDP sockets that may ever be opened
  Cmd,       \* CDP commands that may ever be sent
  Req,       \* HTTP requests to the routes that use the extension
  Session,   \* CDP session ids
  Target,    \* CDP target ids
  CmdShape,  \* the contents of the commands: see Shape
  None,      \* absence of any of the above
  HandshakeMayFail  \* whether a WebSocket handshake may break off

CmdKind == {"local", "autoAttach", "attach", "forward"}
Shape == [kind: CmdKind, session: Session \cup {None}, target: Target \cup {None}]
ReqKind == {"snapshot", "debugger", "action"}

ASSUME RelayAssumption ==
  /\ CmdShape \subseteq Shape
  /\ None \notin Ext \cup Client \cup Cmd \cup Req \cup Session \cup Target
  /\ Cmd \cap Req = {}
  /\ HandshakeMayFail \in BOOLEAN

VARIABLES
  extensionWs,       \* the current extension socket, or None
  extState,          \* readyState of every extension socket
  asked,             \* messages an extension was sent and has not answered
  disconnectTimer,   \* extensionDisconnectCleanupTimer
  cdpClients,        \* the set of CDP sockets the relay broadcasts to
  cliState,          \* readyState of every CDP socket
  connectedTargets,  \* the cache of attached tabs
  pendingExtension,  \* id -> the command or request waiting for the answer
  nextExtensionId,
  cmd,               \* the handler of each command: where it is
  req,               \* the handler of each HTTP request
  view,              \* attachments each client was told of and not told gone
  autoAttached,      \* clients that were sent the whole cache
  server             \* whether stop() was called

extVars == <<extensionWs, extState, asked, disconnectTimer>>
cliVars == <<cdpClients, cliState>>
tabVars == <<connectedTargets, view, autoAttached>>
jobVars == <<pendingExtension, nextExtensionId, cmd, req>>
vars == <<extVars, cliVars, tabVars, jobVars, server>>

Attachment == [sessionId: Session, targetId: Target]
Message == [id: Nat, job: Cmd \cup Req]
Awaiting == {"woken", "waiting", "pending"}
Ended == {"unsent", "result", "error", "dropped"}
ReqStatus == {"unsent", "reading", "first", "second", "ok", "failed"}

CmdHandler ==
  [status: Awaiting, client: Client, shape: Shape]
    \cup [status: Ended, client: Client \cup {None}, shape: {None}]
ReqHandler == [status: ReqStatus, kind: ReqKind \cup {None}]

NoPending == [id \in {} |-> None]

TypeOK ==
  /\ extensionWs \in Ext \cup {None}
  /\ extState \in [Ext -> {"fresh", "open", "closing", "closed"}]
  /\ asked \in [Ext -> SUBSET Message]
  /\ disconnectTimer \in {"off", "armed"}
  /\ cdpClients \subseteq Client
  /\ cliState \in [Client -> {"fresh", "open", "leaving", "closing", "closed"}]
  /\ connectedTargets \subseteq Attachment
  /\ pendingExtension \in [DOMAIN pendingExtension -> Cmd \cup Req]
  /\ DOMAIN pendingExtension \subseteq 1..(nextExtensionId - 1)
  /\ nextExtensionId \in Nat \ {0}
  /\ cmd \in [Cmd -> CmdHandler]
  /\ req \in [Req -> ReqHandler]
  /\ view \in [Client -> SUBSET Attachment]
  /\ autoAttached \subseteq Client
  /\ server \in {"running", "stopped"}

Init ==
  /\ extensionWs = None
  /\ extState = [e \in Ext |-> "fresh"]
  /\ asked = [e \in Ext |-> {}]
  /\ disconnectTimer = "off"
  /\ cdpClients = {}
  /\ cliState = [cl \in Client |-> "fresh"]
  /\ connectedTargets = {}
  /\ pendingExtension = NoPending
  /\ nextExtensionId = 1
  /\ cmd = [c \in Cmd |-> [status |-> "unsent", client |-> None, shape |-> None]]
  /\ req = [r \in Req |-> [status |-> "unsent", kind |-> None]]
  /\ view = [cl \in Client |-> {}]
  /\ autoAttached = {}
  /\ server = "running"
---------------------------------------------------------------------------
(* extensionConnected()                                                    *)
ExtensionConnected == extensionWs # None /\ extState[extensionWs] = "open"

MicrotasksDone == \A c \in Cmd : cmd[c].status # "woken"

CmdsWith(st) == {c \in Cmd : cmd[c].status = st}
InFlight == Range(pendingExtension)
AfterSession(s) == {a \in connectedTargets : a.sessionId = s}
AfterTarget(t) == {a \in connectedTargets : a.targetId = t}

(* broadcastToCdpClients: what the open clients are told is gone, and new. *)
Broadcast(gone, new) ==
  view' = [cl \in Client |->
             IF cl \in cdpClients /\ cliState[cl] = "open"
             THEN (view[cl] \ gone) \cup new ELSE view[cl]]

(* The view of a socket that is not open any more does not matter.         *)
ForgetViews(sockets) ==
  view' = [cl \in Client |-> IF sockets[cl] = "open" THEN view[cl] ELSE {}]

(* Mutant of Sent: the readyState check is missing.                        *)
SentAnyway(c, outcome, sockets) ==
  [status |-> outcome, client |-> cmd[c].client, shape |-> None]

(* sendResponseToCdp: an answer goes out only while the socket is open.    *)
Sent(c, outcome, sockets) ==
  [status |-> IF sockets[cmd[c].client] = "open" THEN outcome ELSE "dropped",
   client |-> cmd[c].client, shape |-> None]

(* Mutant of RespondAll: the promises are dropped, not rejected.           *)
ForgetResponses(S, sockets) == UNCHANGED cmd

RespondAll(S, sockets) ==
  cmd' = [c \in Cmd |-> IF c \in S THEN Sent(c, "error", sockets) ELSE cmd[c]]

(* Mutant of Respond: with its socket gone a command is left as it was.    *)
RespondIfOpen(c, outcome) ==
  IF cliState[cmd[c].client] = "open" THEN cmd' = [cmd EXCEPT ![c] = Sent(c, outcome, cliState)]
  ELSE UNCHANGED cmd

Respond(c, outcome) == cmd' = [cmd EXCEPT ![c] = Sent(c, outcome, cliState)]

(* Mutant of RejectAllReqs: the map is cleared and nobody is told.         *)
ForgetReqs == UNCHANGED <<req, nextExtensionId>>

(* The entries of snapshots that wait for Accessibility.enable.            *)
EnableEntries ==
  {id \in DOMAIN pendingExtension :
     \E r \in Req : r = pendingExtension[id] /\ req[r] = [status |-> "first", kind |-> "snapshot"]}

(* The pendings of the map are rejected and an HTTP request answers 500; a *)
(* snapshot does not mind that its first message was, takes an id for the  *)
(* second and is turned away by sendToExtension.                           *)
RejectAllReqs ==
  /\ req' = [r \in Req |-> IF r \in InFlight THEN [req[r] EXCEPT !.status = "failed"]
                           ELSE req[r]]
  /\ nextExtensionId' = nextExtensionId + Cardinality(EnableEntries)

(* Mutant of TakeId: the id is the size of the map.                        *)
ReuseId == nextExtensionId' = Cardinality(DOMAIN pendingExtension) + 1

TakeId == nextExtensionId' = nextExtensionId + 1

(* A new id and a pending entry for it; ws drops what is sent to a socket  *)
(* that is not open any more.                                              *)
SendToExtension(job, pending, unanswered) ==
  /\ TakeId
  /\ pendingExtension' =
       [i \in DOMAIN pending \cup {nextExtensionId} |->
          IF i = nextExtensionId THEN job ELSE pending[i]]
  /\ asked' = IF ExtensionConnected
              THEN [unanswered EXCEPT ![extensionWs] = @ \cup {[id |-> nextExtensionId, job |-> job]}]
              ELSE unanswered

Without(id) == Restrict(pendingExtension, DOMAIN pendingExtension \ {id})

(* What a missing-target error of command c proves stale.                  *)
Stale(c) ==
  LET sh == cmd[c].shape IN
  IF AfterSession(sh.session) # {} THEN AfterSession(sh.session)
  ELSE AfterTarget(sh.target)

(* Mutant of PruneStale: the clients are not told.                         *)
PruneSilently(c) ==
  /\ connectedTargets' = connectedTargets \ Stale(c)
  /\ UNCHANGED view

(* pruneStaleTargetsFromCommandFailure, for a missing-target error.        *)
PruneStale(c) ==
  /\ connectedTargets' = connectedTargets \ Stale(c)
  /\ Broadcast(Stale(c), {})
---------------------------------------------------------------------------
(* The extension socket                                                    *)

(* Mutant of NoLiveExtension: the 409 check is missing.                    *)
LiveMayBeReplaced == TRUE

(* The upgrade handler drops a stale reference and refuses while one lives.*)
NoLiveExtension == ~ExtensionConnected

(* Mutant of WakeWaiters: the flush is forgotten.                          *)
NobodyWoken == UNCHANGED cmd

(* flushExtensionReconnectWaiters(true)                                    *)
WakeWaiters ==
  cmd' = [c \in Cmd |-> IF c \in CmdsWith("waiting")
                        THEN [cmd[c] EXCEPT !.status = "woken"] ELSE cmd[c]]

(* Mutant of StartGrace: the close handler arms no timer.                  *)
NoGrace == UNCHANGED disconnectTimer

(* scheduleExtensionDisconnectCleanup                                      *)
StartGrace == disconnectTimer' = "armed"

(* Mutant of Current: old sockets are not told apart.                      *)
AnySocket(e) == TRUE

(* The test the handlers of a socket start with.                           *)
Current(e) == extensionWs = e

(* GET /extension: a stale socket is dropped, a live one wins (409); the   *)
(* connection handler then takes the socket, cancels the clean-up and      *)
(* wakes the commands that wait.                                           *)
ExtensionUpgrade(e) ==
  /\ MicrotasksDone /\ server = "running"
  /\ extState[e] = "fresh" /\ NoLiveExtension
  /\ extensionWs' = e
  /\ extState' = [extState EXCEPT ![e] = "open"]
  /\ disconnectTimer' = "off"
  /\ WakeWaiters
  /\ UNCHANGED <<asked, cliVars, tabVars, pendingExtension, nextExtensionId, req, server>>

ExtensionRefused(e) ==
  /\ MicrotasksDone /\ server = "running"
  /\ extState[e] = "fresh" /\ ExtensionConnected
  /\ extState' = [extState EXCEPT ![e] = "closed"]
  /\ UNCHANGED <<extensionWs, asked, disconnectTimer, cliVars, tabVars, jobVars, server>>

(* The stale socket was dropped, and then handleUpgrade gave the socket up *)
(* before any connection event.                                            *)
ExtensionHandshakeFails(e) ==
  /\ MicrotasksDone /\ server = "running" /\ HandshakeMayFail
  /\ extState[e] = "fresh" /\ NoLiveExtension
  /\ extensionWs' = None
  /\ extState' = [extState EXCEPT ![e] = "closed"]
  /\ UNCHANGED <<asked, disconnectTimer, cliVars, tabVars, jobVars, server>>

(* The extension goes away: the socket is CLOSING before "close" is heard. *)
ExtensionLeaves(e) ==
  /\ MicrotasksDone
  /\ extState[e] = "open"
  /\ extState' = [extState EXCEPT ![e] = "closing"]
  /\ UNCHANGED <<extensionWs, asked, disconnectTimer, cliVars, tabVars, jobVars, server>>

(* ws.on("close"): the current socket rejects what is pending and starts   *)
(* the grace period; a socket that was replaced does nothing.              *)
ExtensionClosed(e) ==
  /\ MicrotasksDone
  /\ extState[e] = "closing"
  /\ extState' = [extState EXCEPT ![e] = "closed"]
  /\ asked' = [asked EXCEPT ![e] = {}]
  /\ IF Current(e)
     THEN /\ extensionWs' = None
          /\ StartGrace
          /\ pendingExtension' = NoPending
          /\ RespondAll(InFlight \cap Cmd, cliState)
          /\ RejectAllReqs
     ELSE UNCHANGED <<extensionWs, disconnectTimer, jobVars>>
  /\ UNCHANGED <<cliVars, tabVars, server>>

(* The grace period is over and the extension is still away.               *)
DisconnectTimerFires ==
  /\ MicrotasksDone
  /\ disconnectTimer = "armed" /\ disconnectTimer' = "off"
  /\ IF ExtensionConnected
     THEN UNCHANGED <<connectedTargets, view, cdpClients, cliState, cmd>>
     ELSE /\ connectedTargets' = {}
          /\ cliState' = [cl \in Client |->
               IF cl \in cdpClients /\ cliState[cl] = "open" THEN "closing" ELSE cliState[cl]]
          /\ cdpClients' = {}
          /\ ForgetViews(cliState')
          /\ RespondAll(CmdsWith("waiting"), cliState')
  /\ UNCHANGED <<extensionWs, extState, asked, autoAttached,
                 pendingExtension, nextExtensionId, req, server>>
---------------------------------------------------------------------------
(* Messages of the extension                                               *)

(* Only the current socket is listened to, and until its close is heard:   *)
(* what the extension sent before still arrives while it is CLOSING.       *)
Heard(e) ==
  /\ MicrotasksDone
  /\ Current(e)
  /\ extState[e] \in {"open", "closing"}

(* Target.attachedToTarget for a page.                                     *)
TargetAttached(e, s, t) ==
  LET new == [sessionId |-> s, targetId |-> t]
      prev == AfterSession(s)
  IN /\ Heard(e)
     /\ connectedTargets' = (connectedTargets \ prev) \cup {new}
     /\ IF prev = {new} THEN UNCHANGED view ELSE Broadcast(prev, {new})
     /\ UNCHANGED <<extVars, cliVars, autoAttached, jobVars, server>>

(* Target.detachedFromTarget with a session id.                            *)
SessionDetached(e, s) ==
  /\ Heard(e)
  /\ connectedTargets' = connectedTargets \ AfterSession(s)
  /\ Broadcast({a \in Attachment : a.sessionId = s}, {})
  /\ UNCHANGED <<extVars, cliVars, autoAttached, jobVars, server>>

(* Target.targetDestroyed, Target.targetCrashed, or a detach that names    *)
(* only the target.                                                        *)
TargetGone(e, t) ==
  /\ Heard(e)
  /\ connectedTargets' = connectedTargets \ AfterTarget(t)
  /\ Broadcast({a \in Attachment : a.targetId = t}, {})
  /\ UNCHANGED <<extVars, cliVars, autoAttached, jobVars, server>>

(* The answer to a client's command, or one of its failures.               *)
CommandAnswered(c, id, answer) ==
  /\ pendingExtension' = Without(id)
  /\ Respond(c, IF answer = "ok" THEN "result" ELSE "error")
  /\ IF answer = "missing" THEN PruneStale(c) ELSE UNCHANGED <<connectedTargets, view>>
  /\ UNCHANGED <<nextExtensionId, req>>

(* An HTTP request goes on with its second message or ends: ai-snapshot    *)
(* ignores how Accessibility.enable ended, type-input and click-submit     *)
(* need the tab id, activate and close do not look at the answer.          *)
SecondMessageDue(r, answer) ==
  /\ req[r].status = "first"
  /\ \/ req[r].kind = "snapshot"
     \/ req[r].kind = "debugger" /\ answer = "ok"

SetReq(r, st) == req' = [req EXCEPT ![r].status = st]

(* A message of an HTTP request.  sendToExtension looks at the socket when *)
(* the id is already taken; the second message of type-input and           *)
(* click-submit is sent without it, and nobody looks.                      *)
RequestSends(r, st, pending, unanswered) ==
  IF ExtensionConnected \/ (st = "second" /\ req[r].kind = "debugger")
  THEN SendToExtension(r, pending, unanswered) /\ SetReq(r, st)
  ELSE /\ TakeId
       /\ pendingExtension' = pending
       /\ asked' = unanswered
       /\ SetReq(r, "failed")

RequestAnswered(r, id, answer, unanswered) ==
  /\ IF SecondMessageDue(r, answer)
     THEN RequestSends(r, "second", Without(id), unanswered)
     ELSE /\ pendingExtension' = Without(id)
          /\ SetReq(r, IF answer = "ok" THEN "ok" ELSE "failed")
          /\ asked' = unanswered
          /\ UNCHANGED nextExtensionId
  /\ UNCHANGED <<cmd, connectedTargets, view>>

(* A message with an id: the entry is removed and its owner goes on; an    *)
(* answer nobody waits for is ignored.                                     *)
ExtensionAnswers(e, m, answer) ==
  LET unanswered == [asked EXCEPT ![e] = @ \ {m}]
      id == m.id
      job == pendingExtension[id]
  IN /\ Heard(e)
     /\ m \in asked[e]
     /\ CASE id \notin DOMAIN pendingExtension ->
               asked' = unanswered /\ UNCHANGED <<jobVars, connectedTargets, view>>
          [] id \in DOMAIN pendingExtension /\ job \in Cmd ->
               asked' = unanswered /\ CommandAnswered(job, id, answer)
          [] id \in DOMAIN pendingExtension /\ job \notin Cmd ->
               RequestAnswered(job, id, answer, unanswered)
     /\ UNCHANGED <<extensionWs, extState, disconnectTimer, cliVars, autoAttached, server>>

(* The timer of a pending entry fires first.                               *)
PendingTimeout(id) ==
  LET job == pendingExtension[id] IN
  /\ MicrotasksDone
  /\ id \in DOMAIN pendingExtension
  /\ IF job \in Cmd
     THEN /\ pendingExtension' = Without(id)
          /\ Respond(job, "error")
          /\ UNCHANGED <<nextExtensionId, req, asked, connectedTargets, view>>
     ELSE RequestAnswered(job, id, "timeout", asked)
  /\ UNCHANGED <<extensionWs, extState, disconnectTimer, cliVars, autoAttached, server>>
---------------------------------------------------------------------------
(* The CDP clients                                                         *)

ClientConnects(cl) ==
  /\ MicrotasksDone /\ server = "running"
  /\ cliState[cl] = "fresh"
  /\ cliState' = [cliState EXCEPT ![cl] = "open"]
  /\ cdpClients' = cdpClients \cup {cl}
  /\ UNCHANGED <<extVars, tabVars, jobVars, server>>

ClientLeaves(cl) ==
  /\ MicrotasksDone
  /\ cliState[cl] = "open"
  /\ cliState' = [cliState EXCEPT ![cl] = "leaving"]
  /\ ForgetViews(cliState')
  /\ UNCHANGED <<extVars, cdpClients, connectedTargets, autoAttached, jobVars, server>>

ClientClosed(cl) ==
  /\ MicrotasksDone
  /\ cliState[cl] \in {"leaving", "closing"}
  /\ cliState' = [cliState EXCEPT ![cl] = "closed"]
  /\ cdpClients' = cdpClients \ {cl}
  /\ UNCHANGED <<extVars, tabVars, jobVars, server>>

(* A command comes in.  A client the relay is closing may still send.      *)
CommandReceived(c, cl, sh) ==
  /\ MicrotasksDone
  /\ cmd[c].status = "unsent"
  /\ cliState[cl] \in {"open", "closing"}
  /\ cmd' = [cmd EXCEPT ![c] =
               [status |-> IF ExtensionConnected THEN "woken" ELSE "waiting",
                client |-> cl, shape |-> sh]]
  /\ UNCHANGED <<extVars, cliVars, tabVars, pendingExtension, nextExtensionId, req, server>>

(* The wait for the extension is over (extensionCommandReconnectWaitMs).   *)
WaitTimeout(c) ==
  /\ MicrotasksDone
  /\ cmd[c].status = "waiting"
  /\ Respond(c, "error")
  /\ UNCHANGED <<extVars, cliVars, tabVars, pendingExtension, nextExtensionId, req, server>>

(* routeCdpCommand and the rest of the message handler, by kind of command.*)
RouteLocal(c) ==
  /\ cmd[c].shape.kind = "local"
  /\ Respond(c, "result")
  /\ UNCHANGED <<asked, tabVars, pendingExtension, nextExtensionId>>

(* Target.setAutoAttach: unless it names a session, the sender is told of  *)
(* every cached tab.                                                       *)
RouteAutoAttach(c) ==
  LET cl == cmd[c].client IN
  /\ cmd[c].shape.kind = "autoAttach"
  /\ IF cmd[c].shape.session = None /\ cliState[cl] = "open"
     THEN /\ view' = [view EXCEPT ![cl] = @ \cup connectedTargets]
          /\ autoAttached' = autoAttached \cup {cl}
     ELSE UNCHANGED <<view, autoAttached>>
  /\ Respond(c, "result")
  /\ UNCHANGED <<asked, connectedTargets, pendingExtension, nextExtensionId>>

(* Target.attachToTarget is answered from the cache; "target not found" is *)
(* itself a missing-target error.                                          *)
RouteAttach(c) ==
  LET cl == cmd[c].client
      found == AfterTarget(cmd[c].shape.target)
  IN
  /\ cmd[c].shape.kind = "attach"
  /\ \/ /\ \E a \in found :
             view' = IF cliState[cl] = "open"
                     THEN [view EXCEPT ![cl] = @ \cup {a}] ELSE view
        /\ Respond(c, "result")
        /\ UNCHANGED connectedTargets
     \/ /\ found = {}
        /\ IF cmd[c].shape.target = None THEN UNCHANGED <<connectedTargets, view>>
           ELSE PruneStale(c)
        /\ Respond(c, "error")
  /\ UNCHANGED <<asked, autoAttached, pendingExtension, nextExtensionId>>

RouteForward(c) ==
  /\ cmd[c].shape.kind = "forward"
  /\ SendToExtension(c, pendingExtension, asked)
  /\ cmd' = [cmd EXCEPT ![c].status = "pending"]
  /\ UNCHANGED tabVars

Route(c) ==
  /\ cmd[c].status = "woken"
  /\ \/ /\ ExtensionConnected
        /\ RouteLocal(c) \/ RouteAutoAttach(c) \/ RouteAttach(c) \/ RouteForward(c)
     \/ /\ ~ExtensionConnected
        /\ Respond(c, "error")
        /\ UNCHANGED <<asked, tabVars, pendingExtension, nextExtensionId>>
  /\ UNCHANGED <<extensionWs, extState, disconnectTimer, cliVars, req, server>>
---------------------------------------------------------------------------
(* HTTP routes that use the extension                                      *)

(* The head of a request: 503 unless the extension is connected, except    *)
(* for activate and close, which do not look.                              *)
RequestArrives(r, k) ==
  /\ MicrotasksDone /\ server = "running"
  /\ req[r].status = "unsent"
  /\ req' = [req EXCEPT ![r] =
       [kind |-> k, status |-> IF ExtensionConnected \/ k = "action"
                               THEN "reading" ELSE "failed"]]
  /\ UNCHANGED <<extVars, cliVars, tabVars, pendingExtension, nextExtensionId, cmd, server>>

(* The body is in, the first message goes out: the extension may have gone *)
(* since the check, and type-input needs an attached tab.                  *)
RequestStarts(r) ==
  /\ MicrotasksDone
  /\ req[r].status = "reading"
  /\ IF req[r].kind = "debugger" => connectedTargets # {}
     THEN RequestSends(r, "first", pendingExtension, asked)
     ELSE /\ SetReq(r, "failed")
          /\ UNCHANGED <<pendingExtension, nextExtensionId, asked>>
  /\ UNCHANGED <<extensionWs, extState, disconnectTimer, cliVars, tabVars, cmd, server>>
---------------------------------------------------------------------------
(* stop(): timers, waits and pendings are settled and all sockets told to  *)
(* close; the answers of the settled commands find their sockets CLOSING.  *)
Stop ==
  /\ MicrotasksDone /\ server = "running"
  /\ server' = "stopped"
  /\ disconnectTimer' = "off"
  /\ pendingExtension' = NoPending
  /\ extState' = [e \in Ext |-> IF e = extensionWs /\ extState[e] = "open"
                                THEN "closing" ELSE extState[e]]
  /\ cliState' = [cl \in Client |-> IF cl \in cdpClients /\ cliState[cl] = "open"
                                    THEN "closing" ELSE cliState[cl]]
  /\ RespondAll(CmdsWith("waiting") \cup (InFlight \cap Cmd), cliState')
  /\ RejectAllReqs
  /\ ForgetViews(cliState')
  /\ UNCHANGED <<extensionWs, asked, cdpClients, connectedTargets, autoAttached>>
---------------------------------------------------------------------------
ExtensionStep(e) ==
  \/ ExtensionUpgrade(e) \/ ExtensionRefused(e) \/ ExtensionHandshakeFails(e)
  \/ ExtensionLeaves(e) \/ ExtensionClosed(e)
  \/ \E s \in Session, t \in Target : TargetAttached(e, s, t)
  \/ \E s \in Session : SessionDetached(e, s)
  \/ \E t \in Target : TargetGone(e, t)
  \/ \E m \in asked[e], answer \in {"ok", "error", "missing"} :
       ExtensionAnswers(e, m, answer)

ClientStep(cl) ==
  \/ ClientConnects(cl) \/ ClientLeaves(cl) \/ ClientClosed(cl)
  \/ \E c \in Cmd, sh \in CmdShape : CommandReceived(c, cl, sh)

RequestStep(r) == RequestStarts(r) \/ \E k \in ReqKind : RequestArrives(r, k)

Next ==
  \/ \E e \in Ext : ExtensionStep(e)
  \/ \E cl \in Client : ClientStep(cl)
  \/ \E r \in Req : RequestStep(r)
  \/ \E c \in Cmd : Route(c) \/ WaitTimeout(c)
  \/ \E id \in DOMAIN pendingExtension : PendingTimeout(id)
  \/ DisconnectTimerFires
  \/ Stop

Spec == Init /\ [][Next]_vars

JobTimeout(job) ==
  \E id \in DOMAIN pendingExtension : pendingExtension[id] = job /\ PendingTimeout(id)

(* Armed timers fire and closing sockets close; that the event loop runs.  *)
(* Nothing is assumed of the extension, the clients or the HTTP peers.     *)
Fairness ==
  /\ \A c \in Cmd : WF_vars(Route(c)) /\ WF_vars(WaitTimeout(c))
  /\ \A job \in Cmd \cup Req : WF_vars(JobTimeout(job))
  /\ \A e \in Ext : WF_vars(ExtensionClosed(e))
  /\ \A cl \in Client : WF_vars(ClientClosed(cl))
  /\ WF_vars(DisconnectTimerFires)

FairSpec == Spec /\ Fairness

(* What that comes to for the timers and sockets themselves: what stays    *)
(* due gets its event, though every other event has to wait until the      *)
(* microtask queue is empty, and new commands keep filling it.             *)
RouteHappens(c) == []<>(cmd[c].status # "woken") \/ []<><<Route(c)>>_vars
WaitEnds(c) == []<>(cmd[c].status # "waiting") \/ []<><<WaitTimeout(c)>>_vars
TimerRuns(job) == []<>(job \notin InFlight) \/ []<><<JobTimeout(job)>>_vars
ExtensionCloses(e) == []<>(extState[e] # "closing") \/ []<><<ExtensionClosed(e)>>_vars
GraceEnds == []<>(disconnectTimer # "armed") \/ []<><<DisconnectTimerFires>>_vars

EventLoop ==
  /\ \A c \in Cmd : RouteHappens(c) /\ WaitEnds(c)
  /\ \A job \in Cmd \cup Req : TimerRuns(job)
  /\ \A e \in Ext : ExtensionCloses(e)
  /\ GraceEnds
---------------------------------------------------------------------------
(* What must hold of the relay                                             *)

(* A second live extension is turned away, and the relay never holds on to *)
(* another socket than the live one (the upgrade handler).                 *)
OneOpenExtension == \A e \in Ext : extState[e] = "open" => extensionWs = e

(* No lost wake-up: a command that came in while the extension was away    *)
(* does not sleep on once it is back (flushExtensionReconnectWaiters).     *)
NoWaitWhileConnected == ExtensionConnected => CmdsWith("waiting") = {}

(* Every handler that awaits the extension has one entry in the pending    *)
(* map, so that an answer, a timer or a close will settle it, and every    *)
(* entry has such a handler.                                               *)
PendingOwned ==
  /\ IsInjective(pendingExtension)
  /\ \A c \in Cmd : cmd[c].status = "pending" <=> c \in InFlight
  /\ \A r \in Req : req[r].status \in {"first", "second"} <=> r \in InFlight

(* An answer is never taken for the answer to something else: the id of a  *)
(* message the extension still holds is not used for another handler.      *)
AnswersFindTheirAsker ==
  extensionWs # None =>
    \A m \in asked[extensionWs] :
      m.id \in DOMAIN pendingExtension => pendingExtension[m.id] = m.job

(* What an open client was told agrees with the cache: it knows no tab the *)
(* relay has dropped, and after Target.setAutoAttach it knows them all.    *)
ClientsSeeTheCache ==
  \A cl \in cdpClients : cliState[cl] = "open" =>
    /\ view[cl] \subseteq connectedTargets
    /\ cl \in autoAttached => view[cl] = connectedTargets

(* Tabs stay in the cache without an extension only during a grace period  *)
(* that will end (scheduleExtensionDisconnectCleanup).                     *)
LossIsWatched ==
  (extensionWs = None /\ connectedTargets # {} /\ server = "running" /\ ~HandshakeMayFail)
    => disconnectTimer = "armed"

(* The relay closes no client while an extension socket is open, whatever  *)
(* old sockets and timers are still around ("keeps CDP clients alive       *)
(* across a brief extension reconnect").                                   *)
ClientsSurviveReconnect ==
  [][\A cl \in Client : cliState[cl] = "open" /\ cliState'[cl] = "closing" =>
       server' = "stopped" \/ \A e \in Ext : extState[e] # "open"]_vars

(* The relay keeps the promise of CdpCommandService.                       *)
ServiceStatus(st) ==
  IF st \in Awaiting THEN "outstanding" ELSE st
SocketLife(st) == IF st \in {"fresh", "open"} THEN st ELSE "gone"

Service == INSTANCE CdpCommandService WITH
  NoClient <- None,
  status <- [c \in Cmd |-> ServiceStatus(cmd[c].status)],
  sender <- [c \in Cmd |-> cmd[c].client],
  up <- [cl \in Client |-> SocketLife(cliState[cl])]

ServiceSpec == Service!Spec

(* The relay keeps the promise of RelaySockets.                            *)
ExtensionLife(st) == IF st \in {"fresh", "open"} THEN st ELSE "over"

Sockets == INSTANCE RelaySockets WITH
  Sock <- Ext,
  life <- [e \in Ext |-> ExtensionLife(extState[e])],
  held <- [e \in Ext |-> {m.id : m \in asked[e]}],
  last <- nextExtensionId - 1

SocketsSpec == Sockets!Spec

(* Every command is settled: no answer of the extension is needed for it.  *)
CommandsServed == Service!Served

(* Every HTTP request that reached the extension is answered.              *)
IsAnswered(r) == req[r].status \in {"first", "second"} ~> req[r].status \in {"ok", "failed"}

RequestsSettle == \A r \in Req : IsAnswered(r)

(* When the extension goes and stays away, the clients that were connected *)
(* are closed ("closes CDP clients after reconnect grace when extension    *)
(* stays disconnected").                                                   *)
IsReleased(e, cl) ==
  (extensionWs = e /\ extState[e] = "closing" /\ cliState[cl] = "open")
    ~> (cliState[cl] # "open" \/ ExtensionConnected)

ClientsReleased == \A e \in Ext, cl \in Client : IsReleased(e, cl)
===========================================================================
