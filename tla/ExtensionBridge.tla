-------------------------- MODULE ExtensionBridge --------------------------
(***************************************************************************)
(* The server side of the browser extensions, src/src/index.ts: one        *)
(* WebSocket per extension, a relay port per user, and a bridge socket     *)
(* from the server to the relay of that port (ExtensionRelay), over which  *)
(* messages are copied both ways.  Besides, the server asks the extension  *)
(* things itself (sendCdpCommand, sendExtensionMessage).                   *)
(*                                                                         *)
(* The connection handler runs over three awaits (the key look-up, the     *)
(* relay start, a pause of 500 ms) and only then listens to its socket:    *)
(* "step" says where it is.  Time is abstracted: pauses and timers end at  *)
(* any moment.  The connection rate limit is left out.                     *)
(***************************************************************************)
EXTENDS Naturals, FiniteSets

CONSTANTS
  User,
  Sock,        \* extension sockets that may ever connect
  UserOf,      \* whose api key each of them presents
  Port,        \* the relay ports there are
  Msg,         \* messages the server may ever send of its own
  None,
  MaxRelayId   \* bound: numbers each relay may take for a message

Relay == "relay"

ASSUME BridgeAssumption ==
  /\ UserOf \in [Sock -> User]
  /\ Port \subseteq Nat
  /\ None \notin User \cup Sock \cup Port \cup Msg
  /\ Relay \notin Msg

VARIABLES
  ws,        \* readyState of each extension socket
  step,      \* where its connection handler is
  relayPort, \* the port the handler read
  extensionConnections,  \* user -> socket
  pendingCdpCommands,    \* user -> the map made for this socket
  pending,   \* the entries of all those maps
  cdpCommandId,
  msg,       \* how each message of the server stands
  userRelayPorts, usedPorts,
  relayBridges,  \* user -> the bridge made for this socket
  bridge,    \* readyState of the bridge each handler makes
  relayId,   \* the next number of each relay (its nextExtensionId)
  asked,     \* messages an extension holds: their ids and who asked
  hurried    \* history: users whose extension reconnected before its last socket, and
             \* the bridge of that socket, were done, or within 500 ms of a bridge
             \* that took longer than that to close

connVars == <<ws, step, relayPort, extensionConnections>>
msgVars == <<pending, cdpCommandId, msg>>
portVars == <<userRelayPorts, usedPorts>>
bridgeVars == <<relayBridges, bridge>>
vars == <<connVars, pendingCdpCommands, msgVars, portVars, bridgeVars, relayId,
          asked, hurried>>

Registered == {"relay", "pause", "ready", "dead"}
Live == {"connecting", "open"}

TypeOK ==
  /\ ws \in [Sock -> {"fresh", "open", "closing", "closed"}]
  /\ step \in [Sock -> {"none", "auth", "refused"} \cup Registered]
  /\ relayPort \in [Sock -> Port \cup {None}]
  /\ extensionConnections \in [User -> Sock \cup {None}]
  /\ pendingCdpCommands \in [User -> Sock \cup {None}]
  /\ pending \subseteq [map: Sock, id: Nat, msg: Msg]
  /\ cdpCommandId \in Nat
  /\ msg \in [Msg -> {"unsent", "pending", "answered", "misled", "timedOut"}]
  /\ userRelayPorts \in [User -> Port \cup {None}]
  /\ usedPorts \subseteq Port
  /\ relayBridges \in [User -> Sock \cup {None}]
  /\ bridge \in [Sock -> Live \cup {"none", "closing", "closed"}]
  /\ relayId \in [Port -> Nat \ {0}]
  /\ asked \in [Sock -> SUBSET [id: Nat, from: Msg \cup {Relay}]]
  /\ hurried \subseteq User

Init ==
  /\ ws = [s \in Sock |-> "fresh"]
  /\ step = [s \in Sock |-> "none"]
  /\ relayPort = [s \in Sock |-> None]
  /\ extensionConnections = [u \in User |-> None]
  /\ pendingCdpCommands = [u \in User |-> None]
  /\ pending = {}
  /\ cdpCommandId = 1
  /\ msg = [m \in Msg |-> "unsent"]
  /\ userRelayPorts = [u \in User |-> None]
  /\ usedPorts = {}
  /\ relayBridges = [u \in User |-> None]
  /\ bridge = [s \in Sock |-> "none"]
  /\ relayId = [p \in Port |-> 1]
  /\ asked = [s \in Sock |-> {}]
  /\ hurried = {}
---------------------------------------------------------------------------
(* Relay ports                                                             *)

FreePorts == Port \ usedPorts

(* The order of the search does not matter here, only that it finds one.   *)
FirstFree == CHOOSE p \in FreePorts : TRUE

(* getRelayPortForUser: the user's port, or the first free one; it throws  *)
(* when there is none.                                                     *)
HasPort(u) == userRelayPorts[u] # None \/ FreePorts # {}
PortFor(u) == IF userRelayPorts[u] # None THEN userRelayPorts[u] ELSE FirstFree

TakePort(u) ==
  /\ userRelayPorts' = [userRelayPorts EXCEPT ![u] = PortFor(u)]
  /\ usedPorts' = usedPorts \cup {PortFor(u)}

(* Mutant of FreeRelayPort: the port stays taken.                          *)
KeepRelayPort(u) ==
  /\ userRelayPorts' = [userRelayPorts EXCEPT ![u] = None]
  /\ UNCHANGED usedPorts

FreeRelayPort(u) ==
  /\ userRelayPorts' = [userRelayPorts EXCEPT ![u] = None]
  /\ usedPorts' = usedPorts \ {userRelayPorts[u]}

(* The agent asks for the port of its user, connected or not.              *)
AgentAsksPort(u) ==
  /\ HasPort(u) /\ TakePort(u)
  /\ UNCHANGED <<connVars, pendingCdpCommands, msgVars, bridgeVars, relayId, asked, hurried>>
---------------------------------------------------------------------------
(* The connection handler                                                  *)

SocketsOf(u) == {s \in Sock : UserOf[s] = u}

(* A socket whose handler is over, it and its bridge not left closing.     *)
Done(s) ==
  \/ step[s] = "none"
  \/ ws[s] = "closed" /\ step[s] \in {"ready", "refused", "dead"} /\ bridge[s] # "closing"

HurriedIf(early, u) == hurried' = IF early THEN hurried \cup {u} ELSE hurried

Connect(s) ==
  /\ ws[s] = "fresh"
  /\ ws' = [ws EXCEPT ![s] = "open"]
  /\ step' = [step EXCEPT ![s] = "auth"]
  /\ HurriedIf(\E o \in SocketsOf(UserOf[s]) : ~Done(o), UserOf[s])
  /\ UNCHANGED <<relayPort, extensionConnections, pendingCdpCommands, msgVars, portVars,
                 bridgeVars, relayId, asked>>

KeyRejected(s) ==
  /\ step[s] = "auth"
  /\ step' = [step EXCEPT ![s] = "refused"]
  /\ ws' = [ws EXCEPT ![s] = IF @ = "open" THEN "closing" ELSE @]
  /\ UNCHANGED <<relayPort, extensionConnections, pendingCdpCommands, msgVars, portVars,
                 bridgeVars, relayId, asked, hurried>>

(* Mutant of Replaced: the socket before is left open.                     *)
LeftOpen(s) == ws

(* An open socket of the same user is told to close.                       *)
Replaced(s) ==
  [o \in Sock |-> IF o = extensionConnections[UserOf[s]] /\ ws[o] = "open"
                  THEN "closing" ELSE ws[o]]

(* The key is good: the socket is registered with a new map, and the port  *)
(* read.  Without a port the handler dies here.                            *)
KeyAccepted(s) ==
  LET u == UserOf[s] IN
  /\ step[s] = "auth"
  /\ ws' = Replaced(s)
  /\ extensionConnections' = [extensionConnections EXCEPT ![u] = s]
  /\ pendingCdpCommands' = [pendingCdpCommands EXCEPT ![u] = s]
  /\ IF HasPort(u)
     THEN /\ TakePort(u)
          /\ relayPort' = [relayPort EXCEPT ![s] = PortFor(u)]
          /\ step' = [step EXCEPT ![s] = "relay"]
     ELSE /\ step' = [step EXCEPT ![s] = "dead"]
          /\ UNCHANGED <<portVars, relayPort>>
  /\ UNCHANGED <<msgVars, bridgeVars, relayId, asked, hurried>>

Closing(b) == IF bridge[b] \in Live THEN "closing" ELSE bridge[b]

(* A new bridge; from here on the handlers of both sockets are in place.   *)
MakeBridge(s) ==
  /\ bridge' = [bridge EXCEPT ![s] = "connecting"]
  /\ relayBridges' = [relayBridges EXCEPT ![UserOf[s]] = s]
  /\ step' = [step EXCEPT ![s] = "ready"]

(* Mutant of OldBridge: nobody looks for the bridge before.                *)
NoOldBridge(u) == None

OldBridge(u) == relayBridges[u]

(* The relay is up: the old bridge is closed first, and given 500 ms.      *)
RelayReady(s) ==
  LET old == OldBridge(UserOf[s]) IN
  /\ step[s] = "relay"
  /\ IF old = None
     THEN MakeBridge(s)
     ELSE /\ bridge' = [bridge EXCEPT ![old] = Closing(old)]
          /\ relayBridges' = [relayBridges EXCEPT ![UserOf[s]] = None]
          /\ step' = [step EXCEPT ![s] = "pause"]
  /\ UNCHANGED <<ws, relayPort, extensionConnections, pendingCdpCommands, msgVars, portVars,
                 relayId, asked, hurried>>

PauseOver(s) ==
  /\ step[s] = "pause"
  /\ MakeBridge(s)
  /\ HurriedIf(\E b \in SocketsOf(UserOf[s]) : bridge[b] = "closing", UserOf[s])
  /\ UNCHANGED <<ws, relayPort, extensionConnections, pendingCdpCommands, msgVars, portVars,
                 relayId, asked>>

(* The extension goes away.                                                *)
ExtensionLeaves(s) ==
  /\ ws[s] = "open"
  /\ ws' = [ws EXCEPT ![s] = "closing"]
  /\ UNCHANGED <<step, relayPort, extensionConnections, pendingCdpCommands, msgVars, portVars,
                 bridgeVars, relayId, asked, hurried>>

(* Mutant of StillCurrent: any socket that closes signs the user off.      *)
AlwaysCurrent(s) == TRUE

StillCurrent(s) == extensionConnections[UserOf[s]] = s

(* ws.on("close").  It is heard only by a handler that got that far.       *)
CloseHandler(s) ==
  LET u == UserOf[s]
      b == relayBridges[u]
  IN
  /\ IF StillCurrent(s)
     THEN /\ extensionConnections' = [extensionConnections EXCEPT ![u] = None]
          /\ pendingCdpCommands' = [pendingCdpCommands EXCEPT ![u] = None]
     ELSE UNCHANGED <<extensionConnections, pendingCdpCommands>>
  /\ IF b # None THEN bridge' = [bridge EXCEPT ![b] = Closing(b)] ELSE UNCHANGED bridge
  /\ relayBridges' = [relayBridges EXCEPT ![u] = None]
  /\ FreeRelayPort(u)

ExtensionClosed(s) ==
  /\ ws[s] = "closing"
  /\ ws' = [ws EXCEPT ![s] = "closed"]
  /\ asked' = [asked EXCEPT ![s] = {}]
  /\ IF step[s] = "ready" THEN CloseHandler(s)
     ELSE UNCHANGED <<extensionConnections, pendingCdpCommands, bridgeVars, portVars>>
  /\ UNCHANGED <<step, relayPort, msgVars, relayId, hurried>>
---------------------------------------------------------------------------
(* The bridges.  The relay of a port takes one live socket at a time: see  *)
(* RelaySockets, which ExtensionRelay and this module both implement.      *)

OnPort(p, states) == \E s \in Sock : bridge[s] \in states /\ relayPort[s] = p

Busy(p) == OnPort(p, {"open"})

BridgeOpens(s) ==
  /\ bridge[s] = "connecting" /\ ~Busy(relayPort[s])
  /\ bridge' = [bridge EXCEPT ![s] = "open"]
  /\ UNCHANGED <<connVars, pendingCdpCommands, msgVars, portVars, relayBridges,
                 relayId, asked, hurried>>

(* relayWs.on("close").  The bridge was told to close, or it could not be  *)
(* opened (409, 401, or no relay behind the port: that it was not started  *)
(* is only logged), or an open one broke off.                              *)
BridgeClosed(s) ==
  /\ bridge[s] \in Live \cup {"closing"}
  /\ bridge' = [bridge EXCEPT ![s] = "closed"]
  /\ relayBridges' = [relayBridges EXCEPT ![UserOf[s]] = None]
  /\ UNCHANGED <<connVars, pendingCdpCommands, msgVars, portVars, relayId, asked, hurried>>

(* A message of the relay is passed on if the extension is still there.    *)
(* What reaches a bridge that was told to close is left out.               *)
RelayAsks(s) ==
  LET p == relayPort[s] IN
  /\ bridge[s] = "open" /\ relayId[p] <= MaxRelayId
  /\ relayId' = [relayId EXCEPT ![p] = @ + 1]
  /\ asked' = IF ws[s] = "open"
              THEN [asked EXCEPT ![s] = @ \cup {[id |-> relayId[p], from |-> Relay]}]
              ELSE asked
  /\ UNCHANGED <<connVars, pendingCdpCommands, msgVars, portVars, bridgeVars, hurried>>

(* The relay takes a number for a request that finds no bridge, or one     *)
(* that was told to close (sendToExtension).                               *)
RelaySkips(p) ==
  /\ relayId[p] <= MaxRelayId
  /\ relayId' = [relayId EXCEPT ![p] = @ + 1]
  /\ UNCHANGED <<connVars, pendingCdpCommands, msgVars, portVars, bridgeVars, asked, hurried>>
---------------------------------------------------------------------------
(* Messages of the server itself                                           *)

(* sendCdpCommand and sendExtensionMessage                                 *)
Send(m, u) ==
  LET s == extensionConnections[u] IN
  /\ msg[m] = "unsent"
  /\ s # None /\ ws[s] = "open"
  /\ cdpCommandId' = cdpCommandId + 1
  /\ pending' = pending \cup
       {[map |-> pendingCdpCommands[u], id |-> cdpCommandId, msg |-> m]}
  /\ msg' = [msg EXCEPT ![m] = "pending"]
  /\ asked' = [asked EXCEPT ![s] = @ \cup {[id |-> cdpCommandId, from |-> m]}]
  /\ UNCHANGED <<connVars, pendingCdpCommands, portVars, bridgeVars, relayId, hurried>>

(* The map of the user, as the message handler finds it.                   *)
EntriesFor(u, id) == {e \in pending : e.map = pendingCdpCommands[u] /\ e.id = id}

(* An answer settles the entry of that id, if the user's map has one, and  *)
(* is forwarded to the relay otherwise.  Before the handlers are in place  *)
(* it is not heard; a socket that is closing is, and the map looked in is  *)
(* then that of the socket that replaced it.                               *)
Answer(s, q) ==
  LET found == EntriesFor(UserOf[s], q.id) IN
  /\ q \in asked[s] /\ ws[s] \in {"open", "closing"}
  /\ asked' = [asked EXCEPT ![s] = @ \ {q}]
  /\ IF step[s] = "ready"
     THEN /\ pending' = pending \ found
          /\ msg' = [m \in Msg |-> IF \E e \in found : e.msg = m
                                   THEN IF q.from = m THEN "answered" ELSE "misled"
                                   ELSE msg[m]]
     ELSE UNCHANGED <<pending, msg>>
  /\ UNCHANGED <<connVars, pendingCdpCommands, cdpCommandId, portVars,
                 bridgeVars, relayId, hurried>>

(* Mutant of Expired: the timer is cleared along with the connection.      *)
ExpiredIfMapped(m) ==
  {e \in pending : e.msg = m /\ \E u \in User : pendingCdpCommands[u] = e.map}

Expired(m) == {e \in pending : e.msg = m}

Timeout(m) ==
  /\ Expired(m) # {}
  /\ pending' = pending \ Expired(m)
  /\ msg' = [msg EXCEPT ![m] = "timedOut"]
  /\ UNCHANGED <<connVars, pendingCdpCommands, cdpCommandId, portVars,
                 bridgeVars, relayId, asked, hurried>>
---------------------------------------------------------------------------
SocketStep(s) ==
  \/ Connect(s) \/ KeyRejected(s) \/ KeyAccepted(s) \/ RelayReady(s) \/ PauseOver(s)
  \/ ExtensionLeaves(s) \/ ExtensionClosed(s)
  \/ BridgeOpens(s) \/ BridgeClosed(s) \/ RelayAsks(s)
  \/ \E q \in asked[s] : Answer(s, q)

Next ==
  \/ \E s \in Sock : SocketStep(s)
  \/ \E u \in User : AgentAsksPort(u)
  \/ \E p \in Port : RelaySkips(p)
  \/ \E m \in Msg, u \in User : Send(m, u)
  \/ \E m \in Msg : Timeout(m)

Spec == Init /\ [][Next]_vars

(* The timers of the pending entries fire.                                 *)
TimerRuns(m) == WF_vars(Timeout(m))

FairSpec == Spec /\ \A m \in Msg : TimerRuns(m)
---------------------------------------------------------------------------
(* What must hold of the bridge                                            *)

(* However connections, look-ups and closes interleave, the only open      *)
(* socket of a user that got past the look-up is the registered one.       *)
OnlyRegisteredOpen ==
  \A s \in Sock : step[s] \in Registered /\ ws[s] = "open"
                    => extensionConnections[UserOf[s]] = s

(* A user is signed off only when the registered socket itself has closed: *)
(* the late close of a replaced socket leaves the new one alone.           *)
NewerConnectionKept ==
  [][\A u \in User :
       extensionConnections[u] # None /\ extensionConnections'[u] = None
         => ws'[extensionConnections[u]] = "closed"]_vars

(* The two port tables agree, and no port has two users.                   *)
PortsAccounted ==
  /\ usedPorts = {userRelayPorts[u] : u \in User} \ {None}
  /\ \A u, v \in User : userRelayPorts[u] = userRelayPorts[v] /\ u # v
                          => userRelayPorts[u] = None

(* What a bridge carries is the port its user has now: the agents of       *)
(* another user never find it behind their own port, as long as the user   *)
(* does not reconnect in a hurry.                                          *)
BridgeOnOwnPort ==
  \A s \in Sock : bridge[s] \in Live /\ UserOf[s] \notin hurried
                    => userRelayPorts[UserOf[s]] = relayPort[s]

(* The old bridge of a user is closed before a new one is made ("Close     *)
(* existing relay bridge for this user if one exists"), again without      *)
(* hurry.                                                                  *)
OneBridgePerUser ==
  \A s, t \in Sock : /\ UserOf[s] = UserOf[t] /\ UserOf[s] \notin hurried
                      /\ bridge[s] \in Live /\ bridge[t] \in Live
                      => s = t

(* A message of the server is settled by the answer to it and no other     *)
(* ("Forward everything else to relay bridge once").                       *)
AnswersGoHome == \A m \in Msg : msg[m] # "misled"

(* Every message is settled, though the map it was entered in may have     *)
(* been replaced or deleted.                                               *)
MessagesSettle == \A m \in Msg : msg[m] = "pending" ~> msg[m] # "pending"

(* What the bridges make of the relays: on every port they behave as       *)
(* sockets of one relay may.                                               *)
RelayLife(s, p) ==
  IF relayPort[s] # p \/ bridge[s] \in {"none", "connecting"} THEN "fresh"
  ELSE IF bridge[s] = "open" THEN "open" ELSE "over"

RelayQuestions(s, p) == IF relayPort[s] = p THEN {q \in asked[s] : q.from = Relay} ELSE {}

RelaySide(p) == INSTANCE RelaySockets WITH
  life <- [s \in Sock |-> RelayLife(s, p)],
  held <- [s \in Sock |-> {q.id : q \in RelayQuestions(s, p)}],
  last <- relayId[p] - 1

RelaysKept == \A p \in Port : RelaySide(p)!Spec
===========================================================================
