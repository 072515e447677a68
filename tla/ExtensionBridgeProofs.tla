----------------------- MODULE ExtensionBridgeProofs -----------------------
(* Theorems about ExtensionBridge, for every number of users, sockets and  *)
(* ports, whatever the pauses and the reconnects do.                       *)
EXTENDS ExtensionBridge, TLAPS

USE BridgeAssumption

(* A port handed out is the user's own or a free one.                      *)
LEMMA PortHandedOut ==
  ASSUME NEW u \in User, HasPort(u)
  PROVE  PortFor(u) = userRelayPorts[u] \/ PortFor(u) \in Port \ usedPorts
  BY DEF HasPort, PortFor, FirstFree, FreePorts

LEMMA CountedUp ==
  ASSUME NEW f \in [Port -> Nat \ {0}], NEW p \in Port
  PROVE  [f EXCEPT ![p] = @ + 1] \in [Port -> Nat \ {0}]
<1>1. f[p] + 1 \in Nat \ {0}
  OBVIOUS
<1> QED
  BY <1>1, Zenon

(* A handler past the look-up has a port, and a bridge belongs to a        *)
(* handler that came to its end.                                           *)
HandlersHavePorts ==
  \A s \in Sock :
    /\ step[s] \in {"relay", "pause", "ready"} => relayPort[s] \in Port
    /\ bridge[s] # "none" => step[s] = "ready"
    /\ ws[s] = "fresh" => step[s] = "none"

LEMMA TypeSocketStep ==
  ASSUME TypeOK, HandlersHavePorts, NEW s \in Sock, SocketStep(s)
  PROVE  TypeOK'
<1>0. ASSUME NEW early, HurriedIf(early, UserOf[s])
      PROVE  hurried' \subseteq User
  BY <1>0, BridgeAssumption DEF TypeOK, HurriedIf
<1> USE DEF TypeOK, connVars, msgVars, portVars, bridgeVars, Live, Registered
<1>1. CASE Connect(s)
  <2>1. hurried' \subseteq User
    BY <1>0, <1>1 DEF Connect
  <2>2. /\ ws' \in [Sock -> {"fresh", "open", "closing", "closed"}]
        /\ step' \in [Sock -> {"none", "auth", "refused"} \cup Registered]
        /\ UNCHANGED <<relayPort, extensionConnections, pendingCdpCommands, msgVars, portVars,
                      bridgeVars, relayId, asked>>
    BY <1>1 DEF Connect
  <2> QED
    BY <2>1, <2>2
<1>2. CASE KeyRejected(s)
  BY <1>2 DEF KeyRejected
<1>3. CASE KeyAccepted(s)
  <2>1. Replaced(s) \in [Sock -> {"fresh", "open", "closing", "closed"}]
    BY DEF Replaced
  <2>2. HasPort(UserOf[s]) => PortFor(UserOf[s]) \in Port
    BY PortHandedOut DEF HasPort, PortFor, FirstFree, FreePorts
  <2>3. /\ userRelayPorts' \in [User -> Port \cup {None}]
        /\ usedPorts' \subseteq Port
        /\ relayPort' \in [Sock -> Port \cup {None}]
        /\ step' \in [Sock -> {"none", "auth", "refused"} \cup Registered]
    <3>1. CASE HasPort(UserOf[s])
      <4>1. /\ userRelayPorts' = [userRelayPorts EXCEPT ![UserOf[s]] = PortFor(UserOf[s])]
            /\ usedPorts' = usedPorts \cup {PortFor(UserOf[s])}
            /\ relayPort' = [relayPort EXCEPT ![s] = PortFor(UserOf[s])]
            /\ step' = [step EXCEPT ![s] = "relay"]
        BY <1>3, <3>1 DEF KeyAccepted, TakePort
      <4> QED
        BY <2>2, <3>1, <4>1
    <3>2. CASE ~HasPort(UserOf[s])
      BY <1>3, <3>2 DEF KeyAccepted
    <3> QED
      BY <3>1, <3>2
  <2>4. /\ extensionConnections' \in [User -> Sock \cup {None}]
        /\ pendingCdpCommands' \in [User -> Sock \cup {None}]
        /\ ws' = Replaced(s)
        /\ UNCHANGED <<msgVars, bridgeVars, relayId, asked, hurried>>
    BY <1>3 DEF KeyAccepted
  <2> QED
    BY <2>1, <2>3, <2>4
<1>4. CASE RelayReady(s)
  BY <1>4 DEF RelayReady, MakeBridge, Closing, OldBridge
<1>5. CASE PauseOver(s)
  <2>1. hurried' \subseteq User
    BY <1>0, <1>5 DEF PauseOver
  <2>2. /\ bridge' \in [Sock -> Live \cup {"none", "closing", "closed"}]
        /\ relayBridges' \in [User -> Sock \cup {None}]
        /\ step' \in [Sock -> {"none", "auth", "refused"} \cup Registered]
        /\ UNCHANGED <<ws, relayPort, extensionConnections, pendingCdpCommands, msgVars,
                      portVars, relayId, asked>>
    BY <1>5 DEF PauseOver, MakeBridge
  <2> QED
    BY <2>1, <2>2
<1>6. CASE ExtensionLeaves(s)
  BY <1>6 DEF ExtensionLeaves
<1>7. CASE ExtensionClosed(s)
  <2>1. CASE step[s] = "ready"
    <3>1. /\ extensionConnections' \in [User -> Sock \cup {None}]
          /\ pendingCdpCommands' \in [User -> Sock \cup {None}]
      BY <1>7, <2>1 DEF ExtensionClosed, CloseHandler
    <3>2. /\ relayBridges' \in [User -> Sock \cup {None}]
          /\ bridge' \in [Sock -> Live \cup {"none", "closing", "closed"}]
      BY <1>7, <2>1 DEF ExtensionClosed, CloseHandler, Closing
    <3>3. /\ userRelayPorts' \in [User -> Port \cup {None}]
          /\ usedPorts' \subseteq Port
      BY <1>7, <2>1 DEF ExtensionClosed, CloseHandler, FreeRelayPort
    <3>4. /\ ws' \in [Sock -> {"fresh", "open", "closing", "closed"}]
          /\ asked' \in [Sock -> SUBSET [id : Nat, from : Msg \cup {Relay}]]
          /\ UNCHANGED <<step, relayPort, msgVars, relayId, hurried>>
      BY <1>7 DEF ExtensionClosed
    <3> QED
      BY <3>1, <3>2, <3>3, <3>4
  <2>2. CASE step[s] # "ready"
    BY <1>7, <2>2 DEF ExtensionClosed
  <2> QED
    BY <2>1, <2>2
<1>8. CASE BridgeOpens(s)
  BY <1>8 DEF BridgeOpens
<1>12. CASE BridgeClosed(s)
  <2>1. /\ bridge' \in [Sock -> Live \cup {"none", "closing", "closed"}]
        /\ relayBridges' \in [User -> Sock \cup {None}]
    BY <1>12 DEF BridgeClosed
  <2> QED
    BY <1>12, <2>1 DEF BridgeClosed
<1>9. CASE RelayAsks(s)
  <2>1. relayPort[s] \in Port
    BY <1>9 DEF RelayAsks, HandlersHavePorts
  <2>2. [id |-> relayId[relayPort[s]], from |-> Relay] \in [id : Nat, from : Msg \cup {Relay}]
    BY <2>1
  <2>3. asked' \in [Sock -> SUBSET [id : Nat, from : Msg \cup {Relay}]]
    BY <1>9, <2>2 DEF RelayAsks
  <2>4. relayId' \in [Port -> Nat \ {0}]
    BY <1>9, <2>1, CountedUp DEF RelayAsks
  <2> QED
    BY <1>9, <2>3, <2>4 DEF RelayAsks
<1>10. CASE \E q \in asked[s] : Answer(s, q)
  BY <1>10 DEF Answer, EntriesFor
<1> QED
  BY <1>1, <1>2, <1>3, <1>4, <1>5, <1>6, <1>7, <1>8, <1>9, <1>10, <1>12 DEF SocketStep

LEMMA TypeOtherStep ==
  ASSUME TypeOK, pendingCdpCommands = extensionConnections,
         \/ \E u \in User : AgentAsksPort(u)
         \/ \E p \in Port : RelaySkips(p)
         \/ \E m \in Msg, u \in User : Send(m, u)
         \/ \E m \in Msg : Timeout(m)
  PROVE  TypeOK'
<1> USE DEF TypeOK, connVars, msgVars, portVars, bridgeVars, Live, Registered
<1>1. ASSUME NEW u \in User, AgentAsksPort(u)
      PROVE  TypeOK'
  <2>1. PortFor(u) \in Port
    BY <1>1, PortHandedOut DEF AgentAsksPort, HasPort, PortFor, FirstFree, FreePorts
  <2> QED
    BY <1>1, <2>1 DEF AgentAsksPort, TakePort
<1>2. ASSUME NEW m \in Msg, NEW u \in User, Send(m, u)
      PROVE  TypeOK'
  <2>1. extensionConnections[u] \in Sock
    BY <1>2 DEF Send
  <2>2. [map |-> pendingCdpCommands[u], id |-> cdpCommandId, msg |-> m]
          \in [map : Sock, id : Nat, msg : Msg]
    BY <2>1
  <2>3. [id |-> cdpCommandId, from |-> m] \in [id : Nat, from : Msg \cup {Relay}]
    OBVIOUS
  <2>4. asked' \in [Sock -> SUBSET [id : Nat, from : Msg \cup {Relay}]]
    BY <1>2, <2>1, <2>3 DEF Send
  <2>5. pending' \subseteq [map : Sock, id : Nat, msg : Msg]
    BY <1>2, <2>2 DEF Send
  <2>6. cdpCommandId' \in Nat
    BY <1>2 DEF Send
  <2> QED
    BY <1>2, <2>4, <2>5, <2>6 DEF Send
<1>3. ASSUME NEW m \in Msg, Timeout(m)
      PROVE  TypeOK'
  BY <1>3 DEF Timeout, Expired
<1>4. ASSUME NEW p \in Port, RelaySkips(p)
      PROVE  TypeOK'
  <2>1. relayId' \in [Port -> Nat \ {0}]
    BY <1>4, CountedUp DEF RelaySkips
  <2> QED
    BY <1>4, <2>1 DEF RelaySkips
<1> QED
  BY <1>1, <1>2, <1>3, <1>4

(***************************************************************************)
(* The inductive invariant: the types, the two tables of the connection    *)
(* handler are written together, and a handler and its bridge stand in     *)
(* order.                                                                  *)
(***************************************************************************)
BridgeInv ==
  /\ TypeOK
  /\ HandlersHavePorts
  /\ pendingCdpCommands = extensionConnections

LEMMA BridgeInvInit == Init => BridgeInv
  BY DEF Init, BridgeInv, TypeOK, HandlersHavePorts, Live, Registered

LEMMA BridgeInvStep ==
  ASSUME BridgeInv, [Next]_vars
  PROVE  BridgeInv'
<1> USE DEF BridgeInv
<1>1. TypeOK'
  <2>1. CASE UNCHANGED vars
    BY <2>1 DEF TypeOK, vars, connVars, msgVars, portVars, bridgeVars
  <2> QED
    BY <2>1, TypeSocketStep, TypeOtherStep DEF Next
<1>2. ASSUME NEW s \in Sock, SocketStep(s)
      PROVE  /\ HandlersHavePorts'
             /\ pendingCdpCommands' = extensionConnections'
  <2> USE DEF TypeOK, HandlersHavePorts, connVars, msgVars, portVars, bridgeVars
  <2>1. CASE Connect(s)
    <3>1. /\ step[s] = "none" /\ bridge[s] = "none"
          /\ ws' = [ws EXCEPT ![s] = "open"] /\ step' = [step EXCEPT ![s] = "auth"]
          /\ UNCHANGED <<relayPort, bridge, pendingCdpCommands, extensionConnections>>
      BY <2>1 DEF Connect
    <3> QED
      BY <3>1
  <2>12. CASE KeyRejected(s) \/ ExtensionLeaves(s)
    BY <2>12 DEF KeyRejected, ExtensionLeaves, Registered
  <2>2. CASE KeyAccepted(s)
    <3>1. HasPort(UserOf[s]) => PortFor(UserOf[s]) \in Port
      BY PortHandedOut DEF HasPort, PortFor, FirstFree, FreePorts
    <3>2. CASE HasPort(UserOf[s])
      <4>1. /\ relayPort' = [relayPort EXCEPT ![s] = PortFor(UserOf[s])]
            /\ step' = [step EXCEPT ![s] = "relay"]
            /\ pendingCdpCommands' = extensionConnections'
            /\ bridge' = bridge /\ step[s] = "auth" /\ ws' = Replaced(s)
        BY <2>2, <3>2 DEF KeyAccepted
      <4>2. relayPort'[s] \in Port /\ step'[s] = "relay" /\ bridge'[s] = "none"
        BY <3>1, <3>2, <4>1
      <4>3. \A t \in Sock \ {s} :
              relayPort'[t] = relayPort[t] /\ step'[t] = step[t] /\ bridge'[t] = bridge[t]
        BY <4>1
      <4> QED
        BY <4>1, <4>2, <4>3 DEF Replaced
    <3>3. CASE ~HasPort(UserOf[s])
      BY <2>2, <3>3 DEF KeyAccepted, Replaced
    <3> QED
      BY <3>2, <3>3
  <2>3. CASE RelayReady(s)
    BY <2>3 DEF RelayReady, MakeBridge, Closing, Live
  <2>4. CASE PauseOver(s)
    BY <2>4 DEF PauseOver, MakeBridge
  <2>5. CASE ExtensionClosed(s)
    BY <2>5 DEF ExtensionClosed, CloseHandler, Closing, Live
  <2>6. CASE BridgeOpens(s) \/ BridgeClosed(s) \/ RelayAsks(s)
    <3>1. /\ \A t \in Sock \ {s} : bridge'[t] = bridge[t]
          /\ bridge[s] # "none"
          /\ UNCHANGED <<connVars, pendingCdpCommands>>
      BY <2>6 DEF BridgeOpens, BridgeClosed, RelayAsks, Live
    <3> QED
      BY <3>1
  <2>7. CASE \E q \in asked[s] : Answer(s, q)
    BY <2>7 DEF Answer
  <2> QED
    BY <1>2, <2>1, <2>12, <2>2, <2>3, <2>4, <2>5, <2>6, <2>7 DEF SocketStep
<1>3. ASSUME UNCHANGED <<connVars, pendingCdpCommands, bridgeVars>>
      PROVE  /\ HandlersHavePorts'
             /\ pendingCdpCommands' = extensionConnections'
  BY <1>3 DEF HandlersHavePorts, connVars, bridgeVars
<1>4. CASE \E u \in User : AgentAsksPort(u)
  BY <1>1, <1>3, <1>4 DEF AgentAsksPort
<1>5. CASE \E m \in Msg, u \in User : Send(m, u)
  BY <1>1, <1>3, <1>5 DEF Send
<1>6. CASE (\E m \in Msg : Timeout(m)) \/ \E p \in Port : RelaySkips(p)
  BY <1>1, <1>3, <1>6 DEF Timeout, RelaySkips
<1>7. CASE UNCHANGED vars
  BY <1>1, <1>3, <1>7 DEF vars
<1> QED
  BY <1>1, <1>2, <1>4, <1>5, <1>6, <1>7 DEF Next

(* Every variable stays of its type: in particular a bridge is only ever   *)
(* made by a handler that has read a port.                                 *)
THEOREM TypeCorrect == Spec => []TypeOK
<1>1. BridgeInv => TypeOK
  BY DEF BridgeInv
<1> QED
  BY <1>1, BridgeInvInit, BridgeInvStep, PTL DEF Spec

(***************************************************************************)
(* The port tables.                                                        *)
(***************************************************************************)

LEMMA TakePortKeepsAccounts ==
  ASSUME TypeOK, PortsAccounted, NEW u \in User, HasPort(u), TakePort(u)
  PROVE  PortsAccounted'
<1> DEFINE p == PortFor(u)
<1>1. p = userRelayPorts[u] \/ p \in Port \ usedPorts
  BY PortHandedOut
<1>2. p # None
  BY <1>1 DEF HasPort, PortFor, FirstFree, FreePorts
<1>3. \A v \in User : userRelayPorts'[v] = IF v = u THEN p ELSE userRelayPorts[v]
  BY DEF TypeOK, TakePort
<1>4. usedPorts' = usedPorts \cup {p}
  BY DEF TakePort
<1>5. \A v \in User : v # u /\ userRelayPorts[v] = p => FALSE
  BY <1>1, <1>2 DEF PortsAccounted
<1> HIDE DEF p
<1>6. \A v, w \in User : userRelayPorts'[v] = userRelayPorts'[w] /\ v # w
                            => userRelayPorts'[v] = None
  BY <1>3, <1>5 DEF PortsAccounted
<1>7. usedPorts' = {userRelayPorts'[v] : v \in User} \ {None}
  <2>1. ASSUME NEW x \in usedPorts'
        PROVE  x \in {userRelayPorts'[v] : v \in User} \ {None}
    <3>1. CASE x = p
      BY <1>2, <1>3, <3>1
    <3>2. CASE x # p
      <4>1. PICK v \in User : x = userRelayPorts[v] /\ x # None
        BY <1>4, <2>1, <3>2 DEF PortsAccounted
      <4>2. v # u
        BY <1>1, <1>4, <3>2, <4>1 DEF HasPort, p, PortFor
      <4> QED
        BY <1>3, <4>1, <4>2
    <3> QED
      BY <3>1, <3>2
  <2>2. ASSUME NEW v \in User, userRelayPorts'[v] # None
        PROVE  userRelayPorts'[v] \in usedPorts'
    BY <1>3, <1>4, <2>2 DEF PortsAccounted
  <2> QED
    BY <2>1, <2>2
<1> QED
  BY <1>6, <1>7 DEF PortsAccounted

LEMMA FreePortKeepsAccounts ==
  ASSUME TypeOK, PortsAccounted, NEW u \in User, FreeRelayPort(u)
  PROVE  PortsAccounted'
<1>1. \A v \in User : userRelayPorts'[v] = IF v = u THEN None ELSE userRelayPorts[v]
  BY DEF TypeOK, FreeRelayPort
<1>2. usedPorts' = usedPorts \ {userRelayPorts[u]}
  BY DEF FreeRelayPort
<1> QED
  BY <1>1, <1>2 DEF PortsAccounted

LEMMA AccountsStep ==
  ASSUME TypeOK, PortsAccounted, [Next]_vars
  PROVE  PortsAccounted'
<1>1. ASSUME UNCHANGED portVars
      PROVE  PortsAccounted'
  BY <1>1 DEF PortsAccounted, portVars
<1>2. ASSUME NEW s \in Sock, SocketStep(s)
      PROVE  PortsAccounted'
  <2>1. CASE KeyAccepted(s)
    <3>1. CASE HasPort(UserOf[s])
      BY <2>1, <3>1, TakePortKeepsAccounts DEF KeyAccepted
    <3>2. CASE ~HasPort(UserOf[s])
      BY <1>1, <2>1, <3>2 DEF KeyAccepted
    <3> QED
      BY <3>1, <3>2
  <2>2. CASE ExtensionClosed(s)
    <3>1. CASE step[s] = "ready"
      BY <2>2, <3>1, FreePortKeepsAccounts DEF ExtensionClosed, CloseHandler
    <3>2. CASE step[s] # "ready"
      BY <1>1, <2>2, <3>2 DEF ExtensionClosed
    <3> QED
      BY <3>1, <3>2
  <2>3. CASE ~KeyAccepted(s) /\ ~ExtensionClosed(s)
    BY <1>1, <1>2, <2>3 DEF SocketStep, Connect, KeyRejected, RelayReady, PauseOver,
         ExtensionLeaves, BridgeOpens, BridgeClosed, RelayAsks, Answer
  <2> QED
    BY <2>1, <2>2, <2>3
<1>3. ASSUME NEW u \in User, AgentAsksPort(u)
      PROVE  PortsAccounted'
  BY <1>3, TakePortKeepsAccounts DEF AgentAsksPort
<1>4. CASE \/ \E m \in Msg, u \in User : Send(m, u)
           \/ \E m \in Msg : Timeout(m)
           \/ \E p \in Port : RelaySkips(p)
  BY <1>1, <1>4 DEF Send, Timeout, RelaySkips
<1>5. CASE UNCHANGED vars
  BY <1>1, <1>5 DEF vars
<1> QED
  BY <1>2, <1>3, <1>4, <1>5 DEF Next

(* However connections, closes and the agents' port requests interleave,   *)
(* usedPorts is exactly what the users hold and no port has two users      *)
(* (getRelayPortForUser, freeRelayPort).                                   *)
THEOREM PortsStayAccounted == Spec => []PortsAccounted
<1>1. Init => PortsAccounted
  BY DEF Init, PortsAccounted
<1>2. BridgeInv => TypeOK
  BY DEF BridgeInv
<1> QED
  BY <1>1, <1>2, BridgeInvInit, BridgeInvStep, AccountsStep, PTL DEF Spec

(***************************************************************************)
(* The registered socket.                                                  *)
(***************************************************************************)

LEMMA OnlyRegisteredStep ==
  ASSUME BridgeInv, OnlyRegisteredOpen, [Next]_vars
  PROVE  OnlyRegisteredOpen'
<1> USE DEF BridgeInv, TypeOK, HandlersHavePorts, OnlyRegisteredOpen, Registered
<1>1. ASSUME UNCHANGED connVars
      PROVE  OnlyRegisteredOpen'
  BY <1>1 DEF connVars
<1>2. ASSUME NEW s \in Sock, SocketStep(s)
      PROVE  OnlyRegisteredOpen'
  <2>1. CASE Connect(s)
    <3>1. /\ ws' = [ws EXCEPT ![s] = "open"] /\ step' = [step EXCEPT ![s] = "auth"]
          /\ UNCHANGED extensionConnections
      BY <2>1 DEF Connect
    <3> QED
      BY <3>1
  <2>12. CASE KeyRejected(s) \/ ExtensionLeaves(s)
    BY <2>12 DEF KeyRejected, ExtensionLeaves
  <2>2. CASE KeyAccepted(s)
    <3>1. /\ \A t \in Sock \ {s} : step'[t] = step[t]
          /\ ws' = Replaced(s)
          /\ extensionConnections' = [extensionConnections EXCEPT ![UserOf[s]] = s]
      BY <2>2 DEF KeyAccepted
    <3> QED
      BY <3>1 DEF Replaced
  <2>3. CASE RelayReady(s)
    BY <2>3 DEF RelayReady, MakeBridge
  <2>4. CASE PauseOver(s)
    BY <2>4 DEF PauseOver, MakeBridge
  <2>5. CASE ExtensionClosed(s)
    BY <2>5 DEF ExtensionClosed, CloseHandler, StillCurrent
  <2>6. CASE BridgeOpens(s) \/ BridgeClosed(s) \/ RelayAsks(s) \/ \E q \in asked[s] : Answer(s, q)
    BY <1>1, <2>6 DEF BridgeOpens, BridgeClosed, RelayAsks, Answer
  <2> QED
    BY <1>2, <2>1, <2>12, <2>2, <2>3, <2>4, <2>5, <2>6 DEF SocketStep
<1>3. CASE \/ \E u \in User : AgentAsksPort(u)
           \/ \E m \in Msg, u \in User : Send(m, u)
           \/ \E m \in Msg : Timeout(m)
           \/ \E p \in Port : RelaySkips(p)
  BY <1>1, <1>3 DEF AgentAsksPort, Send, Timeout, RelaySkips
<1>4. CASE UNCHANGED vars
  BY <1>1, <1>4 DEF vars
<1> QED
  BY <1>2, <1>3, <1>4 DEF Next

(* Whatever a connection handler awaits, an open socket of a user that got *)
(* past the look-up is the one commands are sent to.                       *)
THEOREM OneRegisteredSocket == Spec => []OnlyRegisteredOpen
<1>1. Init => OnlyRegisteredOpen
  BY DEF Init, OnlyRegisteredOpen, Registered
<1> QED
  BY <1>1, BridgeInvInit, BridgeInvStep, OnlyRegisteredStep, PTL DEF Spec

(* A user is signed off by the close of the registered socket only, never  *)
(* by the late close of a socket it replaced.                              *)
THEOREM LateCloseKeepsConnection == Spec => NewerConnectionKept
<1> DEFINE SignOff ==
      \A u \in User :
        extensionConnections[u] # None /\ extensionConnections'[u] = None
          => ws'[extensionConnections[u]] = "closed"
<1>1. ASSUME BridgeInv, [Next]_vars
      PROVE  SignOff
  <2> USE DEF BridgeInv, TypeOK
  <2>1. CASE UNCHANGED extensionConnections
    BY <2>1
  <2>2. ASSUME NEW s \in Sock, KeyAccepted(s)
        PROVE  SignOff
    BY <1>1, <2>2 DEF KeyAccepted
  <2>3. ASSUME NEW s \in Sock, ExtensionClosed(s)
        PROVE  SignOff
    <3>1. \A u \in User : extensionConnections'[u] # extensionConnections[u]
                            => extensionConnections[u] = s
      BY <1>1, <2>3 DEF ExtensionClosed, CloseHandler, StillCurrent
    <3>2. ws'[s] = "closed"
      BY <1>1, <2>3 DEF ExtensionClosed
    <3> QED
      BY <3>1, <3>2
  <2> QED
    BY <1>1, <2>1, <2>2, <2>3 DEF Next, SocketStep, Connect, KeyRejected, RelayReady, PauseOver,
         ExtensionLeaves, BridgeOpens, BridgeClosed, RelayAsks, RelaySkips, Answer, AgentAsksPort,
         Send, Timeout, vars, connVars
<1> QED
  BY <1>1, BridgeInvInit, BridgeInvStep, PTL DEF Spec, NewerConnectionKept

(***************************************************************************)
(* Bridges of users who do not reconnect in a hurry.  Such a user has one  *)
(* handler under way at a time; while it has made no bridge of its own,    *)
(* its port stays the user's; and a live bridge is the one in              *)
(* relayBridges, on the user's port, with none closing beside it.          *)
(***************************************************************************)

Over(s) ==
  \/ step[s] = "none"
  \/ ws[s] = "closed" /\ step[s] \in {"ready", "refused", "dead"}

OneUnderWay ==
  \A s, t \in Sock : /\ UserOf[s] = UserOf[t] /\ UserOf[s] \notin hurried
                     /\ ~Over(s) /\ ~Over(t)
                     => s = t

WayCleared ==
  \A s, t \in Sock : /\ UserOf[s] = UserOf[t] /\ UserOf[s] \notin hurried
                     => /\ step[s] \in {"auth", "relay"} => bridge[t] # "closing"
                        /\ step[s] = "pause" => bridge[t] \notin Live
                        /\ bridge[s] \in Live => bridge[t] # "closing"

PortHeld ==
  \A s \in Sock : /\ UserOf[s] \notin hurried
                  /\ step[s] \in {"relay", "pause"} \/ bridge[s] \in Live
                  => userRelayPorts[UserOf[s]] = relayPort[s]

BridgeListed ==
  \A s \in Sock : UserOf[s] \notin hurried /\ bridge[s] \in Live
                    => relayBridges[UserOf[s]] = s

ListedOwn ==
  \A u \in User : relayBridges[u] # None
                    => UserOf[relayBridges[u]] = u /\ step[relayBridges[u]] = "ready"

CalmInv == OneUnderWay /\ WayCleared /\ PortHeld /\ BridgeListed /\ ListedOwn

LEMMA CalmImplies == CalmInv => BridgeOnOwnPort /\ OneBridgePerUser
  BY DEF CalmInv, PortHeld, BridgeListed, BridgeOnOwnPort, OneBridgePerUser

LEMMA CalmInit == Init => CalmInv
<1> SUFFICES ASSUME Init PROVE CalmInv
  OBVIOUS
<1>1. \A s \in Sock : step[s] = "none" /\ bridge[s] = "none"
  BY DEF Init
<1>2. \A u \in User : relayBridges[u] = None
  BY DEF Init
<1>3. OneUnderWay
  BY <1>1 DEF OneUnderWay, Over
<1>4. WayCleared /\ PortHeld /\ BridgeListed
  BY <1>1 DEF WayCleared, PortHeld, BridgeListed, Live
<1>5. ListedOwn
  BY <1>2 DEF ListedOwn
<1> QED
  BY <1>3, <1>4, <1>5 DEF CalmInv

(* Steps that leave the handlers, the bridges and the ports alone.         *)
LEMMA CalmQuiet ==
  ASSUME CalmInv, UNCHANGED <<ws, step, relayPort, bridgeVars, portVars, hurried>>
  PROVE  CalmInv'
  BY DEF CalmInv, OneUnderWay, WayCleared, PortHeld, BridgeListed, ListedOwn, Over, bridgeVars,
         portVars

LEMMA CalmConnect ==
  ASSUME BridgeInv, CalmInv, NEW s \in Sock, Connect(s)
  PROVE  CalmInv'
<1> DEFINE u == UserOf[s]
<1>1. /\ step[s] = "none" /\ bridge[s] = "none"
      /\ \A t \in Sock \ {s} : step'[t] = step[t] /\ ws'[t] = ws[t]
      /\ step'[s] = "auth"
      /\ UNCHANGED <<relayPort, portVars, bridgeVars>>
  BY DEF Connect, BridgeInv, TypeOK, HandlersHavePorts
<1>2. hurried \subseteq hurried'
  BY DEF Connect, HurriedIf
<1>3. u \notin hurried' => \A o \in Sock : UserOf[o] = u => Done(o)
  BY DEF Connect, HurriedIf, SocketsOf
<1> HIDE DEF u
<1>4. OneUnderWay'
  BY <1>1, <1>2, <1>3 DEF CalmInv, OneUnderWay, Over, Done, u
<1>5. WayCleared'
  <2> SUFFICES ASSUME NEW t \in Sock, NEW o \in Sock, UserOf[t] = UserOf[o],
                      UserOf[t] \notin hurried'
               PROVE  /\ step'[t] \in {"auth", "relay"} => bridge'[o] # "closing"
                      /\ step'[t] = "pause" => bridge'[o] \notin Live
                      /\ bridge'[t] \in Live => bridge'[o] # "closing"
    BY DEF WayCleared
  <2>1. CASE t = s
    <3>1. Done(o)
      BY <1>3, <2>1 DEF u
    <3>2. bridge[o] # "closing"
      BY <3>1 DEF Done, BridgeInv, HandlersHavePorts
    <3> QED
      BY <1>1, <2>1, <3>2 DEF bridgeVars, Live
  <2>2. CASE t # s
    BY <1>1, <1>2, <2>2 DEF CalmInv, WayCleared, bridgeVars
  <2> QED
    BY <2>1, <2>2
<1>6. PortHeld'
  BY <1>1, <1>2 DEF CalmInv, PortHeld, bridgeVars, portVars, Live
<1>7. BridgeListed' /\ ListedOwn'
  BY <1>1, <1>2 DEF CalmInv, BridgeListed, ListedOwn, bridgeVars, BridgeInv, TypeOK
<1> QED
  BY <1>4, <1>5, <1>6, <1>7 DEF CalmInv

LEMMA CalmKey ==
  ASSUME BridgeInv, CalmInv, PortsAccounted, NEW s \in Sock, KeyAccepted(s) \/ KeyRejected(s)
  PROVE  CalmInv'
<1>1. /\ step[s] = "auth" /\ step'[s] \in {"refused", "relay", "dead"}
      /\ \A t \in Sock \ {s} : step'[t] = step[t] /\ relayPort'[t] = relayPort[t]
      /\ UNCHANGED <<bridgeVars, hurried>>
  BY DEF KeyAccepted, KeyRejected, BridgeInv, TypeOK
<1>2. \A t \in Sock : ws[t] = "closed" => ws'[t] = "closed"
  BY DEF KeyAccepted, KeyRejected, Replaced, BridgeInv, TypeOK
<1>3. ~Over(s) /\ \A t \in Sock : Over(t) => Over(t)'
  BY <1>1, <1>2 DEF Over
<1>4. OneUnderWay' /\ WayCleared'
  <2>1. WayCleared'
    BY <1>1 DEF CalmInv, WayCleared, bridgeVars
  <2>2. OneUnderWay'
    BY <1>1, <1>3 DEF CalmInv, OneUnderWay
  <2> QED
    BY <2>1, <2>2
<1>5. BridgeListed' /\ ListedOwn'
  BY <1>1 DEF CalmInv, BridgeListed, ListedOwn, bridgeVars, BridgeInv, TypeOK
<1>6. bridge[s] = "none"
  BY <1>1 DEF BridgeInv, HandlersHavePorts
<1>7. \A t \in Sock : UserOf[t] # UserOf[s] \/ userRelayPorts[UserOf[t]] # None
                        => userRelayPorts'[UserOf[t]] = userRelayPorts[UserOf[t]]
  BY DEF KeyAccepted, KeyRejected, TakePort, PortFor, portVars, BridgeInv, TypeOK
<1>8. step'[s] = "relay" => relayPort'[s] = userRelayPorts'[UserOf[s]]
  BY DEF KeyAccepted, KeyRejected, TakePort, BridgeInv, TypeOK
<1>9. PortHeld'
  <2> SUFFICES ASSUME NEW t \in Sock, UserOf[t] \notin hurried',
                      step'[t] \in {"relay", "pause"} \/ bridge'[t] \in Live
               PROVE  userRelayPorts'[UserOf[t]] = relayPort'[t]
    BY DEF PortHeld
  <2>1. CASE t = s
    BY <1>1, <1>6, <1>8, <2>1 DEF bridgeVars, Live
  <2>2. CASE t # s
    <3>1. userRelayPorts[UserOf[t]] = relayPort[t] /\ relayPort[t] \in Port
      BY <1>1, <2>2 DEF CalmInv, PortHeld, bridgeVars, BridgeInv, HandlersHavePorts, Live
    <3> QED
      BY <1>1, <1>7, <2>2, <3>1
  <2> QED
    BY <2>1, <2>2
<1> QED
  BY <1>4, <1>5, <1>9 DEF CalmInv


(* The two ways to MakeBridge: no other bridge of the user is live then,   *)
(* or closing.                                                             *)
LEMMA CalmMake ==
  ASSUME BridgeInv, CalmInv, NEW s \in Sock, step[s] \in {"relay", "pause"}, MakeBridge(s),
         UNCHANGED <<ws, relayPort, portVars>>, hurried \subseteq hurried',
         UserOf[s] \notin hurried' =>
           \A t \in Sock : UserOf[t] = UserOf[s] => bridge[t] \notin Live \cup {"closing"}
  PROVE  CalmInv'
<1>1. /\ \A t \in Sock \ {s} : step'[t] = step[t] /\ bridge'[t] = bridge[t]
      /\ step'[s] = "ready" /\ bridge'[s] = "connecting"
      /\ relayBridges' = [relayBridges EXCEPT ![UserOf[s]] = s]
  BY DEF MakeBridge, BridgeInv, TypeOK
<1>2. /\ \A u \in User \ {UserOf[s]} : relayBridges'[u] = relayBridges[u]
      /\ relayBridges'[UserOf[s]] = s
  BY <1>1 DEF BridgeInv, TypeOK
<1>3. OneUnderWay'
  BY <1>1 DEF CalmInv, OneUnderWay, Over
<1>4. WayCleared'
  <2> SUFFICES ASSUME NEW t \in Sock, NEW o \in Sock, UserOf[t] = UserOf[o],
                      UserOf[t] \notin hurried'
               PROVE  /\ step'[t] \in {"auth", "relay"} => bridge'[o] # "closing"
                      /\ step'[t] = "pause" => bridge'[o] \notin Live
                      /\ bridge'[t] \in Live => bridge'[o] # "closing"
    BY DEF WayCleared
  <2>1. CASE UserOf[t] # UserOf[s]
    BY <1>1, <2>1 DEF CalmInv, WayCleared
  <2>2. CASE UserOf[t] = UserOf[s]
    <3>1. bridge'[o] # "closing"
      BY <1>1, <2>2
    <3>2. ASSUME step'[t] = "pause"
          PROVE  FALSE
      <4>1. t # s /\ step[t] = "pause"
        BY <1>1, <3>2
      <4> QED
        BY <2>2, <4>1 DEF CalmInv, OneUnderWay, Over
    <3> QED
      BY <3>1, <3>2
  <2> QED
    BY <2>1, <2>2
<1>5. PortHeld'
  <2>1. UserOf[s] \notin hurried => userRelayPorts[UserOf[s]] = relayPort[s]
    BY DEF CalmInv, PortHeld
  <2> QED
    BY <1>1, <2>1 DEF CalmInv, PortHeld, portVars
<1>6. BridgeListed' /\ ListedOwn'
  <2>1. BridgeListed'
    BY <1>1, <1>2 DEF CalmInv, BridgeListed, Live
  <2>2. ListedOwn'
    BY <1>1, <1>2 DEF CalmInv, ListedOwn, BridgeInv, TypeOK
  <2> QED
    BY <2>1, <2>2
<1> QED
  BY <1>3, <1>4, <1>5, <1>6 DEF CalmInv

LEMMA CalmRelayReady ==
  ASSUME BridgeInv, CalmInv, NEW s \in Sock, RelayReady(s)
  PROVE  CalmInv'
<1> DEFINE u == UserOf[s]
           old == relayBridges[u]
<1>1. UNCHANGED <<ws, relayPort, portVars, hurried>> /\ step[s] = "relay"
  BY DEF RelayReady
<1>2. CASE old = None
  <2>1. ASSUME NEW t \in Sock, UserOf[t] = u, u \notin hurried
        PROVE  bridge[t] \notin Live \cup {"closing"}
    BY <1>1, <1>2, <2>1 DEF CalmInv, BridgeListed, WayCleared
  <2> QED
    BY <1>1, <1>2, <2>1, CalmMake DEF RelayReady, OldBridge
<1>3. CASE old # None
  <2>1. /\ bridge' = [bridge EXCEPT ![old] = Closing(old)]
        /\ relayBridges' = [relayBridges EXCEPT ![u] = None]
        /\ step' = [step EXCEPT ![s] = "pause"]
    BY <1>3 DEF RelayReady, OldBridge
  <2>2. old \in Sock /\ UserOf[old] = u /\ step[old] = "ready"
    BY <1>3 DEF CalmInv, ListedOwn, BridgeInv, TypeOK
  <2>3. /\ \A t \in Sock \ {s} : step'[t] = step[t]
        /\ \A t \in Sock \ {old} : bridge'[t] = bridge[t]
        /\ bridge'[old] \notin Live
        /\ bridge'[old] = "closing" \/ bridge'[old] = bridge[old]
        /\ step'[s] = "pause"
    BY <2>1, <2>2 DEF BridgeInv, TypeOK, Closing, Live
  <2>4. OneUnderWay'
    BY <1>1, <2>3 DEF CalmInv, OneUnderWay, Over
  <2>5. \A t \in Sock : UserOf[t] = u /\ u \notin hurried => bridge'[t] \notin Live
    BY <2>3 DEF CalmInv, BridgeListed
  <2>6. WayCleared'
    <3> SUFFICES ASSUME NEW t \in Sock, NEW o \in Sock, UserOf[t] = UserOf[o],
                        UserOf[t] \notin hurried'
                 PROVE  /\ step'[t] \in {"auth", "relay"} => bridge'[o] # "closing"
                        /\ step'[t] = "pause" => bridge'[o] \notin Live
                        /\ bridge'[t] \in Live => bridge'[o] # "closing"
      BY DEF WayCleared
    <3>1. CASE UserOf[t] # u
      BY <1>1, <2>2, <2>3, <3>1 DEF CalmInv, WayCleared
    <3>2. CASE UserOf[t] = u
      <4>1. step'[t] \notin {"auth", "relay"}
        BY <1>1, <2>3, <3>2 DEF CalmInv, OneUnderWay, Over
      <4> QED
        BY <1>1, <2>5, <3>2, <4>1
    <3> QED
      BY <3>1, <3>2
  <2>7. PortHeld'
    BY <1>1, <2>3 DEF CalmInv, PortHeld, portVars
  <2>8. /\ \A v \in User \ {u} : relayBridges'[v] = relayBridges[v]
        /\ relayBridges'[u] = None
    BY <2>1 DEF BridgeInv, TypeOK
  <2>9. BridgeListed'
    <3>1. ASSUME NEW t \in Sock, UserOf[t] \notin hurried, bridge'[t] \in Live
          PROVE  relayBridges'[UserOf[t]] = t
      <4>1. UserOf[t] # u /\ bridge'[t] = bridge[t]
        BY <2>3, <2>5, <3>1
      <4> QED
        BY <2>8, <3>1, <4>1 DEF CalmInv, BridgeListed
    <3> QED
      BY <1>1, <3>1 DEF BridgeListed
  <2>10. ListedOwn'
    BY <1>1, <2>3, <2>8 DEF CalmInv, ListedOwn, BridgeInv, TypeOK
  <2> QED
    BY <2>4, <2>6, <2>7, <2>9, <2>10 DEF CalmInv
<1> QED
  BY <1>2, <1>3

LEMMA CalmPauseOver ==
  ASSUME BridgeInv, CalmInv, NEW s \in Sock, PauseOver(s)
  PROVE  CalmInv'
<1>1. /\ step[s] = "pause" /\ MakeBridge(s) /\ UNCHANGED <<ws, relayPort, portVars>>
      /\ hurried \subseteq hurried'
  BY DEF PauseOver, HurriedIf
<1>2. ASSUME NEW t \in Sock, UserOf[t] = UserOf[s], UserOf[s] \notin hurried'
      PROVE  bridge[t] \notin Live \cup {"closing"}
  <2>1. bridge[t] # "closing"
    BY <1>2 DEF PauseOver, HurriedIf, SocketsOf
  <2>2. bridge[t] \notin Live
    BY <1>1, <1>2 DEF CalmInv, WayCleared
  <2> QED
    BY <2>1, <2>2
<1> QED
  BY <1>1, <1>2, CalmMake


LEMMA CalmLeaves ==
  ASSUME BridgeInv, CalmInv, NEW s \in Sock, ExtensionLeaves(s)
  PROVE  CalmInv'
<1>1. \A t \in Sock : ws[t] = "closed" => ws'[t] = "closed"
  BY DEF ExtensionLeaves, BridgeInv, TypeOK
<1>2. UNCHANGED <<step, relayPort, bridgeVars, portVars, hurried>>
  BY DEF ExtensionLeaves
<1>3. OneUnderWay'
  BY <1>1, <1>2 DEF CalmInv, OneUnderWay, Over
<1> QED
  BY <1>2, <1>3 DEF CalmInv, WayCleared, PortHeld, BridgeListed, ListedOwn, bridgeVars, portVars

(* The close of a socket.  If it is heard, its handler was the only one of *)
(* its user, so nobody is left who counts on the port or the bridge.       *)
LEMMA CalmClosed ==
  ASSUME BridgeInv, CalmInv, NEW s \in Sock, ExtensionClosed(s)
  PROVE  CalmInv'
<1> DEFINE u == UserOf[s]
           b == relayBridges[u]
<1>1. /\ UNCHANGED <<step, relayPort, hurried>>
      /\ ws[s] = "closing" /\ ws'[s] = "closed"
      /\ \A t \in Sock \ {s} : ws'[t] = ws[t]
  BY DEF ExtensionClosed, BridgeInv, TypeOK
<1>2. OneUnderWay'
  BY <1>1 DEF CalmInv, OneUnderWay, Over
<1>3. CASE step[s] # "ready"
  <2>1. UNCHANGED <<bridgeVars, portVars>>
    BY <1>3 DEF ExtensionClosed
  <2> QED
    BY <1>1, <1>2, <2>1 DEF CalmInv, WayCleared, PortHeld, BridgeListed, ListedOwn, bridgeVars,
       portVars
<1>4. CASE step[s] = "ready"
  <2>1. /\ relayBridges' = [relayBridges EXCEPT ![u] = None]
        /\ userRelayPorts' = [userRelayPorts EXCEPT ![u] = None]
        /\ IF b # None THEN bridge' = [bridge EXCEPT ![b] = Closing(b)] ELSE UNCHANGED bridge
    BY <1>4 DEF ExtensionClosed, CloseHandler, FreeRelayPort
  <2>2. /\ \A v \in User \ {u} : relayBridges'[v] = relayBridges[v]
        /\ \A v \in User \ {u} : userRelayPorts'[v] = userRelayPorts[v]
        /\ relayBridges'[u] = None
    BY <2>1 DEF BridgeInv, TypeOK
  <2>3. b # None => b \in Sock /\ UserOf[b] = u
    BY DEF CalmInv, ListedOwn, BridgeInv, TypeOK
  <2>4. \A t \in Sock : UserOf[t] # u => bridge'[t] = bridge[t]
    BY <2>1, <2>3 DEF BridgeInv, TypeOK
  <2>5. \A t \in Sock : bridge'[t] \in Live => bridge[t] \in Live /\ t # b
    BY <2>1, <2>3 DEF BridgeInv, TypeOK, Closing, Live
  <2>6. \A t \in Sock : UserOf[t] = u /\ u \notin hurried => bridge'[t] \notin Live
    BY <2>5 DEF CalmInv, BridgeListed
  <2>7. \A t \in Sock : UserOf[t] = u /\ u \notin hurried
                          => step[t] \notin {"auth", "relay", "pause"}
    BY <1>1, <1>4 DEF CalmInv, OneUnderWay, Over
  <2>8. WayCleared'
    <3> SUFFICES ASSUME NEW t \in Sock, NEW o \in Sock, UserOf[t] = UserOf[o],
                        UserOf[t] \notin hurried'
                 PROVE  /\ step'[t] \in {"auth", "relay"} => bridge'[o] # "closing"
                        /\ step'[t] = "pause" => bridge'[o] \notin Live
                        /\ bridge'[t] \in Live => bridge'[o] # "closing"
      BY DEF WayCleared
    <3>1. CASE UserOf[t] # u
      BY <1>1, <2>4, <3>1 DEF CalmInv, WayCleared
    <3>2. CASE UserOf[t] = u
      BY <1>1, <2>6, <2>7, <3>2
    <3> QED
      BY <3>1, <3>2
  <2>9. PortHeld' /\ BridgeListed'
    <3>1. ASSUME NEW t \in Sock, UserOf[t] \notin hurried,
                 step[t] \in {"relay", "pause"} \/ bridge'[t] \in Live
          PROVE  UserOf[t] # u
      BY <2>6, <2>7, <3>1
    <3>2. PortHeld'
      BY <1>1, <2>2, <2>4, <3>1 DEF CalmInv, PortHeld
    <3>3. BridgeListed'
      BY <1>1, <2>2, <2>4, <3>1 DEF CalmInv, BridgeListed
    <3> QED
      BY <3>2, <3>3
  <2>10. ListedOwn'
    BY <1>1, <2>2 DEF CalmInv, ListedOwn, BridgeInv, TypeOK
  <2> QED
    BY <1>2, <2>8, <2>9, <2>10 DEF CalmInv
<1> QED
  BY <1>3, <1>4

LEMMA CalmBridge ==
  ASSUME BridgeInv, CalmInv, NEW s \in Sock, BridgeOpens(s) \/ BridgeClosed(s)
  PROVE  CalmInv'
<1>1. UNCHANGED <<ws, step, relayPort, portVars, hurried>>
  BY DEF BridgeOpens, BridgeClosed, connVars
<1>2. OneUnderWay'
  BY <1>1 DEF CalmInv, OneUnderWay, Over
<1>3. \A t \in Sock : /\ bridge'[t] \in Live => bridge[t] \in Live
                      /\ bridge'[t] = "closing" => bridge[t] = "closing"
  BY DEF BridgeOpens, BridgeClosed, BridgeInv, TypeOK, Live
<1>4. WayCleared' /\ PortHeld'
  <2>1. WayCleared'
    BY <1>1, <1>3 DEF CalmInv, WayCleared
  <2>2. PortHeld'
    BY <1>1, <1>3 DEF CalmInv, PortHeld, portVars
  <2> QED
    BY <2>1, <2>2
<1>5. CASE BridgeOpens(s)
  <2>1. UNCHANGED relayBridges
    BY <1>5 DEF BridgeOpens
  <2>2. BridgeListed' /\ ListedOwn'
    BY <1>1, <1>3, <2>1 DEF CalmInv, BridgeListed, ListedOwn
  <2> QED
    BY <1>2, <1>4, <2>2 DEF CalmInv
<1>6. CASE BridgeClosed(s)
  <2>1. relayBridges' = [relayBridges EXCEPT ![UserOf[s]] = None] /\ bridge'[s] = "closed"
        /\ bridge[s] \in Live \cup {"closing"}
    BY <1>6 DEF BridgeClosed, BridgeInv, TypeOK, Live
  <2>2. \A v \in User : relayBridges'[v] = IF v = UserOf[s] THEN None ELSE relayBridges[v]
    BY <2>1 DEF BridgeInv, TypeOK
  <2>3. BridgeListed'
    <3>1. ASSUME NEW t \in Sock, UserOf[t] = UserOf[s], UserOf[t] \notin hurried,
                 bridge'[t] \in Live
          PROVE  FALSE
      <4>1. t # s /\ bridge[t] \in Live
        BY <1>3, <2>1, <3>1 DEF Live
      <4>2. CASE bridge[s] = "closing"
        BY <3>1, <4>1, <4>2 DEF CalmInv, WayCleared
      <4>3. CASE bridge[s] \in Live
        BY <3>1, <4>1, <4>3 DEF CalmInv, BridgeListed
      <4> QED
        BY <2>1, <4>2, <4>3
    <3> QED
      BY <1>1, <1>3, <2>2, <3>1 DEF CalmInv, BridgeListed
  <2>4. ListedOwn'
    BY <1>1, <2>2 DEF CalmInv, ListedOwn, BridgeInv, TypeOK
  <2> QED
    BY <1>2, <1>4, <2>3, <2>4 DEF CalmInv
<1> QED
  BY <1>5, <1>6

(* The port of a user is handed to its agents unchanged.                   *)
LEMMA CalmPort ==
  ASSUME BridgeInv, CalmInv, NEW u \in User, AgentAsksPort(u)
  PROVE  CalmInv'
<1>1. UNCHANGED <<ws, step, relayPort, bridgeVars, hurried>>
  BY DEF AgentAsksPort, connVars
<1>2. \A v \in User : userRelayPorts[v] # None => userRelayPorts'[v] = userRelayPorts[v]
  BY DEF AgentAsksPort, TakePort, PortFor, BridgeInv, TypeOK
<1>3. PortHeld'
  <2>1. ASSUME NEW t \in Sock, UserOf[t] \notin hurried,
               step[t] \in {"relay", "pause"} \/ bridge[t] \in Live
        PROVE  userRelayPorts'[UserOf[t]] = relayPort[t]
    <3>1. userRelayPorts[UserOf[t]] = relayPort[t] /\ relayPort[t] \in Port
      BY <2>1 DEF CalmInv, PortHeld, BridgeInv, HandlersHavePorts, Live
    <3> QED
      BY <1>2, <3>1
  <2> QED
    BY <1>1, <2>1 DEF PortHeld, bridgeVars
<1>4. OneUnderWay' /\ WayCleared' /\ BridgeListed' /\ ListedOwn'
  BY <1>1 DEF CalmInv, OneUnderWay, WayCleared, BridgeListed, ListedOwn, Over, bridgeVars
<1> QED
  BY <1>3, <1>4 DEF CalmInv

LEMMA CalmStep ==
  ASSUME BridgeInv, PortsAccounted, CalmInv, [Next]_vars
  PROVE  CalmInv'
<1>1. ASSUME NEW s \in Sock, SocketStep(s)
      PROVE  CalmInv'
  <2>1. CASE Connect(s) \/ KeyAccepted(s) \/ KeyRejected(s)
    BY <2>1, CalmConnect, CalmKey
  <2>2. CASE RelayReady(s) \/ PauseOver(s)
    BY <2>2, CalmRelayReady, CalmPauseOver
  <2>3. CASE ExtensionLeaves(s) \/ ExtensionClosed(s)
    BY <2>3, CalmLeaves, CalmClosed
  <2>4. CASE BridgeOpens(s) \/ BridgeClosed(s)
    BY <2>4, CalmBridge
  <2>5. CASE RelayAsks(s) \/ \E q \in asked[s] : Answer(s, q)
    BY <2>5, CalmQuiet DEF RelayAsks, Answer, connVars
  <2> QED
    BY <1>1, <2>1, <2>2, <2>3, <2>4, <2>5 DEF SocketStep
<1>2. CASE \E u \in User : AgentAsksPort(u)
  BY <1>2, CalmPort
<1>3. CASE \/ \E m \in Msg, u \in User : Send(m, u)
           \/ \E m \in Msg : Timeout(m)
           \/ \E p \in Port : RelaySkips(p)
  BY <1>3, CalmQuiet DEF Send, Timeout, RelaySkips, connVars
<1>4. CASE UNCHANGED vars
  BY <1>4, CalmQuiet DEF vars, connVars
<1> QED
  BY <1>1, <1>2, <1>3, <1>4 DEF Next

LEMMA BridgesInOrder == Spec => [](BridgeInv /\ PortsAccounted /\ CalmInv)
<1>1. Init => PortsAccounted
  BY DEF Init, PortsAccounted
<1>2. BridgeInv => TypeOK
  BY DEF BridgeInv
<1> QED
  BY <1>1, <1>2, BridgeInvInit, BridgeInvStep, AccountsStep, CalmInit, CalmStep, PTL DEF Spec

(* A bridge carries the port its user has now, so that a user's agents     *)
(* never come upon another user's browser behind their port, unless the    *)
(* user reconnects in a hurry.                                             *)
THEOREM BridgesKeepTheirPort == Spec => []BridgeOnOwnPort
  BY BridgesInOrder, CalmImplies, PTL

(* A new bridge is only made once the one before is closed, unless the     *)
(* user reconnects in a hurry.                                             *)
THEOREM BridgesAreSingle == Spec => []OneBridgePerUser
  BY BridgesInOrder, CalmImplies, PTL

---------------------------------------------------------------------------
(* Messages settle.  The fairness of FairSpec speaks of ENABLED, which the *)
(* provers leave opaque, so that the theorem names the one fact about it   *)
(* it rests on: a timer of an entry that is there can fire.                *)
TimersCanFire == \A m \in Msg : Expired(m) # {} => ENABLED <<Timeout(m)>>_vars

(* A message that waits has its entry, in some map or other.               *)
PendingEntered == \A m \in Msg : msg[m] = "pending" => Expired(m) # {}

LEMMA PendingEnteredInit == Init => PendingEntered
  BY DEF Init, PendingEntered

LEMMA PendingEnteredStep ==
  ASSUME TypeOK, PendingEntered, [Next]_vars
  PROVE  PendingEntered'
<1>0. ASSUME UNCHANGED <<msg, pending>> PROVE PendingEntered'
  BY <1>0 DEF PendingEntered, Expired
<1>1. ASSUME NEW s \in Sock, SocketStep(s)
      PROVE  PendingEntered'
  <2>1. ASSUME NEW q \in asked[s], Answer(s, q), step[s] = "ready"
        PROVE  PendingEntered'
    <3>1. SUFFICES ASSUME NEW m \in Msg, msg'[m] = "pending" PROVE Expired(m)' # {}
      BY DEF PendingEntered
    <3>2. msg[m] = "pending" /\ ~\E e \in EntriesFor(UserOf[s], q.id) : e.msg = m
      BY <2>1, <3>1 DEF Answer
    <3>3. PICK e \in pending : e.msg = m
      BY <3>2 DEF PendingEntered, Expired
    <3>4. e \in pending'
      BY <2>1, <3>2, <3>3 DEF Answer
    <3> QED
      BY <3>3, <3>4 DEF Expired
  <2>2. ASSUME NEW q \in asked[s], Answer(s, q), step[s] # "ready"
        PROVE  UNCHANGED <<msg, pending>>
    BY <2>2 DEF Answer
  <2>3. CASE ~\E q \in asked[s] : Answer(s, q)
    BY <1>1, <2>3, <1>0
       DEF SocketStep, Connect, KeyRejected, KeyAccepted, RelayReady, PauseOver,
           ExtensionLeaves, ExtensionClosed, BridgeOpens, BridgeClosed, RelayAsks, msgVars
  <2> QED
    BY <1>0, <2>1, <2>2, <2>3
<1>2. ASSUME NEW m \in Msg, NEW u \in User, Send(m, u)
      PROVE  PendingEntered'
  <2>1. PICK e : e.msg = m /\ pending' = pending \cup {e}
    BY <1>2 DEF Send
  <2>2. msg' = [msg EXCEPT ![m] = "pending"]
    BY <1>2 DEF Send
  <2> QED
    BY <2>1, <2>2 DEF PendingEntered, Expired, TypeOK
<1>3. ASSUME NEW m \in Msg, Timeout(m)
      PROVE  PendingEntered'
  BY <1>3 DEF Timeout, PendingEntered, Expired, TypeOK
<1>4. CASE \/ \E u \in User : AgentAsksPort(u)
           \/ \E p \in Port : RelaySkips(p)
           \/ UNCHANGED vars
  BY <1>0, <1>4 DEF AgentAsksPort, RelaySkips, msgVars, vars
<1> QED
  BY <1>1, <1>2, <1>3, <1>4 DEF Next

LEMMA MessageEntered == Spec => [](TypeOK /\ PendingEntered)
  BY TypeCorrect, PendingEnteredInit, PendingEnteredStep, PTL DEF Spec

(* One message: its entry stays until it is settled, and the timer of the  *)
(* entry settles it at the latest.                                         *)
LEMMA MessageSettles ==
  ASSUME NEW m \in Msg
  PROVE  /\ Spec /\ TimerRuns(m)
         /\ [](Expired(m) # {} => ENABLED <<Timeout(m)>>_vars)
         => (msg[m] = "pending" ~> msg[m] # "pending")
<1>1. PendingEntered => (msg[m] = "pending" => Expired(m) # {})
  BY DEF PendingEntered
<1>2. TypeOK /\ <<Timeout(m)>>_vars => (msg[m] # "pending")'
  BY DEF Timeout, TypeOK
<1>3. (msg[m] # "pending") <=> ~(msg[m] = "pending")
  OBVIOUS
<1> QED
  BY <1>1, <1>2, <1>3, MessageEntered, PTL DEF TimerRuns

(* Every message of the server is settled, by its timer at the latest, for *)
(* the timer does not go with the map its entry was made in.               *)
THEOREM MessagesAreSettled == FairSpec /\ []TimersCanFire => MessagesSettle
<1>1. SUFFICES ASSUME NEW m \in Msg
               PROVE  FairSpec /\ []TimersCanFire
                        => (msg[m] = "pending" ~> msg[m] # "pending")
  BY DEF MessagesSettle
<1>2. TimersCanFire => (Expired(m) # {} => ENABLED <<Timeout(m)>>_vars)
  BY DEF TimersCanFire
<1>3. FairSpec => Spec /\ TimerRuns(m)
  BY DEF FairSpec
<1> QED
  BY <1>2, <1>3, MessageSettles, PTL
---------------------------------------------------------------------------
(***************************************************************************)
(* The bridges of a port behave as the sockets of one relay may.           *)
(***************************************************************************)
LEMMA RelayLifeStep ==
  ASSUME BridgeInv, NEW p \in Port, NEW s \in Sock, SocketStep(s), ~BridgeOpens(s)
  PROVE  \A t \in Sock : RelayLife(t, p)' \in {RelayLife(t, p), "over"}
<1> USE DEF BridgeInv, TypeOK, HandlersHavePorts
<1>1. CASE UNCHANGED <<bridge, relayPort>>
  BY <1>1 DEF RelayLife
<1>2. CASE KeyAccepted(s)
  <2>1. bridge[s] = "none" /\ UNCHANGED bridge
    BY <1>2 DEF KeyAccepted, bridgeVars
  <2>2. \A t \in Sock \ {s} : relayPort'[t] = relayPort[t]
    BY <1>2 DEF KeyAccepted
  <2> QED
    BY <2>1, <2>2 DEF RelayLife
<1>3. CASE RelayReady(s) \/ PauseOver(s)
  <2>1. bridge[s] = "none"
    BY <1>3 DEF RelayReady, PauseOver
  <2>2. relayPort' = relayPort
    BY <1>3 DEF RelayReady, PauseOver
  <2>3. \A t \in Sock :
          \/ bridge'[t] \in {bridge[t], "closing"}
          \/ t = s /\ bridge'[t] = "connecting"
    <3>1. CASE MakeBridge(s)
      BY <3>1 DEF MakeBridge
    <3>2. CASE \E old : bridge' = [bridge EXCEPT ![old] = Closing(old)]
      BY <3>2 DEF Closing
    <3> QED
      BY <1>3, <3>1, <3>2 DEF RelayReady, PauseOver
  <2> QED
    BY <2>1, <2>2, <2>3 DEF RelayLife
<1>4. CASE ExtensionClosed(s) \/ BridgeClosed(s)
  <2>1. relayPort' = relayPort
    BY <1>4 DEF ExtensionClosed, BridgeClosed, connVars
  <2>2. \A t \in Sock : bridge'[t] \in {bridge[t], "closing", "closed"}
    BY <1>4 DEF ExtensionClosed, CloseHandler, BridgeClosed, Closing, bridgeVars
  <2> QED
    BY <2>1, <2>2 DEF RelayLife
<1> QED
  BY <1>1, <1>2, <1>3, <1>4
     DEF SocketStep, Connect, KeyRejected, ExtensionLeaves, RelayAsks, Answer, connVars, bridgeVars

LEMMA RelayOpens ==
  ASSUME BridgeInv, NEW p \in Port, NEW s \in Sock, BridgeOpens(s)
  PROVE  /\ relayPort[s] = p => /\ RelayLife(s, p) = "fresh" /\ RelayLife(s, p)' = "open"
                                /\ \A t \in Sock \ {s} : RelayLife(t, p) # "open"
         /\ relayPort[s] # p => RelayLife(s, p)' = RelayLife(s, p)
         /\ \A t \in Sock \ {s} : RelayLife(t, p)' = RelayLife(t, p)
  BY DEF BridgeInv, TypeOK, BridgeOpens, Busy, OnPort, RelayLife, connVars

(* Only a handler that has made its bridge has anything of a relay to      *)
(* answer, so what it holds stays with the port it was asked on.           *)
NothingAskedBefore ==
  \A s \in Sock : bridge[s] = "none" => \A q \in asked[s] : q.from # Relay

LEMMA AskedShrinks ==
  ASSUME TypeOK, NEW s \in Sock,
         \/ Connect(s) \/ KeyRejected(s) \/ KeyAccepted(s) \/ RelayReady(s) \/ PauseOver(s)
         \/ ExtensionLeaves(s) \/ ExtensionClosed(s) \/ BridgeOpens(s) \/ BridgeClosed(s)
         \/ \E q \in asked[s] : Answer(s, q)
  PROVE  \A t \in Sock : asked'[t] \subseteq asked[t]
<1>1. CASE ExtensionClosed(s) \/ \E q \in asked[s] : Answer(s, q)
  <2>1. \/ asked' = [asked EXCEPT ![s] = {}]
        \/ \E q \in asked[s] : asked' = [asked EXCEPT ![s] = @ \ {q}]
    BY <1>1 DEF ExtensionClosed, Answer
  <2> QED
    BY <2>1 DEF TypeOK
<1>2. CASE UNCHANGED asked
  BY <1>2
<1> QED
  BY <1>1, <1>2 DEF Connect, KeyRejected, KeyAccepted, RelayReady, PauseOver,
     ExtensionLeaves, BridgeOpens, BridgeClosed

LEMMA NothingAskedStep ==
  ASSUME BridgeInv, NothingAskedBefore, [Next]_vars
  PROVE  NothingAskedBefore'
<1> USE DEF BridgeInv, TypeOK
<1>1. \A s \in Sock : bridge'[s] = "none" => bridge[s] = "none"
  <2>1. ASSUME NEW s \in Sock, RelayReady(s) \/ PauseOver(s) \/ ExtensionClosed(s)
        PROVE  \A t \in Sock : bridge'[t] = "none" => bridge[t] = "none"
    <3>1. \/ \E old : bridge' = [bridge EXCEPT ![old] = Closing(old)]
          \/ bridge' = [bridge EXCEPT ![s] = "connecting"]
          \/ bridge' = bridge
      BY <2>1 DEF RelayReady, PauseOver, ExtensionClosed, CloseHandler, MakeBridge, bridgeVars
    <3> QED
      BY <3>1 DEF Closing
  <2>2. ASSUME NEW s \in Sock, BridgeOpens(s) \/ BridgeClosed(s)
        PROVE  \A t \in Sock : bridge'[t] = "none" => bridge[t] = "none"
    BY <2>2 DEF BridgeOpens, BridgeClosed
  <2>3. CASE UNCHANGED bridge
    BY <2>3
  <2> QED
    BY <2>1, <2>2, <2>3 DEF Next, SocketStep, Connect, KeyRejected, KeyAccepted,
       ExtensionLeaves, RelayAsks, RelaySkips, Answer, AgentAsksPort, Send, Timeout, vars,
       bridgeVars
<1>2. CASE \A s \in Sock : asked'[s] \subseteq asked[s]
  BY <1>1, <1>2 DEF NothingAskedBefore
<1>3. ASSUME NEW s \in Sock, SocketStep(s), ~RelayAsks(s)
      PROVE  \A t \in Sock : asked'[t] \subseteq asked[t]
  BY <1>3, AskedShrinks DEF SocketStep
<1>4. ASSUME NEW s \in Sock, RelayAsks(s)
      PROVE  NothingAskedBefore'
  <2>1. bridge[s] = "open" /\ bridge' = bridge
    BY <1>4 DEF RelayAsks, bridgeVars
  <2>2. \A t \in Sock \ {s} : asked'[t] = asked[t]
    BY <1>4 DEF RelayAsks
  <2> QED
    BY <2>1, <2>2 DEF NothingAskedBefore
<1>5. ASSUME NEW m \in Msg, NEW u \in User, Send(m, u)
      PROVE  NothingAskedBefore'
  <2>1. \A t \in Sock : \A q \in asked'[t] \ asked[t] : q.from = m
    BY <1>5 DEF Send
  <2> QED
    BY <1>1, <2>1 DEF NothingAskedBefore
<1>6. CASE \/ \E u \in User : AgentAsksPort(u)
           \/ \E p \in Port : RelaySkips(p)
           \/ \E m \in Msg : Timeout(m)
           \/ UNCHANGED vars
  BY <1>2, <1>6 DEF AgentAsksPort, RelaySkips, Timeout, vars
<1> QED
  BY <1>2, <1>3, <1>4, <1>5, <1>6 DEF Next

(* What a step gives socket s to answer for the relay of port p: a message *)
(* under the number the relay's counter showed, while the bridge is open.  *)
RelayGives(s, p) ==
  RelayQuestions(s, p)' \subseteq RelayQuestions(s, p)
    \/ /\ RelayLife(s, p) = "open" /\ RelayLife(s, p)' = "open"
       /\ relayId[p] < relayId'[p]
       /\ \A q \in RelayQuestions(s, p)' \ RelayQuestions(s, p) : q.id = relayId[p]

NumbersGiven(p) == relayId[p] <= relayId'[p] /\ \A s \in Sock : RelayGives(s, p)

LEMMA RelaySends ==
  ASSUME BridgeInv, NEW p \in Port, NEW s \in Sock, RelayAsks(s)
  PROVE  NumbersGiven(p)
<1> USE DEF BridgeInv, TypeOK
<1>1. UNCHANGED <<bridge, relayPort>> /\ bridge[s] = "open" /\ relayPort[s] \in Port
  BY DEF RelayAsks, connVars, bridgeVars, HandlersHavePorts
<1>2. relayId' = [relayId EXCEPT ![relayPort[s]] = @ + 1]
  BY DEF RelayAsks
<1>3. \A t \in Sock \ {s} : asked'[t] = asked[t]
  BY DEF RelayAsks
<1>4. \A q \in asked'[s] \ asked[s] : q.id = relayId[relayPort[s]]
  BY DEF RelayAsks
<1>5. relayId[p] <= relayId'[p] /\ (relayPort[s] = p => relayId[p] < relayId'[p])
  BY <1>1, <1>2
<1>6. ASSUME NEW t \in Sock \ {s}
      PROVE  RelayGives(t, p)
  BY <1>1, <1>3 DEF RelayGives, RelayQuestions
<1>7. RelayGives(s, p)
  <2>1. CASE relayPort[s] = p
    <3>1. RelayLife(s, p) = "open" /\ RelayLife(s, p)' = "open"
      BY <1>1, <2>1 DEF RelayLife
    <3>2. \A q \in RelayQuestions(s, p)' \ RelayQuestions(s, p) : q \in asked'[s] \ asked[s]
      BY <1>1, <2>1 DEF RelayQuestions
    <3> QED
      BY <1>4, <1>5, <2>1, <3>1, <3>2 DEF RelayGives
  <2>2. CASE relayPort[s] # p
    BY <1>1, <2>2 DEF RelayGives, RelayQuestions
  <2> QED
    BY <2>1, <2>2
<1> QED
  BY <1>5, <1>6, <1>7 DEF NumbersGiven

LEMMA OthersGiveNothing ==
  ASSUME BridgeInv, NothingAskedBefore, NEW p \in Port, [Next]_vars,
         ~\E s \in Sock : RelayAsks(s)
  PROVE  NumbersGiven(p)
<1> USE DEF BridgeInv, TypeOK
<1>1. relayId[p] <= relayId'[p]
  <2>1. ASSUME NEW o \in Port, RelaySkips(o)
        PROVE  relayId[p] <= relayId'[p]
    <3>1. relayId' = [relayId EXCEPT ![o] = @ + 1]
      BY <2>1 DEF RelaySkips
    <3> QED
      BY <3>1
  <2>2. CASE UNCHANGED relayId
    BY <2>2
  <2> QED
    BY <2>1, <2>2 DEF Next, SocketStep, Connect, KeyRejected, KeyAccepted, RelayReady, PauseOver,
       ExtensionLeaves, ExtensionClosed, BridgeOpens, BridgeClosed, Answer, AgentAsksPort, Send,
       Timeout, vars
<1>2. ASSUME NEW s \in Sock, KeyAccepted(s), NEW t \in Sock
      PROVE  RelayGives(t, p)
  <2>1. bridge[s] = "none" /\ asked' = asked
    BY <1>2 DEF KeyAccepted, HandlersHavePorts
  <2>2. CASE t = s
    BY <2>1, <2>2 DEF NothingAskedBefore, RelayGives, RelayQuestions
  <2>3. CASE t # s
    BY <1>2, <2>1, <2>3 DEF KeyAccepted, RelayGives, RelayQuestions
  <2> QED
    BY <2>2, <2>3
<1>3. ASSUME NEW m \in Msg, NEW u \in User, Send(m, u), NEW t \in Sock
      PROVE  RelayGives(t, p)
  <2>1. \A q \in asked'[t] \ asked[t] : q.from = m
    BY <1>3 DEF Send
  <2>2. UNCHANGED relayPort
    BY <1>3 DEF Send, connVars
  <2> QED
    BY <2>1, <2>2 DEF RelayGives, RelayQuestions
<1>4. ASSUME UNCHANGED relayPort, NEW t \in Sock, asked'[t] \subseteq asked[t]
      PROVE  RelayGives(t, p)
  BY <1>4 DEF RelayGives, RelayQuestions
<1>5. ASSUME NEW s \in Sock, SocketStep(s), ~KeyAccepted(s)
      PROVE  UNCHANGED relayPort /\ \A t \in Sock : asked'[t] \subseteq asked[t]
  <2>1. \A t \in Sock : asked'[t] \subseteq asked[t]
    BY <1>5, AskedShrinks DEF SocketStep
  <2>2. UNCHANGED relayPort
    BY <1>5 DEF SocketStep, Connect, KeyRejected, RelayReady, PauseOver, ExtensionLeaves,
       ExtensionClosed, BridgeOpens, BridgeClosed, Answer, connVars
  <2> QED
    BY <2>1, <2>2
<1>6. ASSUME \/ \E u \in User : AgentAsksPort(u)
             \/ \E o \in Port : RelaySkips(o)
             \/ \E m \in Msg : Timeout(m)
             \/ UNCHANGED vars
      PROVE  UNCHANGED <<relayPort, asked>>
  BY <1>6 DEF AgentAsksPort, RelaySkips, Timeout, vars, connVars
<1>7. ASSUME NEW t \in Sock
      PROVE  RelayGives(t, p)
  <2>1. ASSUME NEW s \in Sock, SocketStep(s)
        PROVE  RelayGives(t, p)
    <3>1. CASE KeyAccepted(s)
      BY <1>2, <3>1
    <3>2. CASE ~KeyAccepted(s)
      BY <2>1, <1>4, <1>5, <3>2
    <3> QED
      BY <3>1, <3>2
  <2>2. CASE UNCHANGED <<relayPort, asked>>
    BY <2>2 DEF RelayGives, RelayQuestions
  <2> QED
    <3>1. CASE \E s \in Sock : SocketStep(s)
      BY <2>1, <3>1
    <3>2. CASE \E m \in Msg, u \in User : Send(m, u)
      BY <1>3, <3>2
    <3>3. CASE /\ ~\E s \in Sock : SocketStep(s)
               /\ ~\E m \in Msg, u \in User : Send(m, u)
      <4>1. UNCHANGED <<relayPort, asked>>
        BY <1>6, <3>3 DEF Next
      <4> QED
        BY <2>2, <4>1
    <3> QED
      BY <3>1, <3>2, <3>3
<1> QED
  BY <1>1, <1>7 DEF NumbersGiven

LEMMA RelaySideMoves ==
  ASSUME BridgeInv, BridgeInv', NothingAskedBefore, NEW p \in Port, [Next]_vars
  PROVE  RelaySide(p)!Next
<1> DEFINE life == [s \in Sock |-> RelayLife(s, p)]
           held == [s \in Sock |-> {q.id : q \in RelayQuestions(s, p)}]
<1>1. life' \in [Sock -> RelaySide(p)!Life]
  BY DEF RelayLife, RelaySide!Life
<1>2. ASSUME NEW s \in Sock, BridgeOpens(s)
      PROVE  \A t \in Sock : RelaySide(p)!Opens(t) \/ RelaySide(p)!Ends(t) \/ RelaySide(p)!Stays(t)
  BY <1>2, RelayOpens DEF RelaySide!Opens, RelaySide!Stays
<1>3. ASSUME \A t \in Sock : RelayLife(t, p)' \in {RelayLife(t, p), "over"}
      PROVE  \A t \in Sock : RelaySide(p)!Opens(t) \/ RelaySide(p)!Ends(t) \/ RelaySide(p)!Stays(t)
  BY <1>3 DEF RelaySide!Ends, RelaySide!Stays
<1>4. ASSUME UNCHANGED <<bridge, relayPort>>
      PROVE  \A t \in Sock : RelayLife(t, p)' \in {RelayLife(t, p), "over"}
  BY <1>4 DEF RelayLife
<1>5. \A t \in Sock : RelaySide(p)!Opens(t) \/ RelaySide(p)!Ends(t) \/ RelaySide(p)!Stays(t)
  <2>1. CASE \E s \in Sock : SocketStep(s)
    BY <2>1, <1>2, <1>3, RelayLifeStep
  <2>2. CASE UNCHANGED <<bridge, relayPort>>
    BY <2>2, <1>3, <1>4
  <2> QED
    BY <2>1, <2>2 DEF Next, AgentAsksPort, RelaySkips, Send, Timeout, vars, connVars, bridgeVars
<1>6. NumbersGiven(p)
  BY RelaySends, OthersGiveNothing
<1>7. relayId'[p] - 1 \in Nat /\ relayId[p] - 1 <= relayId'[p] - 1
  <2>1. relayId[p] \in Nat \ {0} /\ relayId'[p] \in Nat \ {0}
    BY DEF BridgeInv, TypeOK
  <2> QED
    BY <1>6, <2>1 DEF NumbersGiven
<1>8. held' \in [Sock -> SUBSET Nat]
  BY DEF BridgeInv, TypeOK, RelayQuestions
<1>9. ASSUME NEW s \in Sock, NEW n \in held'[s] \ held[s]
      PROVE  RelaySide(p)!IsSent(s, n)
  <2>1. PICK q \in RelayQuestions(s, p)' \ RelayQuestions(s, p) : q.id = n
    BY <1>9
  <2>2. /\ RelayLife(s, p) = "open" /\ RelayLife(s, p)' = "open"
        /\ relayId[p] < relayId'[p] /\ n = relayId[p]
    BY <1>6, <2>1 DEF NumbersGiven, RelayGives
  <2>3. relayId[p] \in Nat \ {0} /\ relayId'[p] \in Nat \ {0}
    BY DEF BridgeInv, TypeOK
  <2>4. relayId[p] - 1 < n /\ n <= relayId'[p] - 1
    BY <2>2, <2>3
  <2> HIDE DEF life, held
  <2> QED
    BY <2>2, <2>4 DEF RelaySide!IsSent, RelaySide!Stays
<1> QED
  BY <1>1, <1>5, <1>7, <1>8, <1>9 DEF RelaySide!Next

(* On every port, whoever the port is handed to, the bridges behave as     *)
(* RelaySockets, which ExtensionRelay implements, lets the sockets of one  *)
(* relay behave.                                                           *)
THEOREM BridgesUseOneRelay == Spec => RelaysKept
<1>1. SUFFICES ASSUME NEW p \in Port PROVE Spec => RelaySide(p)!Spec
  BY DEF RelaysKept
<1>2. Init => RelaySide(p)!Init
  BY DEF Init, RelaySide!Init, RelayLife, RelayQuestions
<1>3. BridgeInv /\ BridgeInv' /\ NothingAskedBefore /\ [Next]_vars => RelaySide(p)!Next
  BY RelaySideMoves
<1>4. Init => NothingAskedBefore
  BY DEF Init, NothingAskedBefore
<1> QED
  BY <1>2, <1>3, <1>4, NothingAskedStep, BridgesInOrder, PTL DEF Spec, RelaySide!Spec
===========================================================================
