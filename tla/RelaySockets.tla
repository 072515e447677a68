--------------------------- MODULE RelaySockets ---------------------------
(***************************************************************************)
(* What the relay of one port promises to those who connect to it as its   *)
(* extension: of the sockets that were ever opened at most one is open at  *)
(* a time, only a socket that is and stays open is sent messages, and the  *)
(* number of a message is larger than every number taken before, so that   *)
(* no two messages, to one socket or to two, ever share a number.  Numbers *)
(* may be passed over.  ExtensionRelay implements this module, and the     *)
(* bridges of ExtensionBridge on each port do too: that is what the second *)
(* takes from the first.                                                   *)
(***************************************************************************)
EXTENDS Naturals

CONSTANT Sock   \* the sockets that may ever be opened to this port

VARIABLES life, \* where each of them is in its life
          held, \* the numbers of the messages it was sent and has not answered
          last  \* the largest number taken so far

vars == <<life, held, last>>

Life == {"fresh", "open", "over"}

Init ==
  /\ life = [s \in Sock |-> "fresh"]
  /\ held = [s \in Sock |-> {}]
  /\ last = 0

Opens(s) ==
  /\ life[s] = "fresh" /\ life'[s] = "open"
  /\ \A t \in Sock \ {s} : life[t] # "open" /\ life'[t] # "open"

(* It is refused, breaks off or closes.                                    *)
Ends(s) == life'[s] = "over"

Stays(s) == life'[s] = life[s]

(* Number n is new, and s is open to be sent a message with it.            *)
IsSent(s, n) ==
  /\ life[s] = "open" /\ Stays(s)
  /\ last < n /\ n <= last'

Next ==
  /\ life' \in [Sock -> Life]
  /\ \A s \in Sock : Opens(s) \/ Ends(s) \/ Stays(s)
  /\ last' \in Nat /\ last <= last'
  /\ held' \in [Sock -> SUBSET Nat]
  /\ \A s \in Sock : \A n \in held'[s] \ held[s] : IsSent(s, n)

Spec == Init /\ [][Next]_vars
===========================================================================
