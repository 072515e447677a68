------------------------- MODULE MCExtensionBridge -------------------------
(* Instances of ExtensionBridge for TLC: two users, one of which connects  *)
(* several times.                                                          *)
EXTENDS ExtensionBridge, TLC
CONSTANTS a1, a2, b1, anna, ben

TwoSockets == a1 :> anna @@ a2 :> anna @@ b1 :> ben
============================================================================
