-------------------------- MODULE MCDeliveryQueue --------------------------
(* Instances of DeliveryQueue for TLC.                                     *)
EXTENDS DeliveryQueue, TLC
CONSTANTS d1, d2

TwoAndOne == d1 :> 2 @@ d2 :> 1
============================================================================
