-------------------------- MODULE MCHeartbeatWake --------------------------
(* Instances of HeartbeatWake for TLC.                                     *)
EXTENDS HeartbeatWake, TLC
CONSTANTS main, other
============================================================================
