---------------------------- MODULE MCScheduler ----------------------------
(* Instances of Scheduler for TLC.  A cron time comes every three ticks; a *)
(* second failure in a row costs more than a period.                       *)
EXTENDS Scheduler, TLC
CONSTANTS p1, p2, t1, t2

FirstLate == [t \in Task |-> IF t = t1 THEN 1 ELSE 0]
TwoSteps == <<2, 4>>
============================================================================
