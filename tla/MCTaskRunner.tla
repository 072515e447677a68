--------------------------- MODULE MCTaskRunner ----------------------------
(* Instances of TaskRunner for TLC: tasks of one user, one of them         *)
(* destructive, and tasks the scheduler has queued.                        *)
EXTENDS TaskRunner, TLC
CONSTANTS t1, t2, anna, bob, d1

(* A task is stopped by its user, another in the name of somebody else.    *)
SomeStops == {<<t1, bob>>, <<t2, anna>>}

AllAnna == [t \in Task |-> anna]
AnnaDrains == [d \in Drain |-> anna]
============================================================================
