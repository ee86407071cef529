------------------------------ MODULE MCWorker ------------------------------
(* An instance of Worker for TLC: two activity pollers for one slot.        *)
EXTENDS Worker, TLC

CONSTANTS p1, p2, p3, a1, w1
MCKindOf == [x \in {p1, p2, a1} |-> "activity"] @@ [x \in {p3, w1} |-> "workflow"]
MCCapacity == [k \in Kinds |-> 1]
=============================================================================
