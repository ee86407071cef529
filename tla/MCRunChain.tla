------------------------------ MODULE MCRunChain ------------------------------
(***************************************************************************)
(* Instances of RunChain for TLC.                                          *)
(***************************************************************************)
EXTENDS RunChain, TLC

CONSTANTS r1, r2, c1, c2

Symmetry == Permutations(Replicas) \cup Permutations(Clients)

Start(policy) == [op |-> "start", policy |-> policy]
SignalWithStart == [op |-> "signalWithStart", policy |-> "AllowDuplicate"]

MixedKinds ==
  {SignalWithStart} \cup
  {Start(p) : p \in {"TerminateIfRunning", "FailedOnly", "RejectDuplicate"}}
===============================================================================
