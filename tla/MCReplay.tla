------------------------------- MODULE MCReplay -------------------------------
(***************************************************************************)
(* Instances of Replay for TLC: small workflows that between them make     *)
(* every SDK call, with commands on both sides of every blocking point.    *)
(***************************************************************************)
EXTENDS Replay

CONSTANTS w1, w2

Symmetry == Permutations(Workers)

\* Futures, cancellation and values recorded around a blocking call.
CancelScope == <<"act", "await", "cancel", "get", "timer", "get", "return">>
TimerRace == <<"timer", "uuid", "poll", "get", "uuid", "mut", "continue">>
Values == <<"rand", "mut", "recv", "rand", "mut", "local", "fail">>
Gated == <<"side", "gate", "recv", "gate", "local", "return">>

SmallPrograms == {CancelScope, TimerRace, Values, Gated}

\* Nothing is claimed of a log once it is not exact, so TLC need not extend it.  Code
\* without a gate is the same in both builds, and workers that forget everything are
\* workers that evict and never answer, so TLC follows a deployment only of gated code.
Exactly == Exact(ms.events) /\ (build = "new" => prog = Gated)

\* A poll whose outcome depends on which task runs it.
PollProgram == {<<"poll", "recv", "return">>}
===============================================================================
