------------------------------ MODULE SerialLog -------------------------------
(***************************************************************************)
(* What the engine's write path promises its callers, for one run: a call  *)
(* takes effect at most once and at one instant, on the log as it is at    *)
(* that instant; nothing follows a call that closes the run; and an answer *)
(* tells the truth about whether the call took effect.  A caller whose     *)
(* replica died gets no answer.  WritePath.tla implements this.            *)
(***************************************************************************)
EXTENDS Sequences, SequencesExt

CONSTANTS
  Calls,      \* the calls made on the run, a retry by the caller being another one
  Closers     \* the ones that close it

VARIABLES
  log,        \* the calls that took effect, in order
  answer      \* what each caller was told: "none", "ok" or "failed"

Init == log = <<>> /\ answer = [c \in Calls |-> "none"]

Apply(c) ==
  /\ c \notin ToSet(log)
  /\ ToSet(log) \cap Closers = {}
  /\ answer[c] = "none"
  /\ log' = Append(log, c)
  /\ UNCHANGED answer

Answer(c) ==
  /\ answer[c] = "none"
  /\ answer' = [answer EXCEPT ![c] = IF c \in ToSet(log) THEN "ok" ELSE "failed"]
  /\ UNCHANGED log

Next == \E c \in Calls : Apply(c) \/ Answer(c)

Spec == Init /\ [][Next]_<<log, answer>>
===============================================================================
