----------------------------- MODULE MCLongPoll -----------------------------
(* Instances of LongPoll for TLC: two slots for a caller, so that an attempt *)
(* it has given up and its successor are in the server together.            *)
EXTENDS LongPoll

MCSlots == Callers \X {1, 2}
MCOps == [c \in Callers |-> {"execute", "history"}]
=============================================================================
