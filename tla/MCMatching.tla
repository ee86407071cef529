------------------------------ MODULE MCMatching ------------------------------
(***************************************************************************)
(* Small instances of Matching: three Add calls, two pollers and a backlog *)
(* of two, so that the queue fills, pollers park while a task is queued,   *)
(* and Close runs against both.                                            *)
(***************************************************************************)
EXTENDS Matching
===============================================================================
