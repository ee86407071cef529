----------------------------- MODULE MCWritePath ------------------------------
(***************************************************************************)
(* Instances of WritePath: calls spread over two replicas in every way, so *)
(* that two of them share a lock and a cache entry and race the third.     *)
(***************************************************************************)
EXTENDS WritePath

CONSTANTS c1, c2, c3
===============================================================================
