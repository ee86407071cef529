---------------------------- MODULE MCPersistence ------------------------------
(***************************************************************************)
(* A handful of appends for TLC: an event, an event that closes the run,   *)
(* writes of timers only, one timer replaced by another, another run's.    *)
(***************************************************************************)
EXTENDS Persistence

Append1 == [events |-> <<2>>, closes |-> FALSE, delete |-> {}, upsert |-> {}, alien |-> FALSE]

SomeRequests ==
  {[Append1 EXCEPT !.events = <<1>>, !.upsert = {[n |-> 1, at |-> 1], [n |-> 2, at |-> 1]}],
   [Append1 EXCEPT !.closes = TRUE, !.upsert = {[n |-> 1, at |-> 2]}],
   [Append1 EXCEPT !.events = <<>>, !.delete = {1}, !.upsert = {[n |-> 1, at |-> 1]}],
   [Append1 EXCEPT !.delete = {1}, !.alien = TRUE]}
===============================================================================
