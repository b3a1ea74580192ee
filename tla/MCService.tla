------------------------------ MODULE MCService -------------------------------
(***************************************************************************)
(* Service for TLC.  Ids and handlers are interchangeable, and no property *)
(* is a liveness property.                                                 *)
(***************************************************************************)
EXTENDS Service, TLC

\* CPython: 8 slots for no entry, 16 for up to five; two thirds of them are used.
MCRoom(n) == IF n = 0 THEN 5 ELSE 10

Symmetry == Permutations(Sims) \cup Permutations(Handlers)

=============================================================================
