--------------------------------- MODULE MCTab ---------------------------------
(* A small instance of Tab for TLC. *)
EXTENDS Tab, TLC

CONSTANTS a, b, g

GuestRound == {[payer |-> b, debtors |-> {g}]}

RequestSymmetry == Permutations(Requests)
===============================================================================
