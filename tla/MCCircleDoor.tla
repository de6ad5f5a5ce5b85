----------------------------- MODULE MCCircleDoor ------------------------------
(* Small instances of CircleDoor for TLC. *)
EXTENDS CircleDoor, TLC

NoPatch == {}
LimitAndDoor == [maxMembers : {0, 2}] \cup [openDoor : BOOLEAN]

Joiners == Accounts \ {Founder}
JoinerSymmetry == Permutations(Joiners) \cup Permutations(Guests) \cup Permutations(Departures)
===============================================================================
