---------------------------- MODULE MCSessionRoster ----------------------------
(* Small instances of SessionRoster for TLC. *)
EXTENDS SessionRoster, TLC

\* Instants: 0 before the window, 1 it opens, 2 T-48h, 3 T-24h, 4 the last day,
\* 5 kickoff, 6 the end.
Game(rotation, slots, lockFrom) ==
  [rotation |-> rotation, slots |-> slots, opens |-> 1, lockFrom |-> lockFrom]

PlainGame     == {Game("off", 2, 3)}
LimitedGame   == {Game("limited", 2, 3)}
EarlyLockGame == {Game("limited", 1, 1)}
AnyRotation   == {Game("limited", 1, 2), Game("unlimited", 1, 3), Game("off", 1, 3)}
ResizedGame   == {Game("off", 2, 3), Game("off", 1, 3)}

MemberSymmetry == Permutations(Members)
GuestSymmetry == Permutations(Guests)
Symmetry == MemberSymmetry \cup GuestSymmetry
===============================================================================
