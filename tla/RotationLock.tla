----------------------------- MODULE RotationLock -----------------------------
(***************************************************************************)
(* The Rotation's lock: at the cutoff of a limited rotation the available  *)
(* members become the line-up and the sit-out list                         *)
(* (lockRotationIfDue in apps/web/src/server/games-service.ts).            *)
(***************************************************************************)
EXTENDS SessionRsvp, Functions

\* The orders computeRotation may rank the candidates in.  The order itself
\* depends on play history and arrival, which no property here tells apart.
Rankings(candidates) ==
  {rank \in [candidates -> 1..Cardinality(candidates)] : IsInjective(rank)}

\* The first `slots` of the ranking play, whoever else is 'in' already; the
\* rest sit out at positions 1, 2, ..., whoever else is a reserve already.
Picked(rank) == {p \in Available : rank[p] =< game.slots}

LineUp(rank) ==
  /\ row' = [p \in People |-> IF p \notin Available THEN row[p]
                              ELSE IF p \in Picked(rank) THEN "in" ELSE "reserve"]
  /\ position' = [p \in People |-> IF p \in Available \ Picked(rank)
                                    THEN rank[p] - game.slots
                                    ELSE position[p]]
  /\ charged' = {}

ApplyRanking(rank) == LineUp(rank) /\ credited' = Picked(rank)

LockRotationIfDue ==
  /\ status = "upcoming"
  /\ Gathering
  /\ game.lockFrom =< clock /\ clock =< Starts
  /\ \E rank \in Rankings(Available) : ApplyRanking(rank)
  /\ locked' = TRUE
  /\ UNCHANGED <<clock, status, game>>
===============================================================================
