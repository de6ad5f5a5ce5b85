------------------------------- MODULE SlotQueue -------------------------------
(***************************************************************************)
(* What the app promises of a Standing Game without rotation: it holds     *)
(* the slots, queues the reserves and promotes the next person in the      *)
(* moment someone drops.                                                   *)
(***************************************************************************)
EXTENDS Integers, FiniteSets, SequencesExt

CONSTANTS
  Players,   \* everyone who may play
  Slots      \* how many play, a positive number

VARIABLES
  holders,   \* who holds a slot
  queue      \* who waits, first come first

slotVars == <<holders, queue>>

Queued == {queue[i] : i \in DOMAIN queue}

Init == holders = {} /\ queue = <<>>

\* A free slot is only ever free when nobody waits.
Take(p) ==
  /\ p \notin holders /\ queue = <<>>
  /\ Cardinality(holders) < Slots
  /\ holders' = holders \cup {p}
  /\ UNCHANGED queue

Wait(p) ==
  /\ p \notin holders \cup Queued
  /\ Cardinality(holders) = Slots
  /\ queue' = Append(queue, p)
  /\ UNCHANGED holders

GiveUpWaiting(p) ==
  /\ \E i \in DOMAIN queue : queue[i] = p /\ queue' = RemoveAt(queue, i)
  /\ UNCHANGED holders

DropOut(p) ==
  /\ p \in holders
  /\ IF queue = <<>>
       THEN holders' = holders \ {p} /\ UNCHANGED queue
       ELSE /\ holders' = (holders \ {p}) \cup {Head(queue)}
            /\ queue' = Tail(queue)

Next == \E p \in Players : Take(p) \/ Wait(p) \/ GiveUpWaiting(p) \/ DropOut(p)

Spec == Init /\ [][Next]_slotVars
===============================================================================
