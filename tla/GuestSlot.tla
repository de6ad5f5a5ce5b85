------------------------------- MODULE GuestSlot -------------------------------
(***************************************************************************)
(* Link visitors without an account: a guest claim soft-holds a slot until *)
(* the hold expires or the guest gives a name                              *)
(* (apps/web/src/server/guest.ts).                                         *)
(***************************************************************************)
EXTENDS SessionRsvp

CONSTANT HoldTicks   \* GUEST_HOLD_MS
ASSUME HoldAssumption == HoldTicks \in Nat \ {0}

VARIABLES
  hold,     \* rsvps.holdExpiresAt, 0 for null
  naming,   \* guests between lockGuestName's read of the rsvp and its writes
  named     \* guests lockGuestName has answered "ok"

guestVars == <<hold, naming, named>>

GuestInit ==
  /\ hold = [g \in Guests |-> 0]
  /\ naming = {}
  /\ named = {}

\* Mutant: a hold lapses an instant early.
LapsedEarly == {g \in Guests : row[g] = "in" /\ hold[g] # 0 /\ hold[g] =< clock}

\* sweepExpiredHolds
Lapsed == {g \in Guests : row[g] = "in" /\ hold[g] # 0 /\ hold[g] < clock}

Swept == [p \in People |-> IF p \in Lapsed THEN "out" ELSE row[p]]

\* A fresh guest row is minted for every claim.
Fresh(g) == row[g] = "none"

LinkOpen == status = "upcoming" /\ ~Started

\* Mutant: a slot that is only held does not count as taken.
HoldSlotBesideHolds(g) ==
  /\ Cardinality({p \in Confirmed : p \in Guests => hold[p] = 0}) < game.slots
  /\ row' = [Swept EXCEPT ![g] = "in"]
  /\ hold' = [h \in Guests |-> IF h = g THEN clock + HoldTicks
                               ELSE IF h \in Lapsed THEN 0 ELSE hold[h]]
  /\ credited' = {g}
  /\ charged' = {}

\* No reserve is promoted into a swept slot.
HoldSlot(g) ==
  /\ Cardinality(Confirmed \ Lapsed) < game.slots
  /\ row' = [Swept EXCEPT ![g] = "in"]
  /\ hold' = [h \in Guests |-> IF h = g THEN clock + HoldTicks
                               ELSE IF h \in Lapsed THEN 0 ELSE hold[h]]
  /\ credited' = {g}
  /\ charged' = {}

\* Refused, but the sweep that came first is committed.
RefusedSweep ==
  /\ Cardinality(Confirmed \ Lapsed) >= game.slots
  /\ Lapsed # {}
  /\ row' = Swept
  /\ hold' = [h \in Guests |-> IF h \in Lapsed THEN 0 ELSE hold[h]]
  /\ NobodyCounted

ClaimGuestSlot(g) ==
  /\ LinkOpen
  /\ Fresh(g)
  /\ HoldSlot(g) \/ RefusedSweep
  /\ UNCHANGED <<position, naming, named>>
  /\ UNCHANGED sessionVars

\* Capacity is not looked at: a guest queues beside an open slot too.
JoinGuestReserveQueue(g) ==
  /\ LinkOpen
  /\ Fresh(g)
  /\ JoinQueue(g)
  /\ UNCHANGED guestVars
  /\ UNCHANGED sessionVars

\* lockGuestName takes no lock: another transaction may commit between the read
\* and the writes.  (A guest's first naming; naming again changes nothing here.)
LockGuestNameRead(g) ==
  /\ g \notin naming \cup named
  /\ row[g] \notin {"none", "out"}
  /\ naming' = naming \cup {g}
  /\ NobodyCounted
  /\ UNCHANGED <<hold, named, row, position>>
  /\ UNCHANGED sessionVars

LockGuestNameWrite(g) ==
  /\ g \in naming
  /\ naming' = naming \ {g}
  /\ named' = named \cup {g}
  /\ hold' = [hold EXCEPT ![g] = 0]
  /\ NobodyCounted
  /\ UNCHANGED <<row, position>>
  /\ UNCHANGED sessionVars

GuestNext ==
  \E g \in Guests :
    \/ ClaimGuestSlot(g)
    \/ JoinGuestReserveQueue(g)
    \/ LockGuestNameRead(g)
    \/ LockGuestNameWrite(g)

GuestTypeOK ==
  /\ hold \in [Guests -> Nat]
  /\ naming \subseteq Guests
  /\ named \subseteq Guests
===============================================================================
