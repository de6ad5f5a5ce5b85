----------------------------- MODULE SessionRoster -----------------------------
(***************************************************************************)
(* One session's roster as all of its writers together leave it: taps,     *)
(* rotation, Fourth Call, guest links, knocks and the organiser's          *)
(* settings, interleaved transaction by transaction.                       *)
(***************************************************************************)
EXTENDS FourthCall, GuestSlot, SessionKnock

vars == <<rsvpVars, callVars, guestVars, knockVars>>

Init == RsvpInit /\ CallInit /\ GuestInit /\ KnockInit

Next ==
  \/ RsvpNext /\ UNCHANGED <<callVars, guestVars, knockVars>>
  \/ LockRotationIfDue /\ UNCHANGED <<callVars, guestVars, knockVars>>
  \/ CallNext /\ UNCHANGED <<guestVars, knockVars>>
  \/ GuestNext /\ UNCHANGED <<callVars, knockVars>>
  \/ KnockNext /\ UNCHANGED <<callVars, guestVars>>

Spec == Init /\ [][Next]_vars

\* Every variable has its type; a person has a queue position exactly while
\* they are a reserve (no handler leaves a position on another row).
TypeOK == RsvpTypeOK /\ CallTypeOK /\ GuestTypeOK /\ KnockTypeOK

-------------------------------------------------------------------------------
(* Invariants. *)

\* The first `slots` INs hold a slot and anyone after that queues: rsvpIn, the
\* promotion in rsvpOut, claims, guest holds and accepted knocks together never
\* seat more than the game has slots.
NeverOversubscribed == Cardinality(Confirmed) =< game.slots

\* No member waits in the reserve queue beside an open slot: whoever drops out
\* hands the slot to the queue in the same transaction (rsvpOut).
NoIdleSlot == Reserves \cap Members # {} => ~HasRoom

\* The reserves stand at positions 1..n, the number the app shows them
\* (closeReserveGap after every departure).
QueueContiguous == {position[p] : p \in Reserves} = 1..Cardinality(Reserves)

\* Nobody who declared availability is left undecided once the four are locked,
\* whatever the organiser has since done to the game (lockRotationIfDue,
\* markAvailable's re-check of the lock).
LockedStrandsNobody == locked => Available = {}

\* When every sit-out has had first refusal and the spot is still open inside
\* the call window, the ordinary Fourth Call can reach the silent members.
OffersExhausted == LockedFour /\ Offered # {} /\ Reserves \subseteq Offered /\ LiveOffers = {}

FourthCallTakesOver ==
  /\ OffersExhausted /\ StillOn /\ HasRoom
  /\ FourthFrom =< clock
  /\ \E m \in Members : row[m] = "none" /\ m \notin Called
  => ENABLED CheckFourthCallLevel1

-------------------------------------------------------------------------------
(* Action properties. *)

\* The queue is first come, first served: two people who stay in it keep their
\* order (positions are assigned by rsvpIn, the guest queue and the lock, and
\* shifted by closeReserveGap).
QueueOrderStable ==
  [][\A p, q \in Reserves \cap Reserves' :
       position[p] < position[q] => position'[p] < position'[q]]_vars

\* rsvpInCount counts exactly the people a transaction seats: everyone who
\* comes to hold a slot, by whatever door, and nobody who held one already.
EverySeatCounted == [][credited' = Confirmed' \ Confirmed]_vars

\* Whatever the organiser does to the game once a line-up is locked, a person
\* who waits comes to play only by claiming a spot they were asked to take, a
\* step that moves nobody else, or, when the rotation has been changed under
\* them, as rsvpOut's promotion: the front of the queue, in the place of a player
\* who drops out.  That promotion asks nobody, so the sit-outs are sure of being
\* asked only as long as the game stays a limited rotation.
SeatedByClaimOrInTurn ==
  [][locked =>
       \A q \in Reserves \cap Confirmed' :
         \/ q \in Called \cup LinkHolders /\ \A p \in People \ {q} : row'[p] = row[p]
         \/ /\ ~LockedFour /\ q \in FrontOfQueue
            /\ \E p \in Confirmed : row'[p] = "out"]_vars

\* Whatever the organiser does to the number of slots meanwhile, no transaction
\* adds a player beyond the slots it finds: every door counts what the others,
\* guest holds and swept holds included, have taken.
NoStepOverbooks ==
  [][Cardinality(Confirmed') > Cardinality(Confirmed)
       => Cardinality(Confirmed') =< game.slots]_vars

\* The same once a rotation's line-up is locked, even when it was locked on top
\* of earlier claims and the organiser then changes the rotation.
LateFillFits ==
  [][locked /\ Cardinality(Confirmed') > Cardinality(Confirmed)
       => Cardinality(Confirmed') =< game.slots]_vars

\* A guest who was promoted or named, or whose hold is still running, is not
\* swept away by somebody else's claim.
HeldGuestStays ==
  [][\A g \in Guests : row[g] = "in" /\ (hold[g] = 0 \/ hold[g] >= clock)
       => row'[g] = "in"]_vars

\* Once the game has started no handler touches the roster.
RosterFrozenAfterKickoff == [][clock > Starts => UNCHANGED <<row, position>>]_vars

-------------------------------------------------------------------------------
(* Refinement. *)

\* The reserves in the order of their positions.
WaitingLine == [i \in 1..Cardinality(Reserves) |-> CHOOSE p \in Reserves : position[p] = i]

\* The slots of a game whose settings never change.
FixedSlots == (CHOOSE g \in Games : TRUE).slots

Promise == INSTANCE SlotQueue WITH
  Players <- People, Slots <- FixedSlots, holders <- Confirmed, queue <- WaitingLine

\* A plain game without guest links keeps the promise: all its taps, claims,
\* knocks and calls are steps of the slot queue or leave it alone.
KeepsPromise == Promise!Spec
===============================================================================
