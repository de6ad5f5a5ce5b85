------------------------- MODULE SessionRoster_proofs -------------------------
(***************************************************************************)
(* Proofs about SessionRoster for every circle, every set of game settings *)
(* and every timeline.                                                     *)
(***************************************************************************)
EXTENDS SessionRoster, FiniteSetTheorems, WellFoundedInduction, TLAPS

-------------------------------------------------------------------------------
(* Facts about the operators the model is built from. *)

\* A finite nonempty set of numbers has a maximum: the elements above x, taken
\* for every x, have a least member, and it is empty.
LEMMA MaxOfNaturals ==
  ASSUME NEW S, S \subseteq Nat, IsFiniteSet(S), S # {}
  PROVE  Max(S) \in S /\ \A y \in S : y =< Max(S)
<1> DEFINE Above(x) == {y \in S : y > x}
           T == {Above(x) : x \in S}
           R == StrictSubsetOrdering(S)
<1>1. T # {} /\ T \subseteq FiniteSubsetsOf(S)
  <2>1. \A x \in S : Above(x) \in SUBSET S
    OBVIOUS
  <2>2. \A x \in S : Above(x) \in FiniteSubsetsOf(S)
    BY <2>1, FS_Subset DEF FiniteSubsetsOf
  <2> QED BY <2>2
<1>2. \E A \in T : \A B \in T : <<B, A>> \notin R
  <2> HIDE DEF T, R
  <2> QED BY <1>1, FS_StrictSubsetOrderingWellFounded, WFMin DEF R
<1>3. PICK x \in S : \A z \in S : <<Above(z), Above(x)>> \notin R
  BY <1>2
<1>4. \A y \in S : x >= y
  <2> SUFFICES ASSUME NEW y \in S, ~(x >= y)
               PROVE  FALSE
      OBVIOUS
  <2>1. y \in Above(x) /\ y \notin Above(y)
    OBVIOUS
  <2>2. \A z \in S : z > y => z > x
    OBVIOUS
  <2>3. Above(y) \subseteq Above(x)
    BY <2>2
  <2> QED BY <2>1, <2>3, <1>3 DEF StrictSubsetOrdering
<1> QED BY <1>4 DEF Max

\* The settings in force are well formed.
LEMMA GameType ==
  ASSUME game \in Games
  PROVE  /\ game \in GameSettings
         /\ game.slots \in Nat \ {0} /\ game.rotation \in RotationMode
BY GamesAssumption DEF GameSettings

\* The sets of people the handlers count are finite.
LEMMA CountsAreNaturals ==
  /\ IsFiniteSet(Confirmed) /\ Cardinality(Confirmed) \in Nat
  /\ IsFiniteSet(Reserves) /\ Cardinality(Reserves) \in Nat
  /\ IsFiniteSet(Available) /\ Cardinality(Available) \in Nat
<1>1. \A S \in SUBSET People : IsFiniteSet(S) /\ Cardinality(S) \in Nat
  BY PeopleAssumption, FS_Subset, FS_CardinalityType
<1> QED BY <1>1 DEF Confirmed, Reserves, Available

\* A new reserve's number is positive and above every number in the queue.
LEMMA NextPositionIsLast ==
  ASSUME RsvpTypeOK
  PROVE  /\ NextPosition \in Nat \ {0}
         /\ \A q \in Reserves : position[q] < NextPosition
<1> DEFINE Numbers == {position[q] : q \in Reserves}
           number == [q \in Reserves |-> position[q]]
<1>1. IsFiniteSet(Numbers)
  <2>1. number \in Surjection(Reserves, Numbers)
    BY DEF Surjection
  <2> QED BY <2>1, CountsAreNaturals, FS_Surjection
<1>2. Numbers \subseteq Nat
  BY DEF RsvpTypeOK, Reserves
<1>3. {0} \cup Numbers \subseteq Nat /\ IsFiniteSet({0} \cup Numbers)
  BY <1>1, <1>2, FS_AddElement
<1>4. /\ Max({0} \cup Numbers) \in Nat
      /\ \A n \in Numbers : n =< Max({0} \cup Numbers)
  BY <1>3, MaxOfNaturals
<1> QED BY <1>4, <1>2 DEF NextPosition

-------------------------------------------------------------------------------
(* Type correctness, action by action. *)

\* What the writes of the taps and claims do to the rsvp rows.
LEMMA TakeSlotType ==
  ASSUME RsvpTypeOK, NEW p \in People, TakeSlot(p), UNCHANGED sessionVars
  PROVE  RsvpTypeOK'
BY DEF RsvpTypeOK, TakeSlot, sessionVars, RowStatus

\* What a new place in the queue does to the rsvp rows.
LEMMA JoinQueueType ==
  ASSUME RsvpTypeOK, NEW p \in People, JoinQueue(p), UNCHANGED sessionVars
  PROVE  RsvpTypeOK'
<1>1. NextPosition \in Nat \ {0}
  BY NextPositionIsLast
<1> QED BY <1>1 DEF RsvpTypeOK, JoinQueue, NobodyCounted, sessionVars, RowStatus

\* Closing a gap keeps every reserve at a positive number: only numbers above
\* the vacated one go down, and the vacated one is positive.
LEMMA GapClosedType ==
  ASSUME RsvpTypeOK, NEW q \in Reserves
  PROVE  /\ GapClosed(position[q]) \in [People -> Nat]
         /\ \A r \in People : GapClosed(position[q])[r] > 0 <=> row[r] = "reserve"
<1>1. position[q] \in Nat /\ position[q] > 0
  BY DEF RsvpTypeOK, Reserves
<1> QED BY <1>1 DEF GapClosed, RsvpTypeOK, Reserves

\* A tap on IN keeps the types.
LEMMA RsvpInType ==
  ASSUME RsvpTypeOK, NEW p \in Members, RsvpIn(p)
  PROVE  RsvpTypeOK'
<1>1. p \in People
  BY DEF People
<1> QED BY <1>1, TakeSlotType, JoinQueueType DEF RsvpIn

\* A tap on OUT keeps them, whoever moves up.
LEMMA RsvpOutType ==
  ASSUME RsvpTypeOK, NEW p \in Members, RsvpOut(p)
  PROVE  RsvpTypeOK'
<1>1. p \in People /\ UNCHANGED sessionVars
  BY DEF People, RsvpOut
<1>2. LateCancel(p) \subseteq Members
  BY DEF LateCancel
<1>3. CASE LeaveQueue(p)
  <2>1. p \in Reserves
    BY <1>1, <1>3 DEF LeaveQueue, Reserves
  <2> QED BY <1>1, <1>3, <2>1, GapClosedType
          DEF LeaveQueue, NobodyCounted, RsvpTypeOK, RowStatus, sessionVars
<1>4. CASE DropOutUnfilled(p)
  BY <1>1, <1>2, <1>4 DEF DropOutUnfilled, LeaveUnfilled, RsvpTypeOK, RowStatus, sessionVars
<1>5. ASSUME NEW q \in People, DropOutPromoting(p, q)
      PROVE  RsvpTypeOK'
  <2>1. q \in Reserves /\ p # q
    BY <1>5 DEF DropOutPromoting, LeaveFilled, FrontOfQueue, Reserves
  <2> QED BY <1>1, <1>2, <1>5, <2>1, GapClosedType
          DEF DropOutPromoting, LeaveFilled, RsvpTypeOK, RowStatus, sessionVars
<1> QED BY <1>3, <1>4, <1>5 DEF RsvpOut

\* So do all other taps, the organiser and time.
LEMMA RsvpNextType ==
  ASSUME RsvpTypeOK, RsvpNext
  PROVE  RsvpTypeOK'
<1>1. ASSUME NEW p \in Members, DeclareAvailable(p)
      PROVE  RsvpTypeOK'
  BY <1>1 DEF DeclareAvailable, NobodyCounted, RsvpTypeOK, RowStatus, sessionVars, People
<1>2. ASSUME NEW p \in Members, MarkUnavailable(p)
      PROVE  RsvpTypeOK'
  BY <1>2 DEF MarkUnavailable, NobodyCounted, RsvpTypeOK, RowStatus, sessionVars, People
<1>3. ASSUME NEW g \in Games, UpdateStandingGame(g)
      PROVE  RsvpTypeOK'
  BY <1>3 DEF UpdateStandingGame, NobodyCounted, RsvpTypeOK
<1>4. CASE EnsureSessionPlayedTransition
  BY <1>4 DEF EnsureSessionPlayedTransition, NobodyCounted, RsvpTypeOK
<1>5. CASE Tick
  BY <1>5, TimeAssumption DEF Tick, NobodyCounted, RsvpTypeOK
<1> QED BY <1>1, <1>2, <1>3, <1>4, <1>5, RsvpInType, RsvpOutType DEF RsvpNext, MarkAvailable

\* The lock hands sit-outs positive numbers: their rank beyond the slots.
LEMMA LockRotationType ==
  ASSUME RsvpTypeOK, LockRotationIfDue
  PROVE  RsvpTypeOK'
<1>1. PICK rank \in Rankings(Available) : ApplyRanking(rank)
  BY DEF LockRotationIfDue
<1>2. game.slots \in Nat
  BY GameType DEF RsvpTypeOK
<1>3. \A p \in Available : rank[p] \in Nat
  BY CountsAreNaturals DEF Rankings
<1>4. position' \in [People -> Nat]
  BY <1>1, <1>2, <1>3 DEF ApplyRanking, LineUp, Picked, RsvpTypeOK
<1>5. row' \in [People -> RowStatus]
  BY <1>1 DEF ApplyRanking, LineUp, RsvpTypeOK, RowStatus
<1>6. ASSUME NEW p \in People
      PROVE  position'[p] > 0 <=> row'[p] = "reserve"
  BY <1>1, <1>2, <1>3 DEF ApplyRanking, LineUp, Picked, Available, RsvpTypeOK
<1>7. credited' \subseteq People /\ charged' \subseteq Members
  BY <1>1 DEF ApplyRanking, LineUp, Picked, Available
<1> QED BY <1>4, <1>5, <1>6, <1>7 DEF LockRotationIfDue, RsvpTypeOK

\* Invitations and claims keep the types.
LEMMA CallNextType ==
  ASSUME RsvpTypeOK, CallTypeOK, CallNext
  PROVE  RsvpTypeOK' /\ CallTypeOK'
<1>1. ASSUME NEW chosen \in SUBSET People, NEW via \in Rings, SendInvites(chosen, via)
      PROVE  RsvpTypeOK' /\ CallTypeOK'
  BY <1>1 DEF SendInvites, Invite, NobodyCounted, RsvpTypeOK, CallTypeOK, sessionVars
<1>2. CASE CheckFourthCallLevel1
  BY <1>1, <1>2 DEF CheckFourthCallLevel1, Rings, People
<1>3. ASSUME NEW chosen \in SUBSET Nearby,
             CheckFourthCallPlayedWith(chosen) \/ CheckFourthCallLocalRing(chosen)
      PROVE  RsvpTypeOK' /\ CallTypeOK'
  BY <1>1, <1>3, RingsAssumption
     DEF CheckFourthCallPlayedWith, CheckFourthCallLocalRing, Rings
<1>4. CASE OfferRotationSlotIfNeeded
  BY <1>1, <1>4 DEF OfferRotationSlotIfNeeded, Rings, Reserves
<1>5. ASSUME NEW p \in People, OfferSpent(p)
      PROVE  RsvpTypeOK' /\ CallTypeOK'
  BY <1>5 DEF OfferSpent, NobodyCounted, RsvpTypeOK, CallTypeOK, sessionVars
<1>6. ASSUME NEW p \in People, ClaimFourthCallSlot(p)
      PROVE  RsvpTypeOK' /\ CallTypeOK'
  BY <1>6, TakeSlotType DEF ClaimFourthCallSlot, CallTypeOK, callVars
<1> QED BY <1>2, <1>3, <1>4, <1>5, <1>6 DEF CallNext

\* Guest links keep the types; a sweep touches nobody in the queue.
LEMMA GuestNextType ==
  ASSUME RsvpTypeOK, GuestTypeOK, GuestNext
  PROVE  RsvpTypeOK' /\ GuestTypeOK'
<1> SUFFICES ASSUME NEW g \in Guests,
                    \/ ClaimGuestSlot(g) \/ JoinGuestReserveQueue(g)
                    \/ LockGuestNameRead(g) \/ LockGuestNameWrite(g)
             PROVE  RsvpTypeOK' /\ GuestTypeOK'
    BY DEF GuestNext
<1>1. g \in People /\ clock \in Nat
  BY TimeAssumption DEF People, RsvpTypeOK
<1>2. CASE ClaimGuestSlot(g)
  <2>1. hold' \in [Guests -> Nat]
    BY <1>1, <1>2, HoldAssumption DEF ClaimGuestSlot, HoldSlot, RefusedSweep, GuestTypeOK
  <2>2. Swept \in [People -> RowStatus] /\ \A p \in People : Swept[p] = "reserve" <=> row[p] = "reserve"
    BY DEF Swept, Lapsed, RsvpTypeOK, RowStatus
  <2>3. row' \in [People -> RowStatus] /\ \A p \in People : row'[p] = "reserve" <=> row[p] = "reserve"
    BY <1>1, <1>2, <2>2 DEF ClaimGuestSlot, HoldSlot, RefusedSweep, Fresh, RowStatus
  <2>4. credited' \subseteq People /\ charged' \subseteq Members
    BY <1>1, <1>2 DEF ClaimGuestSlot, HoldSlot, RefusedSweep, NobodyCounted
  <2> QED BY <1>2, <2>1, <2>3, <2>4 DEF ClaimGuestSlot, RsvpTypeOK, GuestTypeOK, sessionVars
<1>3. CASE JoinGuestReserveQueue(g)
  BY <1>1, <1>3, JoinQueueType DEF JoinGuestReserveQueue, GuestTypeOK, guestVars
<1>4. CASE LockGuestNameRead(g)
  BY <1>4 DEF LockGuestNameRead, NobodyCounted, RsvpTypeOK, GuestTypeOK, sessionVars
<1>5. CASE LockGuestNameWrite(g)
  BY <1>5 DEF LockGuestNameWrite, NobodyCounted, RsvpTypeOK, GuestTypeOK, sessionVars
<1> QED BY <1>2, <1>3, <1>4, <1>5

\* Knocks keep the types.
LEMMA KnockNextType ==
  ASSUME RsvpTypeOK, KnockTypeOK, KnockNext
  PROVE  RsvpTypeOK' /\ KnockTypeOK'
<1> SUFFICES ASSUME NEW p \in Knockers,
                    \/ CreateSessionKnock(p) \/ AcceptKnock(p) \/ DeclineKnock(p)
                    \/ WithdrawKnockRead(p) \/ WithdrawKnockWrite(p)
             PROVE  RsvpTypeOK' /\ KnockTypeOK'
    BY DEF KnockNext
<1>1. p \in People
  BY KnockersAssumption DEF People
<1>2. KnockTypeOK'
  BY DEF CreateSessionKnock, AcceptKnock, DeclineKnock, WithdrawKnockRead, WithdrawKnockWrite,
         SetKnock, KnockTypeOK, KnockStatus
<1>3. CASE AcceptKnock(p)
  BY <1>1, <1>2, <1>3, TakeSlotType DEF AcceptKnock
<1>4. CASE NoRsvpChange
  BY <1>2, <1>4 DEF NoRsvpChange, NobodyCounted, RsvpTypeOK, sessionVars
<1> QED BY <1>3, <1>4
        DEF CreateSessionKnock, DeclineKnock, WithdrawKnockRead, WithdrawKnockWrite

\* Every variable keeps its type, and people have a queue number exactly while
\* they are reserves, for every circle, settings and timeline.
THEOREM TypeCorrect == Spec => []TypeOK
<1>1. Init => TypeOK
  <2> SUFFICES ASSUME Init
               PROVE  TypeOK
      OBVIOUS
  <2>1. RsvpTypeOK
    <3>1. clock \in 0..Ends
      BY TimeAssumption DEF Init, RsvpInit
    <3>2. /\ row = [p \in People |-> "none"] /\ row \in [People -> RowStatus]
          /\ position = [p \in People |-> 0] /\ position \in [People -> Nat]
      BY DEF Init, RsvpInit, RowStatus
    <3>3. \A p \in People : position[p] > 0 <=> row[p] = "reserve"
      BY <3>2
    <3> QED BY <3>1, <3>2, <3>3 DEF Init, RsvpInit, RsvpTypeOK
  <2>2. CallTypeOK /\ GuestTypeOK
    BY DEF Init, CallInit, GuestInit, CallTypeOK, GuestTypeOK
  <2>3. KnockTypeOK
    BY DEF Init, KnockInit, KnockTypeOK, KnockStatus
  <2> QED BY <2>1, <2>2, <2>3 DEF TypeOK
<1>2. TypeOK /\ [Next]_vars => TypeOK'
  <2> SUFFICES ASSUME TypeOK, [Next]_vars
               PROVE  TypeOK'
      OBVIOUS
  <2>1. CASE RsvpNext /\ UNCHANGED <<callVars, guestVars, knockVars>>
    BY <2>1, RsvpNextType
       DEF TypeOK, CallTypeOK, GuestTypeOK, KnockTypeOK, callVars, guestVars, knockVars
  <2>2. CASE LockRotationIfDue /\ UNCHANGED <<callVars, guestVars, knockVars>>
    BY <2>2, LockRotationType
       DEF TypeOK, CallTypeOK, GuestTypeOK, KnockTypeOK, callVars, guestVars, knockVars
  <2>3. CASE CallNext /\ UNCHANGED <<guestVars, knockVars>>
    BY <2>3, CallNextType DEF TypeOK, GuestTypeOK, KnockTypeOK, guestVars, knockVars
  <2>4. CASE GuestNext /\ UNCHANGED <<callVars, knockVars>>
    BY <2>4, GuestNextType DEF TypeOK, CallTypeOK, KnockTypeOK, callVars, knockVars
  <2>5. CASE KnockNext /\ UNCHANGED <<callVars, guestVars>>
    BY <2>5, KnockNextType DEF TypeOK, CallTypeOK, GuestTypeOK, callVars, guestVars
  <2>6. CASE UNCHANGED vars
    BY <2>6 DEF TypeOK, RsvpTypeOK, CallTypeOK, GuestTypeOK, KnockTypeOK,
                vars, rsvpVars, callVars, guestVars, knockVars
  <2> QED BY <2>1, <2>2, <2>3, <2>4, <2>5, <2>6 DEF Next
<1> QED BY <1>1, <1>2, PTL DEF Spec

-------------------------------------------------------------------------------
(* Nobody is stranded by the lock. *)

\* Who is waiting to be picked can only shrink once the line-up is locked, and
\* the lock itself picks or sits out everybody.
LEMMA LockedStaysDecided ==
  ASSUME TypeOK, LockedStrandsNobody, [Next]_vars
  PROVE  LockedStrandsNobody'
<1>1. row \in [People -> RowStatus]
  BY DEF TypeOK, RsvpTypeOK
<1>2. CASE RsvpNext
  <2>1. ASSUME NEW p \in Members, RsvpIn(p)
        PROVE  LockedStrandsNobody'
    BY <1>1, <2>1
       DEF RsvpIn, TakeSlot, JoinQueue, sessionVars, LockedStrandsNobody, Available
  <2>2. ASSUME NEW p \in Members, RsvpOut(p)
        PROVE  LockedStrandsNobody'
    BY <1>1, <2>2
       DEF RsvpOut, LeaveQueue, DropOutUnfilled, LeaveUnfilled, DropOutPromoting, LeaveFilled,
           sessionVars, LockedStrandsNobody, Available
  <2>3. ASSUME NEW p \in Members, DeclareAvailable(p) \/ MarkUnavailable(p)
        PROVE  LockedStrandsNobody'
    BY <2>3 DEF DeclareAvailable, MarkUnavailable, sessionVars, LockedStrandsNobody
  <2>4. CASE (\E g \in Games : UpdateStandingGame(g)) \/ EnsureSessionPlayedTransition \/ Tick
    BY <2>4 DEF UpdateStandingGame, EnsureSessionPlayedTransition, Tick, LockedStrandsNobody,
                Available
  <2> QED BY <1>2, <2>1, <2>2, <2>3, <2>4 DEF RsvpNext, MarkAvailable
<1>3. CASE LockRotationIfDue
  BY <1>1, <1>3
     DEF LockRotationIfDue, ApplyRanking, LineUp, Picked, LockedStrandsNobody, Available
<1>4. CASE CallNext
  BY <1>1, <1>4
     DEF CallNext, CheckFourthCallLevel1, CheckFourthCallPlayedWith, CheckFourthCallLocalRing,
         OfferRotationSlotIfNeeded, SendInvites, OfferSpent, ClaimFourthCallSlot, TakeSlot,
         sessionVars, LockedStrandsNobody, Available
<1>5. CASE GuestNext
  BY <1>1, <1>5
     DEF GuestNext, ClaimGuestSlot, HoldSlot, RefusedSweep, Swept, Lapsed, Fresh,
         JoinGuestReserveQueue, JoinQueue, LockGuestNameRead, LockGuestNameWrite,
         sessionVars, LockedStrandsNobody, Available
<1>6. CASE KnockNext
  BY <1>1, <1>6
     DEF KnockNext, CreateSessionKnock, AcceptKnock, DeclineKnock, WithdrawKnockRead,
         WithdrawKnockWrite, NoRsvpChange, TakeSlot, sessionVars, LockedStrandsNobody, Available
<1>7. CASE UNCHANGED vars
  BY <1>7 DEF vars, rsvpVars, LockedStrandsNobody, Available
<1> QED BY <1>2, <1>3, <1>4, <1>5, <1>6, <1>7 DEF Next

\* Once the four are locked nobody is left merely available, whatever the
\* organiser does to the game afterwards.
THEOREM LockDecidesEverybody == Spec => []LockedStrandsNobody
<1>1. Init => LockedStrandsNobody
  BY DEF Init, RsvpInit, LockedStrandsNobody
<1> QED BY <1>1, LockedStaysDecided, TypeCorrect, PTL DEF Spec

-------------------------------------------------------------------------------
(* No step overbooks while nobody is merely available. *)

StepFits ==
  Cardinality(Confirmed') > Cardinality(Confirmed) => Cardinality(Confirmed') =< game.slots

\* Seating one more player in a game with room fits.
LEMMA SeatingOneFits ==
  ASSUME TypeOK, NEW p \in People, HasRoom, TakeSlot(p)
  PROVE  StepFits
<1>1. Confirmed' \subseteq Confirmed \cup {p}
  BY DEF TypeOK, RsvpTypeOK, TakeSlot, Confirmed
<1>2. /\ IsFiniteSet(Confirmed \cup {p})
      /\ Cardinality(Confirmed \cup {p}) =< Cardinality(Confirmed) + 1
      /\ Cardinality(Confirmed \cup {p}) \in Nat
  BY CountsAreNaturals, FS_AddElement
<1>3. Cardinality(Confirmed') \in Nat /\ Cardinality(Confirmed') =< Cardinality(Confirmed) + 1
  BY <1>1, <1>2, FS_Subset, FS_CardinalityType, CountsAreNaturals
<1>4. game.slots \in Nat
  BY GameType DEF TypeOK, RsvpTypeOK
<1> QED BY <1>3, <1>4, CountsAreNaturals DEF StepFits, HasRoom

\* Seating nobody fits.
LEMMA SeatingNobodyFits ==
  ASSUME Confirmed' \subseteq Confirmed
  PROVE  StepFits
<1>1. Cardinality(Confirmed') \in Nat /\ Cardinality(Confirmed') =< Cardinality(Confirmed)
  BY FS_Subset, FS_CardinalityType, CountsAreNaturals
<1> QED BY <1>1, CountsAreNaturals DEF StepFits

\* Replacing a player who held a slot fits.
LEMMA SwappingFits ==
  ASSUME NEW p \in Confirmed, NEW q, Confirmed' \subseteq (Confirmed \ {p}) \cup {q}
  PROVE  StepFits
<1>1. /\ IsFiniteSet(Confirmed \ {p})
      /\ Cardinality(Confirmed \ {p}) = Cardinality(Confirmed) - 1
  BY CountsAreNaturals, FS_RemoveElement
<1>2. /\ IsFiniteSet((Confirmed \ {p}) \cup {q})
      /\ Cardinality((Confirmed \ {p}) \cup {q}) \in
           {Cardinality(Confirmed \ {p}), Cardinality(Confirmed \ {p}) + 1}
  BY <1>1, FS_AddElement
<1>3. Cardinality(Confirmed') \in Nat /\ Cardinality(Confirmed') =< Cardinality(Confirmed)
  BY <1>1, <1>2, FS_Subset, FS_CardinalityType, CountsAreNaturals
<1> QED BY <1>3, CountsAreNaturals DEF StepFits

\* A guest's hold counts the players who stay after the sweep.
LEMMA HoldingFits ==
  ASSUME TypeOK, NEW g \in Guests, ClaimGuestSlot(g)
  PROVE  StepFits
<1>1. row \in [People -> RowStatus] /\ g \in People
  BY DEF TypeOK, RsvpTypeOK, People
<1>2. CASE RefusedSweep
  BY <1>1, <1>2, SeatingNobodyFits DEF RefusedSweep, Swept, Confirmed
<1>3. CASE HoldSlot(g)
  <2> DEFINE staying == Confirmed \ Lapsed
  <2>1. Confirmed' \subseteq staying \cup {g}
    BY <1>1, <1>3 DEF HoldSlot, Swept, Confirmed
  <2>2. IsFiniteSet(staying) /\ Cardinality(staying) \in Nat
    BY CountsAreNaturals, FS_Difference, FS_CardinalityType
  <2>3. /\ IsFiniteSet(staying \cup {g})
        /\ Cardinality(staying \cup {g}) \in {Cardinality(staying), Cardinality(staying) + 1}
    <3> HIDE DEF staying
    <3> QED BY <2>2, FS_AddElement
  <2>4. Cardinality(Confirmed') \in Nat /\ Cardinality(Confirmed') =< Cardinality(staying) + 1
    BY <2>1, <2>2, <2>3, FS_Subset, FS_CardinalityType
  <2>5. game.slots \in Nat /\ Cardinality(staying) < game.slots
    BY <1>3, GameType DEF TypeOK, RsvpTypeOK, HoldSlot
  <2> QED BY <2>2, <2>4, <2>5 DEF StepFits
<1> QED BY <1>2, <1>3 DEF ClaimGuestSlot

\* While nobody is merely available, no transaction adds a player beyond the
\* slots it finds.
LEMMA EveryStepFits ==
  ASSUME TypeOK, Available = {}, [Next]_vars
  PROVE  StepFits
<1>1. row \in [People -> RowStatus] /\ Members \subseteq People
  BY DEF TypeOK, RsvpTypeOK, People
<1>2. CASE RsvpNext
  <2>1. ASSUME NEW p \in Members, RsvpIn(p)
        PROVE  StepFits
    <3>1. CASE HasRoom /\ TakeSlot(p)
      BY <1>1, <3>1, SeatingOneFits
    <3>2. CASE JoinQueue(p)
      BY <1>1, <3>2, SeatingNobodyFits DEF JoinQueue, Confirmed
    <3> QED BY <2>1, <3>1, <3>2 DEF RsvpIn
  <2>2. ASSUME NEW p \in Members, RsvpOut(p)
        PROVE  StepFits
    <3>1. CASE LeaveQueue(p) \/ DropOutUnfilled(p)
      BY <1>1, <3>1, SeatingNobodyFits DEF LeaveQueue, DropOutUnfilled, LeaveUnfilled, Confirmed
    <3>2. ASSUME NEW q \in People, DropOutPromoting(p, q)
          PROVE  StepFits
      <4>1. p \in Confirmed
        BY <1>1, <3>2 DEF DropOutPromoting, LeaveFilled, Confirmed, Available
      <4>2. Confirmed' \subseteq (Confirmed \ {p}) \cup {q}
        BY <1>1, <3>2 DEF DropOutPromoting, LeaveFilled, FrontOfQueue, Reserves, Confirmed
      <4> QED BY <4>1, <4>2, SwappingFits
    <3> QED BY <2>2, <3>1, <3>2 DEF RsvpOut
  <2>3. ASSUME NEW p \in Members, DeclareAvailable(p) \/ MarkUnavailable(p)
        PROVE  StepFits
    BY <1>1, <2>3, SeatingNobodyFits DEF DeclareAvailable, MarkUnavailable, Confirmed
  <2>4. CASE (\E g \in Games : UpdateStandingGame(g)) \/ EnsureSessionPlayedTransition \/ Tick
    BY <2>4, SeatingNobodyFits
       DEF UpdateStandingGame, EnsureSessionPlayedTransition, Tick, Confirmed
  <2> QED BY <1>2, <2>1, <2>2, <2>3, <2>4 DEF RsvpNext, MarkAvailable
<1>3. CASE LockRotationIfDue
  BY <1>1, <1>3, SeatingNobodyFits
     DEF LockRotationIfDue, ApplyRanking, LineUp, Confirmed
<1>4. CASE CallNext
  <2>1. ASSUME NEW p \in People, ClaimFourthCallSlot(p)
        PROVE  StepFits
    BY <2>1, SeatingOneFits DEF ClaimFourthCallSlot
  <2>2. CASE UNCHANGED row
    BY <2>2, SeatingNobodyFits DEF Confirmed
  <2> QED BY <1>4, <2>1, <2>2
          DEF CallNext, CheckFourthCallLevel1, CheckFourthCallPlayedWith,
              CheckFourthCallLocalRing, OfferRotationSlotIfNeeded, SendInvites, OfferSpent
<1>5. ASSUME NEW g \in Guests,
             \/ ClaimGuestSlot(g) \/ JoinGuestReserveQueue(g)
             \/ LockGuestNameRead(g) \/ LockGuestNameWrite(g)
      PROVE  StepFits
  <2>1. CASE JoinGuestReserveQueue(g)
    BY <1>1, <2>1, SeatingNobodyFits DEF JoinGuestReserveQueue, JoinQueue, Confirmed
  <2>2. CASE UNCHANGED row
    BY <2>2, SeatingNobodyFits DEF Confirmed
  <2> QED BY <1>5, <2>1, <2>2, HoldingFits DEF LockGuestNameRead, LockGuestNameWrite
<1>6. ASSUME NEW p \in Knockers,
             \/ CreateSessionKnock(p) \/ AcceptKnock(p) \/ DeclineKnock(p)
             \/ WithdrawKnockRead(p) \/ WithdrawKnockWrite(p)
      PROVE  StepFits
  <2>1. CASE AcceptKnock(p)
    BY <2>1, SeatingOneFits, KnockersAssumption DEF AcceptKnock, People
  <2>2. CASE UNCHANGED row
    BY <2>2, SeatingNobodyFits DEF Confirmed
  <2> QED BY <1>6, <2>1, <2>2
          DEF CreateSessionKnock, DeclineKnock, WithdrawKnockRead, WithdrawKnockWrite, NoRsvpChange
<1>7. CASE UNCHANGED vars
  BY <1>7, SeatingNobodyFits DEF vars, rsvpVars, Confirmed
<1> QED BY <1>2, <1>3, <1>4, <1>5, <1>6, <1>7 DEF Next, GuestNext, KnockNext

\* Once a rotation's line-up is locked no transaction adds a player beyond the
\* slots, whatever happened before the lock and whatever the organiser changes.
THEOREM LockedGameFits == Spec => LateFillFits
<1>1. TypeOK /\ LockedStrandsNobody /\ [Next]_vars
        => [locked /\ Cardinality(Confirmed') > Cardinality(Confirmed)
              => Cardinality(Confirmed') =< game.slots]_vars
  BY EveryStepFits DEF LockedStrandsNobody, StepFits
<1> QED BY <1>1, TypeCorrect, LockDecidesEverybody, PTL DEF Spec, LateFillFits

-------------------------------------------------------------------------------
(* A game without rotation. *)

NeverRotates == \A g \in Games : g.rotation = "off"
NeverResized == \A g, h \in Games : g.slots = h.slots

\* Without rotation nobody ever is merely available.
LEMMA NobodyMerelyAvailable ==
  ASSUME NeverRotates
  PROVE  Spec => [](Available = {})
<1>1. Init => Available = {}
  BY DEF Init, RsvpInit, Available
<1>2. TypeOK /\ Available = {} /\ [Next]_vars => (Available = {})'
  <2> SUFFICES ASSUME TypeOK, Available = {}, [Next]_vars
               PROVE  Available' = {}
      OBVIOUS
  <2>1. row \in [People -> RowStatus] /\ game.rotation = "off"
    BY DEF NeverRotates, TypeOK, RsvpTypeOK
  <2>2. CASE RsvpNext
    <3>1. ASSUME NEW p \in Members, RsvpIn(p) \/ RsvpOut(p)
          PROVE  Available' = {}
      BY <2>1, <3>1
         DEF RsvpIn, TakeSlot, JoinQueue, RsvpOut, LeaveQueue, DropOutUnfilled, LeaveUnfilled,
             DropOutPromoting, LeaveFilled, Available
    <3> QED BY <2>1, <2>2, <3>1
            DEF RsvpNext, MarkAvailable, DeclareAvailable, MarkUnavailable, UpdateStandingGame,
                EnsureSessionPlayedTransition, Tick, Available
  <2>3. CASE LockRotationIfDue
    BY <2>1, <2>3 DEF LockRotationIfDue, Gathering
  <2>4. CASE CallNext
    BY <2>1, <2>4
       DEF CallNext, CheckFourthCallLevel1, CheckFourthCallPlayedWith, CheckFourthCallLocalRing,
           OfferRotationSlotIfNeeded, SendInvites, OfferSpent, ClaimFourthCallSlot, TakeSlot,
           Available
  <2>5. CASE GuestNext
    BY <2>1, <2>5
       DEF GuestNext, ClaimGuestSlot, HoldSlot, RefusedSweep, Swept, Lapsed, Fresh,
           JoinGuestReserveQueue, JoinQueue, LockGuestNameRead, LockGuestNameWrite, Available
  <2>6. CASE KnockNext
    BY <2>1, <2>6
       DEF KnockNext, CreateSessionKnock, AcceptKnock, DeclineKnock, WithdrawKnockRead,
           WithdrawKnockWrite, NoRsvpChange, TakeSlot, Available
  <2>7. CASE UNCHANGED vars
    BY <2>7 DEF vars, rsvpVars, Available
  <2> QED BY <2>2, <2>3, <2>4, <2>5, <2>6, <2>7 DEF Next
<1> QED BY <1>1, <1>2, TypeCorrect, PTL DEF Spec

\* However many guests, calls and knocks compete with the members' taps, and
\* however often the organiser resizes the game, no transaction overbooks it.
THEOREM PlainGameNeverOverbooks ==
  ASSUME NeverRotates
  PROVE  Spec => NoStepOverbooks
<1>1. TypeOK /\ Available = {} /\ [Next]_vars
        => [Cardinality(Confirmed') > Cardinality(Confirmed)
              => Cardinality(Confirmed') =< game.slots]_vars
  BY EveryStepFits DEF StepFits
<1> QED BY <1>1, TypeCorrect, NobodyMerelyAvailable, PTL DEF Spec, NoStepOverbooks

\* A plain game that is never resized never seats more than its slots.
THEOREM PlainGameNeverOversubscribed ==
  ASSUME NeverRotates, NeverResized
  PROVE  Spec => []NeverOversubscribed
<1>1. Init => NeverOversubscribed
  <2> SUFFICES ASSUME Init
               PROVE  NeverOversubscribed
      OBVIOUS
  <2>1. Confirmed = {} /\ game \in Games
    BY DEF Init, RsvpInit, Confirmed
  <2> QED BY <2>1, GameType, FS_EmptySet DEF NeverOversubscribed
<1>2. /\ TypeOK /\ TypeOK' /\ Available = {} /\ NeverOversubscribed /\ [Next]_vars
      => NeverOversubscribed'
  <2> SUFFICES ASSUME TypeOK, TypeOK', Available = {}, NeverOversubscribed, [Next]_vars
               PROVE  NeverOversubscribed'
      OBVIOUS
  <2>1. game'.slots = game.slots
    BY DEF NeverResized, TypeOK, RsvpTypeOK
  <2>2. game.slots \in Nat
    BY GameType DEF TypeOK, RsvpTypeOK
  <2>3. Cardinality(Confirmed') \in Nat
    BY PeopleAssumption, FS_Subset, FS_CardinalityType DEF Confirmed
  <2> QED BY <2>1, <2>2, <2>3, EveryStepFits, CountsAreNaturals DEF StepFits, NeverOversubscribed
<1> QED BY <1>1, <1>2, TypeCorrect, NobodyMerelyAvailable, PTL DEF Spec

-------------------------------------------------------------------------------
(* What nobody may do to somebody else's place. *)

\* A guest who was promoted or named, or whose hold is running, leaves the
\* line-up by nobody's action: taps are the members' own, promotions and the
\* lock touch reserves and available members, and a sweep takes lapsed holds.
THEOREM GuestsKeepTheirHold == Spec => HeldGuestStays
<1>1. TypeOK /\ [Next]_vars
        => [\A g \in Guests : row[g] = "in" /\ (hold[g] = 0 \/ hold[g] >= clock)
              => row'[g] = "in"]_vars
  <2> SUFFICES ASSUME TypeOK, Next, NEW g \in Guests,
                      row[g] = "in", hold[g] = 0 \/ hold[g] >= clock
               PROVE  row'[g] = "in"
      OBVIOUS
  <2>1. /\ row \in [People -> RowStatus] /\ g \in People /\ g \notin Members
        /\ hold[g] \in Nat /\ clock \in Nat /\ g \notin Lapsed
    BY PeopleAssumption, TimeAssumption
       DEF TypeOK, RsvpTypeOK, GuestTypeOK, People, Lapsed
  <2>2. CASE RsvpNext
    <3>1. ASSUME NEW p \in Members, RsvpIn(p) \/ RsvpOut(p)
          PROVE  row'[g] = "in"
      BY <2>1, <3>1
         DEF RsvpIn, TakeSlot, JoinQueue, RsvpOut, LeaveQueue, DropOutUnfilled, LeaveUnfilled,
             DropOutPromoting, LeaveFilled
    <3> QED BY <2>1, <2>2, <3>1
            DEF RsvpNext, MarkAvailable, DeclareAvailable, MarkUnavailable, UpdateStandingGame,
                EnsureSessionPlayedTransition, Tick
  <2>3. CASE LockRotationIfDue
    BY <2>1, <2>3 DEF LockRotationIfDue, ApplyRanking, LineUp, Available
  <2>4. CASE CallNext
    BY <2>1, <2>4
       DEF CallNext, CheckFourthCallLevel1, CheckFourthCallPlayedWith, CheckFourthCallLocalRing,
           OfferRotationSlotIfNeeded, SendInvites, OfferSpent, ClaimFourthCallSlot, TakeSlot
  <2>5. CASE GuestNext
    BY <2>1, <2>5
       DEF GuestNext, ClaimGuestSlot, HoldSlot, RefusedSweep, Swept, Fresh,
           JoinGuestReserveQueue, JoinQueue, LockGuestNameRead, LockGuestNameWrite
  <2>6. CASE KnockNext
    BY <2>1, <2>6
       DEF KnockNext, CreateSessionKnock, AcceptKnock, DeclineKnock, WithdrawKnockRead,
           WithdrawKnockWrite, NoRsvpChange, TakeSlot
  <2> QED BY <2>2, <2>3, <2>4, <2>5, <2>6 DEF Next
<1> QED BY <1>1, TypeCorrect, PTL DEF Spec, HeldGuestStays

\* Outsiders are never queued: they come in by claims and accepted knocks only.
OutsidersNeverWait == \A p \in Outsiders : row[p] \notin {"reserve", "available"}

\* An outsider's row is written by a claim or an accepted knock, straight to 'in'.
LEMMA OutsidersComeInDirectly == Spec => []OutsidersNeverWait
<1>1. Init => OutsidersNeverWait
  BY DEF Init, RsvpInit, OutsidersNeverWait, People
<1>2. TypeOK /\ OutsidersNeverWait /\ [Next]_vars => OutsidersNeverWait'
  <2> SUFFICES ASSUME TypeOK, OutsidersNeverWait, [Next]_vars, NEW o \in Outsiders
               PROVE  row'[o] \notin {"reserve", "available"}
      BY DEF OutsidersNeverWait
  <2>1. /\ row \in [People -> RowStatus] /\ o \in People /\ o \notin Members \cup Guests
        /\ row[o] \notin {"reserve", "available"}
    BY PeopleAssumption DEF TypeOK, RsvpTypeOK, People, OutsidersNeverWait
  <2>2. CASE RsvpNext
    <3>1. ASSUME NEW p \in Members, RsvpIn(p) \/ RsvpOut(p)
          PROVE  row'[o] \notin {"reserve", "available"}
      BY <2>1, <3>1
         DEF RsvpIn, TakeSlot, JoinQueue, RsvpOut, LeaveQueue, DropOutUnfilled, LeaveUnfilled,
             DropOutPromoting, LeaveFilled
    <3> QED BY <2>1, <2>2, <3>1
            DEF RsvpNext, MarkAvailable, DeclareAvailable, MarkUnavailable, UpdateStandingGame,
                EnsureSessionPlayedTransition, Tick
  <2>3. CASE LockRotationIfDue
    BY <2>1, <2>3 DEF LockRotationIfDue, ApplyRanking, LineUp, Available
  <2>4. CASE CallNext
    BY <2>1, <2>4
       DEF CallNext, CheckFourthCallLevel1, CheckFourthCallPlayedWith, CheckFourthCallLocalRing,
           OfferRotationSlotIfNeeded, SendInvites, OfferSpent, ClaimFourthCallSlot, TakeSlot
  <2>5. CASE GuestNext
    BY <2>1, <2>5
       DEF GuestNext, ClaimGuestSlot, HoldSlot, RefusedSweep, Swept, Lapsed, Fresh,
           JoinGuestReserveQueue, JoinQueue, LockGuestNameRead, LockGuestNameWrite
  <2>6. CASE KnockNext
    BY <2>1, <2>6
       DEF KnockNext, CreateSessionKnock, AcceptKnock, DeclineKnock, WithdrawKnockRead,
           WithdrawKnockWrite, NoRsvpChange, TakeSlot
  <2>7. CASE UNCHANGED vars
    BY <2>1, <2>7 DEF vars, rsvpVars
  <2> QED BY <2>2, <2>3, <2>4, <2>5, <2>6, <2>7 DEF Next
<1> QED BY <1>1, <1>2, TypeCorrect, PTL DEF Spec

\* Once a line-up is locked the ways from the queue into the players are the
\* waiting person's own claim and, after a change of the rotation, the turn that
\* comes when a player drops out (rsvpOut).
THEOREM LateSeatsAreClaimedOrInTurn == Spec => SeatedByClaimOrInTurn
<1>1. TypeOK /\ OutsidersNeverWait /\ LockedStrandsNobody /\ [Next]_vars
        => [locked =>
              \A q \in Reserves \cap Confirmed' :
                \/ q \in Called \cup LinkHolders /\ \A p \in People \ {q} : row'[p] = row[p]
                \/ /\ ~LockedFour /\ q \in FrontOfQueue
                   /\ \E p \in Confirmed : row'[p] = "out"]_vars
  <2> DEFINE Claims(q) == /\ q \in Called \cup LinkHolders
                          /\ \A p \in People \ {q} : row'[p] = row[p]
             InTurn(q) == /\ ~LockedFour /\ q \in FrontOfQueue
                          /\ \E p \in Confirmed : row'[p] = "out"
  <2> SUFFICES ASSUME TypeOK, OutsidersNeverWait, LockedStrandsNobody, Next, locked,
                      NEW q \in People, row[q] = "reserve", row'[q] = "in"
               PROVE  Claims(q) \/ InTurn(q)
      BY DEF Reserves, Confirmed
  <2>1. /\ row \in [People -> RowStatus] /\ q \notin Outsiders /\ ~Gathering
        /\ \A p \in People : row[p] # "available"
    BY DEF TypeOK, RsvpTypeOK, OutsidersNeverWait, LockedStrandsNobody, Available, Gathering
  <2>2. CASE RsvpNext
    <3>1. ASSUME NEW p \in Members, NEW r \in People, DropOutPromoting(p, r)
          PROVE  InTurn(q)
      <4>1. /\ ~LockedFour /\ r \in FrontOfQueue /\ p \in People /\ row[p] = "in"
            /\ row' = [row EXCEPT ![p] = "out", ![r] = "in"]
        BY <2>1, <3>1 DEF DropOutPromoting, LeaveFilled, People
      <4>2. r = q /\ p # r /\ p \in Confirmed
        BY <2>1, <4>1 DEF FrontOfQueue, Reserves, Confirmed
      <4> QED BY <2>1, <4>1, <4>2
    <3>2. ASSUME NEW p \in Members, RsvpIn(p) \/ LeaveQueue(p) \/ DropOutUnfilled(p)
          PROVE  FALSE
      BY <2>1, <3>2
         DEF RsvpIn, TakeSlot, JoinQueue, LeaveQueue, DropOutUnfilled, LeaveUnfilled
    <3> HIDE DEF InTurn
    <3> QED BY <2>1, <2>2, <3>1, <3>2
            DEF RsvpNext, RsvpOut, MarkAvailable, DeclareAvailable, MarkUnavailable,
                UpdateStandingGame, EnsureSessionPlayedTransition, Tick
  <2> HIDE DEF InTurn
  <2>3. CASE LockRotationIfDue
    BY <2>1, <2>3 DEF LockRotationIfDue
  <2>4. CASE CallNext
    BY <2>1, <2>4
       DEF CallNext, CheckFourthCallLevel1, CheckFourthCallPlayedWith, CheckFourthCallLocalRing,
           OfferRotationSlotIfNeeded, SendInvites, OfferSpent, ClaimFourthCallSlot, TakeSlot
  <2>5. CASE GuestNext
    BY <2>1, <2>5
       DEF GuestNext, ClaimGuestSlot, HoldSlot, RefusedSweep, Swept, Lapsed, Fresh,
           JoinGuestReserveQueue, JoinQueue, LockGuestNameRead, LockGuestNameWrite
  <2>6. CASE KnockNext
    BY <2>1, <2>6, KnockersAssumption
       DEF KnockNext, CreateSessionKnock, AcceptKnock, DeclineKnock, WithdrawKnockRead,
           WithdrawKnockWrite, NoRsvpChange, TakeSlot
  <2> QED BY <2>2, <2>3, <2>4, <2>5, <2>6 DEF Next
<1> QED BY <1>1, TypeCorrect, OutsidersComeInDirectly, LockDecidesEverybody, PTL
        DEF Spec, SeatedByClaimOrInTurn

-------------------------------------------------------------------------------
(* The order of the queue in a game without rotation. *)

\* No two reserves hold the same number.
DistinctNumbers == \A q, r \in Reserves : position[q] = position[r] => q = r

\* The order of those who stay and the distinctness of their numbers survive a
\* step that leaves the numbers alone, a new number at the end, and the closing
\* of a gap.
QueueKept ==
  /\ DistinctNumbers'
  /\ \A q, r \in Reserves \cap Reserves' :
       position[q] < position[r] => position'[q] < position'[r]

\* A step that only takes people out of the queue.
LEMMA NumbersUntouched ==
  ASSUME DistinctNumbers, Reserves' \subseteq Reserves,
         \A r \in Reserves' : position'[r] = position[r]
  PROVE  QueueKept
BY DEF QueueKept, DistinctNumbers

\* A newcomer at the end of the queue.
LEMMA NumberAppended ==
  ASSUME RsvpTypeOK, DistinctNumbers, NEW p \in People, row[p] # "reserve", JoinQueue(p)
  PROVE  QueueKept
<1>1. /\ Reserves' = Reserves \cup {p} /\ p \notin Reserves
      /\ position'[p] = NextPosition /\ \A r \in Reserves : position'[r] = position[r]
  BY DEF RsvpTypeOK, JoinQueue, Reserves
<1>2. \A r \in Reserves : position[r] \in Nat /\ position[r] < NextPosition
  BY NextPositionIsLast DEF RsvpTypeOK, Reserves
<1>3. NextPosition \in Nat
  BY NextPositionIsLast
<1> QED BY <1>1, <1>2, <1>3 DEF QueueKept, DistinctNumbers

\* A departure that closes its gap: nobody else stood at the vacated number.
LEMMA GapClosedInOrder ==
  ASSUME RsvpTypeOK, DistinctNumbers, NEW q \in Reserves, Reserves' = Reserves \ {q},
         \A r \in Reserves \ {q} : position'[r] = GapClosed(position[q])[r]
  PROVE  QueueKept
<1>1. \A r \in Reserves : position[r] \in Nat
  BY DEF RsvpTypeOK, Reserves
<1>2. \A r \in Reserves \ {q} :
        /\ position[r] # position[q]
        /\ position'[r] = IF position[r] > position[q] THEN position[r] - 1 ELSE position[r]
  BY DEF DistinctNumbers, GapClosed, Reserves
<1> QED BY <1>1, <1>2 DEF QueueKept, DistinctNumbers

\* Whatever happens to a game without rotation keeps the queue in order: guests
\* who queue beside an open slot and reserves who claim past the queue included.
LEMMA EveryStepKeepsTheQueue ==
  ASSUME NeverRotates, TypeOK, DistinctNumbers, [Next]_vars
  PROVE  QueueKept
<1>1. /\ RsvpTypeOK /\ row \in [People -> RowStatus] /\ position \in [People -> Nat]
      /\ Members \subseteq People /\ game.rotation = "off"
  BY DEF NeverRotates, TypeOK, RsvpTypeOK, People
<1>2. ASSUME NEW p \in People, TakeSlot(p)
      PROVE  QueueKept
  <2>1. Reserves' \subseteq Reserves /\ \A r \in Reserves' : position'[r] = position[r]
    BY <1>1, <1>2 DEF TakeSlot, Reserves
  <2> QED BY <2>1, NumbersUntouched
<1>3. ASSUME UNCHANGED <<row, position>>
      PROVE  QueueKept
  BY <1>3, NumbersUntouched DEF Reserves
<1>4. CASE RsvpNext
  <2>1. ASSUME NEW p \in Members, RsvpIn(p)
        PROVE  QueueKept
    BY <1>1, <1>2, <2>1, NumberAppended DEF RsvpIn
  <2>2. ASSUME NEW p \in Members, RsvpOut(p)
        PROVE  QueueKept
    <3>1. CASE LeaveQueue(p)
      <4>1. /\ p \in Reserves /\ Reserves' = Reserves \ {p}
            /\ \A r \in Reserves \ {p} : position'[r] = GapClosed(position[p])[r]
        BY <1>1, <3>1 DEF LeaveQueue, GapClosed, Reserves
      <4> QED BY <1>1, <4>1, GapClosedInOrder
    <3>2. CASE DropOutUnfilled(p)
      <4>1. Reserves' \subseteq Reserves /\ \A r \in Reserves' : position'[r] = position[r]
        BY <1>1, <3>2 DEF DropOutUnfilled, LeaveUnfilled, Reserves
      <4> QED BY <4>1, NumbersUntouched
    <3>3. ASSUME NEW q \in People, DropOutPromoting(p, q)
          PROVE  QueueKept
      <4>1. /\ q \in Reserves /\ Reserves' = Reserves \ {q}
            /\ \A r \in Reserves \ {q} : position'[r] = GapClosed(position[q])[r]
        BY <1>1, <3>3 DEF DropOutPromoting, LeaveFilled, FrontOfQueue, GapClosed, Reserves
      <4> QED BY <1>1, <4>1, GapClosedInOrder
    <3> QED BY <2>2, <3>1, <3>2, <3>3 DEF RsvpOut
  <2>3. CASE (\E g \in Games : UpdateStandingGame(g)) \/ EnsureSessionPlayedTransition \/ Tick
    BY <1>3, <2>3 DEF UpdateStandingGame, EnsureSessionPlayedTransition, Tick
  <2> QED BY <1>1, <1>4, <2>1, <2>2, <2>3
          DEF RsvpNext, MarkAvailable, LockedFour, DeclareAvailable, MarkUnavailable
<1>5. CASE LockRotationIfDue
  BY <1>1, <1>5 DEF LockRotationIfDue, Gathering
<1>6. CASE CallNext
  BY <1>2, <1>3, <1>6
     DEF CallNext, CheckFourthCallLevel1, CheckFourthCallPlayedWith, CheckFourthCallLocalRing,
         OfferRotationSlotIfNeeded, SendInvites, OfferSpent, ClaimFourthCallSlot
<1>7. ASSUME NEW g \in Guests,
             \/ ClaimGuestSlot(g) \/ JoinGuestReserveQueue(g)
             \/ LockGuestNameRead(g) \/ LockGuestNameWrite(g)
      PROVE  QueueKept
  <2>1. g \in People
    BY DEF People
  <2>2. CASE ClaimGuestSlot(g)
    <3>1. Reserves' \subseteq Reserves /\ position' = position
      BY <1>1, <2>1, <2>2
         DEF ClaimGuestSlot, HoldSlot, RefusedSweep, Swept, Reserves
    <3> QED BY <3>1, NumbersUntouched
  <2>3. CASE JoinGuestReserveQueue(g)
    BY <1>1, <2>1, <2>3, NumberAppended DEF JoinGuestReserveQueue, Fresh
  <2> QED BY <1>3, <1>7, <2>2, <2>3 DEF LockGuestNameRead, LockGuestNameWrite
<1>8. ASSUME NEW p \in Knockers,
             \/ CreateSessionKnock(p) \/ AcceptKnock(p) \/ DeclineKnock(p)
             \/ WithdrawKnockRead(p) \/ WithdrawKnockWrite(p)
      PROVE  QueueKept
  BY <1>2, <1>3, <1>8, KnockersAssumption
     DEF CreateSessionKnock, AcceptKnock, DeclineKnock, WithdrawKnockRead, WithdrawKnockWrite,
         NoRsvpChange, People
<1>9. CASE UNCHANGED vars
  BY <1>3, <1>9 DEF vars, rsvpVars
<1> QED BY <1>4, <1>5, <1>6, <1>7, <1>8, <1>9 DEF Next, GuestNext, KnockNext

\* Without rotation the queue is first come, first served, however often the
\* game is resized and whoever claims past it.
THEOREM PlainQueueIsFair ==
  ASSUME NeverRotates
  PROVE  Spec => QueueOrderStable
<1>1. Init => DistinctNumbers
  BY DEF Init, RsvpInit, DistinctNumbers, Reserves
<1>2. TypeOK /\ DistinctNumbers /\ [Next]_vars => DistinctNumbers'
  BY EveryStepKeepsTheQueue DEF QueueKept
<1>3. TypeOK /\ DistinctNumbers /\ [Next]_vars
        => [\A p, q \in Reserves \cap Reserves' :
              position[p] < position[q] => position'[p] < position'[q]]_vars
  BY EveryStepKeepsTheQueue DEF QueueKept
<1> QED BY <1>1, <1>2, <1>3, TypeCorrect, PTL DEF Spec, QueueOrderStable

-------------------------------------------------------------------------------
(* The queue of a game without rotation, resizing or guest links. *)

\* Contiguous numbers are distinct numbers.
LEMMA ContiguousIsDistinct ==
  ASSUME TypeOK, QueueContiguous, NEW q \in Reserves, NEW r \in Reserves,
         position[q] = position[r]
  PROVE  q = r
<1> DEFINE number == [p \in Reserves |-> position[p]]
<1>1. number \in Surjection(Reserves, 1..Cardinality(Reserves))
  BY DEF QueueContiguous, Surjection
<1>2. Cardinality(1..Cardinality(Reserves)) = Cardinality(Reserves)
  BY CountsAreNaturals, FS_Interval
<1>3. number \in Injection(Reserves, 1..Cardinality(Reserves))
  BY <1>1, <1>2, CountsAreNaturals, FS_Surjection
<1> QED BY <1>3 DEF Injection, IsInjective

\* The number handed out next is one more than the queue's length.
LEMMA NextPositionCounts ==
  ASSUME TypeOK, QueueContiguous
  PROVE  NextPosition = Cardinality(Reserves) + 1
<1> DEFINE n == Cardinality(Reserves)
           S == {0} \cup {position[q] : q \in Reserves}
<1>1. n \in Nat /\ S = 0..n
  BY CountsAreNaturals DEF QueueContiguous
<1>2. IsFiniteSet(S) /\ S \subseteq Nat /\ S # {}
  <2> HIDE DEF S, n
  <2>1. 0 \in Int /\ n \in Int
    BY <1>1
  <2>2. IsFiniteSet(0..n)
    BY <2>1, FS_Interval
  <2> QED BY <1>1, <2>2
<1>3. Max(S) \in S /\ \A y \in S : y =< Max(S)
  <2> HIDE DEF S
  <2> QED BY <1>2, MaxOfNaturals
<1>4. Max(S) = n
  <2> HIDE DEF S
  <2> QED BY <1>1, <1>3
<1>5. NextPosition = 1 + Max(S)
  BY DEF NextPosition
<1> HIDE DEF S
<1> QED BY <1>1, <1>4, <1>5

\* A step that changes no number leaves the queue contiguous.
LEMMA QueueStays ==
  ASSUME QueueContiguous, Reserves' = Reserves,
         \A r \in Reserves : position'[r] = position[r]
  PROVE  QueueContiguous'
BY DEF QueueContiguous

\* A newcomer takes number n + 1.
LEMMA QueueGrows ==
  ASSUME TypeOK, QueueContiguous, NEW p \in People, row[p] # "reserve", JoinQueue(p)
  PROVE  QueueContiguous'
<1> DEFINE n == Cardinality(Reserves)
<1>1. /\ Reserves' = Reserves \cup {p} /\ p \notin Reserves
      /\ position'[p] = n + 1 /\ \A r \in Reserves : position'[r] = position[r]
  BY NextPositionCounts DEF TypeOK, RsvpTypeOK, JoinQueue, Reserves
<1>2. n \in Nat /\ Cardinality(Reserves') = n + 1
  BY <1>1, CountsAreNaturals, FS_AddElement
<1>3. {position'[r] : r \in Reserves'} = {position[r] : r \in Reserves} \cup {n + 1}
  BY <1>1
<1>4. (1..n) \cup {n + 1} = 1..(n + 1)
  BY <1>2
<1> QED BY <1>2, <1>3, <1>4 DEF QueueContiguous

\* A reserve leaves and everyone behind moves up one.
LEMMA QueueShrinks ==
  ASSUME TypeOK, QueueContiguous, NEW q \in Reserves, Reserves' = Reserves \ {q},
         \A r \in Reserves \ {q} : position'[r] = GapClosed(position[q])[r]
  PROVE  QueueContiguous'
<1> DEFINE n == Cardinality(Reserves)
           k == position[q]
<1>1. n \in Nat /\ k \in 1..n /\ Cardinality(Reserves') = n - 1
  BY CountsAreNaturals, FS_RemoveElement DEF QueueContiguous
<1>2. \A r \in Reserves \ {q} :
        /\ position[r] \in 1..n /\ position[r] # k
        /\ position'[r] = IF position[r] > k THEN position[r] - 1 ELSE position[r]
  BY ContiguousIsDistinct DEF QueueContiguous, GapClosed, Reserves
<1>3. \A r \in Reserves' : position'[r] \in 1..(n - 1)
  BY <1>1, <1>2
<1>4. ASSUME NEW m \in 1..(n - 1)
      PROVE  \E r \in Reserves' : position'[r] = m
  <2>1. CASE m < k
    <3>1. PICK r \in Reserves : position[r] = m
      BY <1>1 DEF QueueContiguous
    <3> QED BY <1>1, <1>2, <2>1, <3>1
  <2>2. CASE m >= k
    <3>1. m + 1 \in 1..n
      BY <1>1
    <3>2. PICK r \in Reserves : position[r] = m + 1
      BY <3>1 DEF QueueContiguous
    <3> QED BY <1>1, <1>2, <2>2, <3>2
  <2> QED BY <1>1, <2>1, <2>2
<1>5. {position'[r] : r \in Reserves'} = 1..(n - 1)
  BY <1>3, <1>4
<1> QED BY <1>1, <1>5 DEF QueueContiguous

\* The reserves are numbered 1..n, and there are none while a slot is open.
FullOrNobodyWaits == QueueContiguous /\ (HasRoom => Reserves = {})

\* An empty queue is in order.
LEMMA NobodyWaits ==
  ASSUME Reserves' = {}
  PROVE  FullOrNobodyWaits'
<1>1. Cardinality(Reserves') = 0 /\ 1..0 = {}
  BY FS_EmptySet
<1> QED BY <1>1 DEF FullOrNobodyWaits, QueueContiguous

\* While no settings change and no guests come, the queue and the slots of a
\* plain game move together.
LEMMA EveryStepHandsSlotsOn ==
  ASSUME NeverRotates, NeverResized, Guests = {}, TypeOK, TypeOK', Available = {},
         FullOrNobodyWaits, [Next]_vars
  PROVE  FullOrNobodyWaits'
<1>1. /\ row \in [People -> RowStatus] /\ position \in [People -> Nat]
      /\ Members \subseteq People /\ game.rotation = "off" /\ game'.slots = game.slots
  BY DEF NeverRotates, NeverResized, TypeOK, RsvpTypeOK, People
<1>2. ASSUME NEW p \in People, HasRoom, TakeSlot(p)
      PROVE  FullOrNobodyWaits'
  <2>1. Reserves' \subseteq Reserves
    BY <1>1, <1>2 DEF TakeSlot, Reserves
  <2> QED BY <1>2, <2>1, NobodyWaits DEF FullOrNobodyWaits
<1>3. ASSUME UNCHANGED <<row, position>>
      PROVE  FullOrNobodyWaits'
  <2>1. Reserves' = Reserves /\ Confirmed' = Confirmed
    BY <1>3 DEF Reserves, Confirmed
  <2> QED BY <1>1, <1>3, <2>1, QueueStays DEF FullOrNobodyWaits, HasRoom
<1>4. CASE RsvpNext
  <2>1. ASSUME NEW p \in Members, RsvpIn(p)
        PROVE  FullOrNobodyWaits'
    <3>1. CASE HasRoom /\ TakeSlot(p)
      BY <1>1, <1>2, <3>1
    <3>2. CASE ~HasRoom /\ JoinQueue(p)
      <4>1. Confirmed' = Confirmed
        BY <1>1, <2>1, <3>2 DEF RsvpIn, JoinQueue, Confirmed
      <4>2. QueueContiguous'
        BY <1>1, <2>1, <3>2, QueueGrows DEF RsvpIn, FullOrNobodyWaits
      <4> QED BY <1>1, <3>2, <4>1, <4>2 DEF FullOrNobodyWaits, HasRoom
    <3> QED BY <2>1, <3>1, <3>2 DEF RsvpIn
  <2>2. ASSUME NEW p \in Members, RsvpOut(p)
        PROVE  FullOrNobodyWaits'
    <3>1. CASE LeaveQueue(p)
      <4>1. /\ p \in Reserves /\ Reserves' = Reserves \ {p} /\ Confirmed' = Confirmed
            /\ \A r \in Reserves \ {p} : position'[r] = GapClosed(position[p])[r]
        BY <1>1, <3>1 DEF LeaveQueue, GapClosed, Reserves, Confirmed
      <4>2. QueueContiguous'
        BY <4>1, QueueShrinks DEF FullOrNobodyWaits
      <4> QED BY <1>1, <4>1, <4>2 DEF FullOrNobodyWaits, HasRoom
    <3>2. CASE DropOutUnfilled(p)
      <4>1. Reserves' = {}
        BY <1>1, <3>2 DEF DropOutUnfilled, LeaveUnfilled, LockedFour, Reserves
      <4> QED BY <4>1, NobodyWaits
    <3>3. ASSUME NEW q \in People, DropOutPromoting(p, q)
          PROVE  FullOrNobodyWaits'
      <4>1. /\ q \in Reserves /\ Reserves' = Reserves \ {q} /\ p \in Confirmed
            /\ q \notin Confirmed /\ Confirmed' = (Confirmed \ {p}) \cup {q}
            /\ \A r \in Reserves \ {q} : position'[r] = GapClosed(position[q])[r]
        BY <1>1, <3>3
           DEF DropOutPromoting, LeaveFilled, FrontOfQueue, GapClosed, Reserves, Confirmed,
               Available
      <4>2. QueueContiguous'
        BY <4>1, QueueShrinks DEF FullOrNobodyWaits
      <4>3. Cardinality(Confirmed') = Cardinality(Confirmed)
        <5>1. /\ IsFiniteSet(Confirmed \ {p})
              /\ Cardinality(Confirmed \ {p}) = Cardinality(Confirmed) - 1
          BY <4>1, CountsAreNaturals, FS_RemoveElement
        <5>2. Cardinality((Confirmed \ {p}) \cup {q}) = Cardinality(Confirmed \ {p}) + 1
          BY <4>1, <5>1, FS_AddElement
        <5> QED BY <4>1, <5>1, <5>2, CountsAreNaturals
      <4> QED BY <1>1, <4>1, <4>2, <4>3 DEF FullOrNobodyWaits, HasRoom
    <3> QED BY <2>2, <3>1, <3>2, <3>3 DEF RsvpOut
  <2>3. CASE (\E g \in Games : UpdateStandingGame(g)) \/ EnsureSessionPlayedTransition \/ Tick
    BY <1>3, <2>3 DEF UpdateStandingGame, EnsureSessionPlayedTransition, Tick
  <2> QED BY <1>1, <1>4, <2>1, <2>2, <2>3
          DEF RsvpNext, MarkAvailable, LockedFour, DeclareAvailable, MarkUnavailable
<1>5. CASE LockRotationIfDue
  BY <1>1, <1>5 DEF LockRotationIfDue, Gathering
<1>6. CASE CallNext
  BY <1>2, <1>3, <1>6
     DEF CallNext, CheckFourthCallLevel1, CheckFourthCallPlayedWith, CheckFourthCallLocalRing,
         OfferRotationSlotIfNeeded, SendInvites, OfferSpent, ClaimFourthCallSlot
<1>7. CASE KnockNext
  BY <1>2, <1>3, <1>7, KnockersAssumption
     DEF KnockNext, CreateSessionKnock, AcceptKnock, DeclineKnock, WithdrawKnockRead,
         WithdrawKnockWrite, NoRsvpChange, People
<1>8. CASE UNCHANGED vars
  BY <1>3, <1>8 DEF vars, rsvpVars
<1> QED BY <1>4, <1>5, <1>6, <1>7, <1>8 DEF Next, GuestNext

\* The two facts together are an invariant of such games.
LEMMA SlotsAreHandedOn ==
  ASSUME NeverRotates, NeverResized, Guests = {}
  PROVE  Spec => []FullOrNobodyWaits
<1>1. Init => FullOrNobodyWaits
  <2> SUFFICES ASSUME Init
               PROVE  FullOrNobodyWaits
      OBVIOUS
  <2>1. Reserves = {} /\ Cardinality({}) = 0 /\ 1..0 = {}
    BY FS_EmptySet DEF Init, RsvpInit, Reserves
  <2> QED BY <2>1 DEF FullOrNobodyWaits, QueueContiguous
<1>2. TypeOK /\ TypeOK' /\ Available = {} /\ FullOrNobodyWaits /\ [Next]_vars
        => FullOrNobodyWaits'
  BY EveryStepHandsSlotsOn
<1> QED BY <1>1, <1>2, TypeCorrect, NobodyMerelyAvailable, PTL DEF Spec

\* Without rotation, resizing and guest links nobody waits beside an open slot:
\* every drop-out seats the front of the queue, and a claim or an accepted knock
\* finds a slot open only when nobody waits.
THEOREM PlainGameHasNoIdleSlot ==
  ASSUME NeverRotates, NeverResized, Guests = {}
  PROVE  Spec => []NoIdleSlot
<1>1. FullOrNobodyWaits => NoIdleSlot
  BY DEF FullOrNobodyWaits, NoIdleSlot
<1> QED BY <1>1, SlotsAreHandedOn, PTL

\* In the same games the reserves always stand at 1..n.
THEOREM PlainQueueIsContiguous ==
  ASSUME NeverRotates, NeverResized, Guests = {}
  PROVE  Spec => []QueueContiguous
<1>1. FullOrNobodyWaits => QueueContiguous
  BY DEF FullOrNobodyWaits
<1> QED BY <1>1, SlotsAreHandedOn, PTL

-------------------------------------------------------------------------------
(* Everyone who is seated is counted, once. *)

\* No knocker can claim a slot past the organiser's decision.
KnockersOnlyKnock == Knockers \cap (Nearby \cup LinkHolders) = {}

\* A knocker is invited by nobody, and is not in the game while a knock waits.
KnockersWait ==
  /\ Called \cap Knockers = {}
  /\ \A p \in Knockers : knock[p] = "pending" => row[p] # "in"

\* A step that seats exactly the people it counts.
LEMMA SeatIsCounted ==
  ASSUME TypeOK, NEW p \in People, row[p] # "in", TakeSlot(p)
  PROVE  credited' = Confirmed' \ Confirmed
<1>1. Confirmed' = Confirmed \cup {p} /\ p \notin Confirmed
  BY DEF TypeOK, RsvpTypeOK, TakeSlot, Confirmed
<1> QED BY <1>1 DEF TakeSlot

\* A step that seats nobody and counts nobody.
LEMMA NobodySeatedNobodyCounted ==
  ASSUME Confirmed' \subseteq Confirmed, credited' = {}
  PROVE  credited' = Confirmed' \ Confirmed
OBVIOUS

\* Action by action, the people counted are the people seated.
LEMMA EveryStepCounts ==
  ASSUME TypeOK, KnockersWait, Next
  PROVE  credited' = Confirmed' \ Confirmed
<1>1. row \in [People -> RowStatus] /\ Members \subseteq People /\ Knockers \subseteq People
  BY KnockersAssumption DEF TypeOK, RsvpTypeOK, People
<1>2. ASSUME UNCHANGED row, NobodyCounted
      PROVE  credited' = Confirmed' \ Confirmed
  BY <1>2 DEF NobodyCounted, Confirmed
<1>3. CASE RsvpNext
  <2>1. ASSUME NEW p \in Members, RsvpIn(p)
        PROVE  credited' = Confirmed' \ Confirmed
    <3>1. CASE TakeSlot(p)
      BY <1>1, <2>1, <3>1, SeatIsCounted DEF RsvpIn
    <3>2. CASE JoinQueue(p)
      BY <1>1, <3>2 DEF JoinQueue, NobodyCounted, Confirmed
    <3> QED BY <2>1, <3>1, <3>2 DEF RsvpIn
  <2>2. ASSUME NEW p \in Members, RsvpOut(p)
        PROVE  credited' = Confirmed' \ Confirmed
    <3>1. CASE LeaveQueue(p) \/ DropOutUnfilled(p)
      BY <1>1, <3>1
         DEF LeaveQueue, DropOutUnfilled, LeaveUnfilled, NobodyCounted, Confirmed
    <3>2. ASSUME NEW q \in People, DropOutPromoting(p, q)
          PROVE  credited' = Confirmed' \ Confirmed
      <4>1. Confirmed' = (Confirmed \ {p}) \cup {q} /\ q \notin Confirmed /\ credited' = {q}
        BY <1>1, <3>2
           DEF DropOutPromoting, LeaveFilled, FrontOfQueue, Reserves, Confirmed
      <4> QED BY <4>1
    <3> QED BY <2>2, <3>1, <3>2 DEF RsvpOut
  <2>3. ASSUME NEW p \in Members, DeclareAvailable(p) \/ MarkUnavailable(p)
        PROVE  credited' = Confirmed' \ Confirmed
    BY <1>1, <2>3 DEF DeclareAvailable, MarkUnavailable, NobodyCounted, Confirmed
  <2>4. CASE (\E g \in Games : UpdateStandingGame(g)) \/ EnsureSessionPlayedTransition \/ Tick
    BY <1>2, <2>4 DEF UpdateStandingGame, EnsureSessionPlayedTransition, Tick
  <2> QED BY <1>3, <2>1, <2>2, <2>3, <2>4 DEF RsvpNext, MarkAvailable
<1>4. CASE LockRotationIfDue
  <2>1. PICK rank \in Rankings(Available) : ApplyRanking(rank)
    BY <1>4 DEF LockRotationIfDue
  <2>2. Picked(rank) \subseteq Available
    BY DEF Picked
  <2>3. Confirmed' = Confirmed \cup Picked(rank) /\ Picked(rank) \cap Confirmed = {}
    <3> HIDE DEF Picked
    <3> QED BY <1>1, <2>1, <2>2 DEF ApplyRanking, LineUp, Available, Confirmed
  <2> QED BY <2>1, <2>3 DEF ApplyRanking
<1>5. CASE CallNext
  <2>1. ASSUME NEW p \in People, ClaimFourthCallSlot(p)
        PROVE  credited' = Confirmed' \ Confirmed
    BY <2>1, SeatIsCounted DEF ClaimFourthCallSlot
  <2> QED BY <1>2, <1>5, <2>1
          DEF CallNext, CheckFourthCallLevel1, CheckFourthCallPlayedWith,
              CheckFourthCallLocalRing, OfferRotationSlotIfNeeded, SendInvites, OfferSpent
<1>6. ASSUME NEW g \in Guests,
             \/ ClaimGuestSlot(g) \/ JoinGuestReserveQueue(g)
             \/ LockGuestNameRead(g) \/ LockGuestNameWrite(g)
      PROVE  credited' = Confirmed' \ Confirmed
  <2>1. g \in People
    BY DEF People
  <2>2. CASE ClaimGuestSlot(g)
    <3>1. CASE HoldSlot(g)
      <4>1. Confirmed' = (Confirmed \ Lapsed) \cup {g} /\ g \notin Confirmed
        BY <1>1, <2>1, <2>2, <3>1 DEF ClaimGuestSlot, Fresh, HoldSlot, Swept, Confirmed
      <4> QED BY <3>1, <4>1 DEF HoldSlot
    <3>2. CASE RefusedSweep
      BY <1>1, <3>2, NobodySeatedNobodyCounted
         DEF RefusedSweep, Swept, NobodyCounted, Confirmed
    <3> QED BY <2>2, <3>1, <3>2 DEF ClaimGuestSlot
  <2>3. CASE JoinGuestReserveQueue(g)
    BY <1>1, <2>1, <2>3 DEF JoinGuestReserveQueue, Fresh, JoinQueue, NobodyCounted, Confirmed
  <2> QED BY <1>2, <1>6, <2>2, <2>3 DEF LockGuestNameRead, LockGuestNameWrite
<1>7. ASSUME NEW p \in Knockers,
             \/ CreateSessionKnock(p) \/ AcceptKnock(p) \/ DeclineKnock(p)
             \/ WithdrawKnockRead(p) \/ WithdrawKnockWrite(p)
      PROVE  credited' = Confirmed' \ Confirmed
  <2>1. CASE AcceptKnock(p)
    BY <1>1, <2>1, SeatIsCounted DEF AcceptKnock, KnockersWait
  <2> QED BY <1>2, <1>7, <2>1
          DEF CreateSessionKnock, DeclineKnock, WithdrawKnockRead, WithdrawKnockWrite, NoRsvpChange
<1> QED BY <1>3, <1>4, <1>5, <1>6, <1>7 DEF Next, GuestNext, KnockNext

\* Only the organiser's acceptance brings a knocker in.
LEMMA KnockersAreKeptWaiting ==
  ASSUME KnockersOnlyKnock, TypeOK, OutsidersNeverWait, KnockersWait, [Next]_vars
  PROVE  KnockersWait'
<1>1. /\ row \in [People -> RowStatus] /\ knock \in [Knockers -> KnockStatus]
      /\ Knockers \subseteq People /\ Knockers \cap (Members \cup Guests) = {}
      /\ \A p \in Knockers : row[p] \notin {"reserve", "available"}
  BY KnockersAssumption, PeopleAssumption
     DEF TypeOK, RsvpTypeOK, KnockTypeOK, People, OutsidersNeverWait
<1>2. Called' \cap Knockers = {}
  <2>1. ASSUME NEW chosen, NEW via, SendInvites(chosen, via), chosen \cap Knockers = {}
        PROVE  Called' \cap Knockers = {}
    <3>1. Called' \subseteq Called \cup chosen
      BY <2>1 DEF SendInvites, Called
    <3> QED BY <2>1, <3>1 DEF KnockersWait
  <2>2. CASE UNCHANGED invites
    BY <2>2 DEF KnockersWait, Called
  <2>3. CASE CallNext
    <3>1. CASE CheckFourthCallLevel1
      BY <1>1, <2>1, <3>1 DEF CheckFourthCallLevel1
    <3>2. ASSUME NEW chosen \in SUBSET Nearby,
                 CheckFourthCallPlayedWith(chosen) \/ CheckFourthCallLocalRing(chosen)
          PROVE  Called' \cap Knockers = {}
      BY <2>1, <3>2
         DEF KnockersOnlyKnock, CheckFourthCallPlayedWith, CheckFourthCallLocalRing
    <3>3. CASE OfferRotationSlotIfNeeded
      <4>1. Reserves \cap Knockers = {}
        BY <1>1 DEF Reserves
      <4>2. PICK q \in Reserves \ Offered : SendInvites({q}, "rotation_offer")
        BY <3>3 DEF OfferRotationSlotIfNeeded
      <4> QED BY <2>1, <4>1, <4>2
    <3> QED BY <2>2, <2>3, <3>1, <3>2, <3>3
            DEF CallNext, OfferSpent, ClaimFourthCallSlot, callVars
  <2> QED BY <2>2, <2>3 DEF Next, callVars, vars
<1>3. ASSUME NEW p \in Knockers, knock'[p] = "pending"
      PROVE  row'[p] # "in"
  <2>1. ASSUME UNCHANGED knock, row[p] # "in" => row'[p] # "in"
        PROVE  row'[p] # "in"
    BY <1>3, <2>1 DEF KnockersWait
  <2>2. CASE RsvpNext /\ UNCHANGED knockVars
    <3>1. ASSUME NEW m \in Members, RsvpIn(m) \/ RsvpOut(m), row[p] # "in"
          PROVE  row'[p] # "in"
      BY <1>1, <3>1
         DEF RsvpIn, TakeSlot, JoinQueue, RsvpOut, LeaveQueue, DropOutUnfilled, LeaveUnfilled,
             DropOutPromoting, LeaveFilled, FrontOfQueue, Reserves
    <3>2. row[p] # "in" => row'[p] # "in"
      BY <1>1, <2>2, <3>1
         DEF RsvpNext, MarkAvailable, DeclareAvailable, MarkUnavailable, UpdateStandingGame,
             EnsureSessionPlayedTransition, Tick
    <3> QED BY <2>1, <2>2, <3>2 DEF knockVars
  <2>3. CASE LockRotationIfDue /\ UNCHANGED knockVars
    <3>1. row'[p] = row[p]
      BY <1>1, <2>3 DEF LockRotationIfDue, ApplyRanking, LineUp, Available
    <3> QED BY <2>1, <2>3, <3>1 DEF knockVars
  <2>4. CASE CallNext /\ UNCHANGED knockVars
    <3>1. p \notin Called \cup LinkHolders
      BY DEF KnockersWait, KnockersOnlyKnock
    <3>2. row'[p] = row[p]
      BY <1>1, <2>4, <3>1
         DEF CallNext, CheckFourthCallLevel1, CheckFourthCallPlayedWith,
             CheckFourthCallLocalRing, OfferRotationSlotIfNeeded, SendInvites, OfferSpent,
             ClaimFourthCallSlot, TakeSlot
    <3> QED BY <2>1, <2>4, <3>2 DEF knockVars
  <2>5. CASE GuestNext /\ UNCHANGED knockVars
    <3>1. row[p] # "in" => row'[p] # "in"
      BY <1>1, <2>5
         DEF GuestNext, ClaimGuestSlot, HoldSlot, RefusedSweep, Swept, JoinGuestReserveQueue,
             JoinQueue, LockGuestNameRead, LockGuestNameWrite
    <3> QED BY <2>1, <2>5, <3>1 DEF knockVars
  <2>6. CASE KnockNext
    BY <1>1, <1>3, <2>6
       DEF KnockNext, CreateSessionKnock, AcceptKnock, DeclineKnock, WithdrawKnockRead,
           WithdrawKnockWrite, SetKnock, NoRsvpChange, TakeSlot, KnockersWait
  <2>7. CASE UNCHANGED vars
    BY <2>1, <2>7 DEF vars, rsvpVars, knockVars
  <2> QED BY <2>2, <2>3, <2>4, <2>5, <2>6, <2>7 DEF Next
<1> QED BY <1>2, <1>3 DEF KnockersWait

\* Where no knocker can also claim, rsvpInCount goes up for exactly the people a
\* transaction seats, in every mode and by every door.  (A knocker who can is
\* counted twice: the code accepts a knock without looking at the knocker's row.)
THEOREM SeatsAreCountedOnce ==
  ASSUME KnockersOnlyKnock
  PROVE  Spec => EverySeatCounted
<1>1. Init => KnockersWait
  <2> SUFFICES ASSUME Init
               PROVE  KnockersWait
      OBVIOUS
  <2>1. Called = {} /\ \A p \in Knockers : knock[p] = "none"
    BY DEF Init, CallInit, KnockInit, Called
  <2> QED BY <2>1 DEF KnockersWait
<1>2. TypeOK /\ OutsidersNeverWait /\ KnockersWait /\ [Next]_vars => KnockersWait'
  BY KnockersAreKeptWaiting
<1>3. TypeOK /\ KnockersWait /\ [Next]_vars => [credited' = Confirmed' \ Confirmed]_vars
  BY EveryStepCounts
<1> QED BY <1>1, <1>2, <1>3, TypeCorrect, OutsidersComeInDirectly, PTL DEF Spec, EverySeatCounted

-------------------------------------------------------------------------------
(* Kickoff. *)

\* After kickoff nobody's row or number changes by any door: every handler that
\* writes one looks at the clock inside its transaction.
THEOREM KickoffFreezesTheRoster == Spec => RosterFrozenAfterKickoff
<1>1. TypeOK /\ [Next]_vars => [clock > Starts => UNCHANGED <<row, position>>]_vars
  <2> SUFFICES ASSUME TypeOK, Next, clock > Starts
               PROVE  UNCHANGED <<row, position>>
      OBVIOUS
  <2>1. Started /\ ~(clock =< Starts)
    BY TimeAssumption DEF TypeOK, RsvpTypeOK, Started
  <2>2. CASE RsvpNext
    BY <2>1, <2>2
       DEF RsvpNext, RsvpIn, RsvpOut, MarkAvailable, DeclareAvailable, MarkUnavailable,
           UpdateStandingGame, EnsureSessionPlayedTransition, Tick
  <2>3. CASE LockRotationIfDue
    BY <2>1, <2>3 DEF LockRotationIfDue
  <2>4. CASE CallNext
    BY <2>1, <2>4
       DEF CallNext, CheckFourthCallLevel1, CheckFourthCallPlayedWith, CheckFourthCallLocalRing,
           OfferRotationSlotIfNeeded, SendInvites, OfferSpent, ClaimFourthCallSlot, StillOn
  <2>5. CASE GuestNext
    BY <2>1, <2>5
       DEF GuestNext, ClaimGuestSlot, JoinGuestReserveQueue, LinkOpen, LockGuestNameRead,
           LockGuestNameWrite
  <2>6. CASE KnockNext
    BY <2>1, <2>6
       DEF KnockNext, CreateSessionKnock, AcceptKnock, DeclineKnock, WithdrawKnockRead,
           WithdrawKnockWrite, NoRsvpChange
  <2> QED BY <2>2, <2>3, <2>4, <2>5, <2>6 DEF Next
<1> QED BY <1>1, TypeCorrect, PTL DEF Spec, RosterFrozenAfterKickoff
===============================================================================
