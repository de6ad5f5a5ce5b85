--------------------------- MODULE CircleDoor_proofs ---------------------------
(***************************************************************************)
(* Proofs about CircleDoor for every circle, every set of settings and any *)
(* number of requests in flight.                                           *)
(***************************************************************************)
EXTENDS CircleDoor, FiniteSetTheorems, SequenceTheorems, TLAPS

USE DEF rosterVars, rsvpVars

-------------------------------------------------------------------------------
(* Facts about the operators the model is built from. *)

\* A save keeps the field it does not send.
LEMMA SavedSettings ==
  ASSUME CircleTypeOK, UpdateCircleSettings
  PROVE  settings' \in [maxMembers : Caps, openDoor : BOOLEAN]
<1> DEFINE saved == [f \in DOMAIN settings |-> IF f \in DOMAIN patch THEN patch[f] ELSE settings[f]]
<1>1. patch \in Patches /\ DOMAIN settings = {"maxMembers", "openDoor"}
  BY DEF CircleTypeOK, UpdateCircleSettings
<1>2. CASE patch \in [maxMembers : Nat]
  <2>1. patch.maxMembers \in Caps
    BY <1>1, <1>2 DEF Caps
  <2>2. saved = [settings EXCEPT !.maxMembers = patch.maxMembers]
    BY <1>1, <1>2 DEF CircleTypeOK
  <2> QED BY <2>1, <2>2 DEF CircleTypeOK, UpdateCircleSettings
<1>3. CASE patch \in [openDoor : BOOLEAN]
  <2>1. saved = [settings EXCEPT !.openDoor = patch.openDoor]
    BY <1>1, <1>3 DEF CircleTypeOK
  <2> QED BY <1>3, <2>1 DEF CircleTypeOK, UpdateCircleSettings
<1> QED BY <1>1, <1>2, <1>3, CircleAssumption

KnockRow == [by : Accounts, status : KnockStatus]

LEMMA KnockRows ==
  ASSUME knocks \in Seq(KnockRow)
  PROVE  /\ DOMAIN knocks = 1..Len(knocks) /\ Len(knocks) \in Nat
         /\ \A i \in DOMAIN knocks : knocks[i] \in KnockRow
<1>1. DOMAIN knocks = 1..Len(knocks) /\ Len(knocks) \in Nat
  OBVIOUS
<1>2. \A i \in 1..Len(knocks) : knocks[i] \in KnockRow
  BY ElementOfSeq
<1> QED BY <1>1, <1>2

\* A knock's status may change in place.
LEMMA KnocksInPlace ==
  ASSUME knocks \in Seq(KnockRow),
         NEW st \in [DOMAIN knocks -> KnockStatus],
         knocks' = [i \in DOMAIN knocks |-> [by |-> knocks[i].by, status |-> st[i]]]
  PROVE  /\ knocks' \in Seq(KnockRow)
         /\ DOMAIN knocks' = DOMAIN knocks
<1>1. knocks' \in [1..Len(knocks) -> KnockRow]
  BY KnockRows DEF KnockRow
<1> QED BY <1>1, KnockRows, SeqDef

-------------------------------------------------------------------------------
(* Type correctness, for the circle's steps and then for the door's. *)

LEMMA OutType ==
  ASSUME {available, held, late, refused} \subseteq [Sessions -> SUBSET Accounts],
         NEW p, NEW s \in Sessions, Out(p, s)
  PROVE  {available, held, late, refused}' \subseteq [Sessions -> SUBSET Accounts]
BY DEF Out

LEMMA CircleTypeStep ==
  ASSUME CircleTypeOK, CircleNext
  PROVE  CircleTypeOK'
<1> USE DEF CircleTypeOK, People
<1>1. ASSUME NEW p \in People, JoinCircle(p)
      PROVE  CircleTypeOK'
  BY <1>1 DEF JoinCircle, InsertCircleMembership
<1>2. ASSUME NEW g \in Guests, NEW a \in Accounts, MergeGuest(g, a)
      PROVE  CircleTypeOK'
  BY <1>2 DEF MergeGuest
<1>3. ASSUME NEW o \in Accounts, NEW new \in Patches, CheckSettings(o, new)
      PROVE  CircleTypeOK'
  BY <1>3 DEF CheckSettings
<1>4. CASE UpdateCircleSettings
  BY <1>4, SavedSettings DEF UpdateCircleSettings
<1>5. ASSUME NEW p \in Accounts, NEW s \in Sessions, CheckRsvpIn(p, s) \/ CheckMarkAvailable(p, s)
      PROVE  CircleTypeOK'
  BY <1>5 DEF CheckRsvpIn, CheckMarkAvailable, CheckTap
<1>6. ASSUME NEW p \in Accounts, NEW s \in Sessions, TapOut(p, s)
      PROVE  CircleTypeOK'
  BY <1>6, OutType DEF TapOut
<1>7. ASSUME NEW s \in Sessions, Tap(s)
      PROVE  CircleTypeOK'
  <2>1. tapping[s] \in [who : Accounts, as : {"held", "available"}]
    BY <1>7 DEF Tap, NoTap
  <2> QED BY <1>7, <2>1 DEF Tap
<1>8. ASSUME NEW s \in Sessions,
             LockRotationIfDue(s) \/ \E to \in {"off", "gathering"} : SwitchRotation(s, to)
      PROVE  CircleTypeOK'
  BY <1>8 DEF LockRotationIfDue, SwitchRotation
<1>9. ASSUME NEW d \in Departures, NEW by \in Accounts, NEW p \in People, Request(d, by, p)
      PROVE  CircleTypeOK'
  BY <1>9 DEF Request, OpenRsvps, Declared, Requests
<1>13. ASSUME NEW d \in Departures, NEW s \in Sessions, WithdrawFutureRsvp(d, s)
       PROVE  CircleTypeOK'
  <2>1. going[d] \in Requests
    BY <1>13 DEF WithdrawFutureRsvp, NoRequest
  <2>2. going' \in [Departures -> Requests \cup {NoRequest}]
    BY <1>13, <2>1 DEF WithdrawFutureRsvp, Requests
  <2>3. {available, held, late, refused}' \subseteq [Sessions -> SUBSET Accounts]
    <3>1. CASE Out(going[d].who, s)
      BY <3>1, OutType
    <3>2. CASE UNCHANGED <<available, held, late>>
      BY <1>13, <3>2 DEF WithdrawFutureRsvp, Coming, Out
    <3> QED BY <1>13, <3>1, <3>2 DEF WithdrawFutureRsvp
  <2> QED BY <1>13, <2>2, <2>3 DEF WithdrawFutureRsvp
<1>10. ASSUME NEW d \in Departures, Depart(d)
       PROVE  CircleTypeOK'
  BY <1>10 DEF Depart, NoRequest
<1>11. ASSUME NEW d \in Departures, Refuse(d)
       PROVE  CircleTypeOK'
  BY <1>11 DEF Refuse, NoRequest
<1>12. ASSUME NEW o \in Accounts, NEW p \in People, TransferOrganiser(o, p)
       PROVE  CircleTypeOK'
  BY <1>12 DEF TransferOrganiser
<1> QED BY <1>1, <1>2, <1>3, <1>4, <1>5, <1>6, <1>7, <1>8, <1>9, <1>10, <1>11, <1>12, <1>13
        DEF CircleNext, AskToLeave, AskToRemove

LEMMA DoorTypeStep ==
  ASSUME TypeOK, [Next]_vars
  PROVE  TypeOK'
<1> USE DEF TypeOK
<1>1. CASE CircleNext /\ UNCHANGED doorVars
  BY <1>1, CircleTypeStep DEF doorVars
<1>2. ASSUME NEW p \in Accounts,
             CheckKnock(p) \/ InsertKnock(p) \/ AlreadyKnocked(p) \/ WithdrawCircleKnock(p)
      PROVE  TypeOK'
  <2>1. CircleTypeOK'
    BY <1>2 DEF CheckKnock, InsertKnock, AlreadyKnocked, WithdrawCircleKnock, circleVars, CircleTypeOK, Requests, Caps, People
  <2>2. /\ knocks' \in Seq([by : Accounts, status : KnockStatus])
        /\ DOMAIN knocks \subseteq DOMAIN knocks'
    <3>1. CASE InsertKnock(p)
      BY <3>1 DEF InsertKnock, KnockStatus
    <3>2. CASE WithdrawCircleKnock(p)
      <4> DEFINE st == [i \in DOMAIN knocks |->
                          IF i \in Pending(p) THEN "withdrawn" ELSE knocks[i].status]
      <4>1. \A i \in DOMAIN knocks : knocks[i] \in [by : Accounts, status : KnockStatus]
        BY KnockRows DEF TypeOK, KnockRow
      <4>2. st \in [DOMAIN knocks -> KnockStatus]
        BY <4>1 DEF KnockStatus
      <4>3. knocks' = [i \in DOMAIN knocks |-> [by |-> knocks[i].by, status |-> st[i]]]
        BY <3>2, <4>1 DEF WithdrawCircleKnock
      <4> HIDE DEF st
      <4> QED BY <4>2, <4>3, KnocksInPlace DEF KnockRow
    <3> QED BY <1>2, <3>1, <3>2 DEF CheckKnock, AlreadyKnocked
  <2>3. asking' \subseteq Accounts /\ deciding' = deciding
    BY <1>2 DEF CheckKnock, InsertKnock, AlreadyKnocked, WithdrawCircleKnock
  <2> QED BY <2>1, <2>2, <2>3
<1>3. ASSUME NEW o \in Accounts, NEW i \in DOMAIN knocks, CheckDecision(o, i)
      PROVE  TypeOK'
  BY <1>3 DEF CheckDecision, circleVars, CircleTypeOK, Requests, Caps, People
<1>4. ASSUME NEW o \in Accounts, NEW i \in DOMAIN knocks, DecideCircleKnock(o, i)
      PROVE  TypeOK'
  <2>3. ASSUME NEW to \in KnockStatus, knocks' = [knocks EXCEPT ![i].status = to]
        PROVE  /\ knocks' \in Seq([by : Accounts, status : KnockStatus])
               /\ DOMAIN knocks' = DOMAIN knocks
    <3> DEFINE st == [j \in DOMAIN knocks |-> IF j = i THEN to ELSE knocks[j].status]
    <3>1. \A j \in DOMAIN knocks : knocks[j] \in [by : Accounts, status : KnockStatus]
      BY KnockRows DEF TypeOK, KnockRow
    <3>2. st \in [DOMAIN knocks -> KnockStatus]
      BY <3>1
    <3>3. knocks' = [j \in DOMAIN knocks |-> [by |-> knocks[j].by, status |-> st[j]]]
      <4>1. knocks' = [j \in DOMAIN knocks |->
                         IF j = i THEN [knocks[i] EXCEPT !.status = to] ELSE knocks[j]]
        BY <2>3, Zenon
      <4>2. \A j \in DOMAIN knocks :
              (IF j = i THEN [knocks[i] EXCEPT !.status = to] ELSE knocks[j])
                = [by |-> knocks[j].by, status |-> st[j]]
        BY <3>1
      <4> QED BY <4>1, <4>2, Zenon
    <3> HIDE DEF st
    <3> QED BY <3>2, <3>3, KnocksInPlace DEF KnockRow
  <2>1. CASE Accept(i)
    <3>1. CircleTypeOK'
      BY <2>1 DEF Accept, InsertCircleMembership, CircleTypeOK, Requests, Caps, People
    <3>2. /\ knocks' \in Seq([by : Accounts, status : KnockStatus])
          /\ DOMAIN knocks' = DOMAIN knocks
      BY <2>1, <2>3 DEF Accept, KnockStatus
    <3> QED BY <1>4, <3>1, <3>2 DEF DecideCircleKnock
  <2>2. CASE Decline(i) \/ UNCHANGED <<circleVars, knocks>>
    <3>1. CircleTypeOK'
      BY <2>2 DEF Decline, circleVars, CircleTypeOK, Requests, Caps, People
    <3>2. /\ knocks' \in Seq([by : Accounts, status : KnockStatus])
          /\ DOMAIN knocks' = DOMAIN knocks
      BY <2>2, <2>3 DEF Decline, KnockStatus
    <3> QED BY <1>4, <3>1, <3>2 DEF DecideCircleKnock
  <2> QED BY <1>4, <2>1, <2>2 DEF DecideCircleKnock
<1>5. CASE UNCHANGED vars
  BY <1>5 DEF vars, doorVars, circleVars, CircleTypeOK, Requests, Caps, People
<1> QED BY <1>1, <1>2, <1>3, <1>4, <1>5 DEF Next

\* Every variable keeps its type.
THEOREM TypeCorrect == Spec => []TypeOK
<1>1. Init => TypeOK
  <2> SUFFICES ASSUME Init
               PROVE  TypeOK
      OBVIOUS
  <2>1. CircleTypeOK
    BY CircleAssumption DEF Init, CircleInit, CircleTypeOK, NoRequest, NoTap, People
  <2> QED BY <2>1 DEF Init, TypeOK
<1>2. TypeOK /\ [Next]_vars => TypeOK'
  BY DoorTypeStep
<1> QED BY <1>1, <1>2, PTL DEF Spec
-------------------------------------------------------------------------------
(* The organiser role. *)

\* The circle's steps change nobody's role but by joining, merging, going and
\* the handover.
LEMMA GuestsNeverLeadStep ==
  ASSUME TypeOK, GuestsNeverLead, [Next]_vars
  PROVE  GuestsNeverLead'
<1> USE DEF GuestsNeverLead, Organisers
<1>1. role \in [People -> {"none", "member", "organiser"}] /\ Accounts \cap Guests = {}
  BY CircleAssumption DEF TypeOK, CircleTypeOK
<1>2. \A g \in Guests : g \in People /\ role[g] # "organiser"
  BY DEF People
<1>3. ASSUME NEW p \in People, InsertCircleMembership(p)
      PROVE  GuestsNeverLead'
  BY <1>1, <1>2, <1>3 DEF InsertCircleMembership
<1>4. CASE CircleNext /\ UNCHANGED doorVars
  <2>1. ASSUME NEW g \in Guests, NEW a \in Accounts, MergeGuest(g, a)
        PROVE  GuestsNeverLead'
    BY <1>1, <1>2, <2>1 DEF MergeGuest, People
  <2>2. ASSUME NEW d \in Departures, Depart(d)
        PROVE  GuestsNeverLead'
    BY <1>1, <1>2, <2>2 DEF Depart
  <2>3. ASSUME NEW o \in Accounts, NEW p \in People, TransferOrganiser(o, p)
        PROVE  GuestsNeverLead'
    BY <1>1, <1>2, <2>3 DEF TransferOrganiser, People
  <2>4. ASSUME UNCHANGED role
        PROVE  GuestsNeverLead'
    BY <2>4
  <2> QED BY <1>3, <1>4, <2>1, <2>2, <2>3, <2>4
          DEF CircleNext, JoinCircle, CheckSettings, UpdateCircleSettings, CheckRsvpIn,
              CheckMarkAvailable, CheckTap, Tap, TapOut, LockRotationIfDue, SwitchRotation,
              AskToLeave, AskToRemove, Request, WithdrawFutureRsvp, Refuse
<1>5. ASSUME NEW o \in Accounts, NEW i \in DOMAIN knocks, DecideCircleKnock(o, i)
      PROVE  GuestsNeverLead'
  <2>1. knocks[i].by \in People
    BY KnockRows DEF TypeOK, KnockRow, People
  <2> QED BY <1>3, <1>5, <2>1 DEF DecideCircleKnock, Accept, Decline, circleVars
<1>6. CASE UNCHANGED role
  BY <1>6
<1> QED BY <1>4, <1>5, <1>6
        DEF Next, CheckKnock, InsertKnock, AlreadyKnocked, WithdrawCircleKnock, CheckDecision,
            vars, circleVars

\* The organiser role never falls to a guest, however leaving, handovers,
\* removals and merges interleave (transferOrganiser, convertGuestOnAuth).
THEOREM OnlyAccountsLead == Spec => []GuestsNeverLead
<1>1. Init => GuestsNeverLead
  BY CircleAssumption DEF Init, CircleInit, GuestsNeverLead, Organisers
<1>2. TypeOK /\ GuestsNeverLead /\ [Next]_vars => GuestsNeverLead'
  BY GuestsNeverLeadStep
<1> QED BY <1>1, <1>2, TypeCorrect, PTL DEF Spec

\* Only a departure or a merge takes a row out of the roster.
LEMMA LedStep ==
  ASSUME TypeOK, GuestsNeverLead, Next, Organisers # {}, Roster' # {}
  PROVE  Organisers' # {}
<1> USE DEF Organisers, Roster
<1>1. role \in [People -> {"none", "member", "organiser"}] /\ Accounts \cap Guests = {}
  BY CircleAssumption DEF TypeOK, CircleTypeOK
<1>2. PICK o \in People : role[o] = "organiser"
  OBVIOUS
<1>3. ASSUME NEW p \in People, InsertCircleMembership(p)
      PROVE  Organisers' # {}
  BY <1>1, <1>2, <1>3 DEF InsertCircleMembership
<1>4. CASE CircleNext /\ UNCHANGED doorVars
  <2>1. ASSUME NEW g \in Guests, NEW a \in Accounts, MergeGuest(g, a)
        PROVE  Organisers' # {}
    <3>1. o # g
      BY <1>2 DEF GuestsNeverLead, People
    <3>2. role'[o] = "organiser"
      BY <1>1, <1>2, <2>1, <3>1 DEF MergeGuest, People
    <3> QED BY <3>2
  <2>2. ASSUME NEW d \in Departures, Depart(d)
        PROVE  Organisers' # {}
    <3> DEFINE p == going[d].who
               by == going[d].by
    <3>1. role' = [role EXCEPT ![p] = "none"] /\ MayGo(d)
      BY <2>2 DEF Depart
    <3>2. by \in People /\ p \in People
      BY <2>2 DEF TypeOK, CircleTypeOK, Requests, Depart, Withdrawn, People
    <3>3. CASE p # o
      BY <1>1, <1>2, <3>1, <3>3
    <3>4. CASE p = o /\ by = p
      <4>1. Organisers # {p} \/ Roster = {p}
        BY <3>1, <3>4 DEF MayGo, LastOrganiser
      <4>2. Roster # {p}
        BY <1>1, <3>1
      <4>3. PICK q \in People : q # p /\ role[q] = "organiser"
        BY <4>1, <4>2, <1>2, <3>4
      <4> QED BY <4>3, <1>1, <3>1
    <3>5. CASE p = o /\ by # p
      <4>1. role[by] = "organiser"
        BY <3>1, <3>5 DEF MayGo
      <4> QED BY <3>2, <4>1, <1>1, <3>1, <3>5
    <3> QED BY <3>3, <3>4, <3>5
  <2>3. ASSUME NEW a \in Accounts, NEW p \in People, TransferOrganiser(a, p)
        PROVE  Organisers' # {}
    BY <1>1, <2>3 DEF TransferOrganiser
  <2>4. ASSUME UNCHANGED role
        PROVE  Organisers' # {}
    BY <2>4
  <2> QED BY <1>3, <1>4, <2>1, <2>2, <2>3, <2>4
          DEF CircleNext, JoinCircle, CheckSettings, UpdateCircleSettings, CheckRsvpIn,
              CheckMarkAvailable, CheckTap, Tap, TapOut, LockRotationIfDue, SwitchRotation,
              AskToLeave, AskToRemove, Request, WithdrawFutureRsvp, Refuse
<1>5. ASSUME NEW a \in Accounts, NEW i \in DOMAIN knocks, DecideCircleKnock(a, i)
      PROVE  Organisers' # {}
  <2>1. knocks[i].by \in People
    BY KnockRows DEF TypeOK, KnockRow, People
  <2> QED BY <1>3, <1>5, <2>1 DEF DecideCircleKnock, Accept, Decline, circleVars
<1>6. CASE UNCHANGED role
  BY <1>6
<1> QED BY <1>4, <1>5, <1>6
        DEF Next, CheckKnock, InsertKnock, AlreadyKnocked, WithdrawCircleKnock, CheckDecision,
            circleVars

\* A circle that has an organiser keeps one until its last member has gone:
\* leaveCircle and removeMember ask again under the lock.
THEOREM CircleKeepsAnOrganiser == Spec => LedToTheLast
<1>1. TypeOK /\ GuestsNeverLead /\ [Next]_vars
        => [Organisers # {} /\ Roster' # {} => Organisers' # {}]_vars
  <2> SUFFICES ASSUME TypeOK, GuestsNeverLead, Next
               PROVE  Organisers # {} /\ Roster' # {} => Organisers' # {}
      OBVIOUS
  <2> QED BY LedStep
<1> QED BY <1>1, TypeCorrect, OnlyAccountsLead, PTL DEF Spec, LedToTheLast
-------------------------------------------------------------------------------
(* The member limit. *)

LEMMA NoDoorOverfillsStep ==
  ASSUME TypeOK, Next, Cardinality(Roster') > Cardinality(Roster)
  PROVE  settings.maxMembers = 0 \/ Cardinality(Roster') =< settings.maxMembers
<1>1. role \in [People -> {"none", "member", "organiser"}] /\ settings.maxMembers \in Caps
  BY DEF TypeOK, CircleTypeOK
<1>2. settings.maxMembers \in Nat
  <2> SUFFICES ASSUME NEW new \in Patches, "maxMembers" \in DOMAIN new
               PROVE  new.maxMembers \in Nat
      BY <1>1 DEF Caps
  <2> QED BY CircleAssumption
<1>3. IsFiniteSet(Roster) /\ Cardinality(Roster) \in Nat
  BY CircleAssumption, FS_Subset, FS_CardinalityType DEF Roster
<1>4. ASSUME Roster' \subseteq Roster
      PROVE  FALSE
  <2>1. Cardinality(Roster') =< Cardinality(Roster) /\ Cardinality(Roster') \in Nat
    BY <1>3, <1>4, FS_Subset, FS_CardinalityType
  <2> QED BY <1>3, <2>1
<1>5. ASSUME NEW p \in People, InsertCircleMembership(p)
      PROVE  settings.maxMembers = 0 \/ Cardinality(Roster') =< settings.maxMembers
  <2>1. CASE UNCHANGED role
    BY <1>4, <2>1 DEF Roster
  <2>2. CASE role[p] = "none" /\ ~Full /\ role' = [role EXCEPT ![p] = "member"]
    <3>1. Roster' = Roster \cup {p} /\ p \notin Roster
      BY <1>1, <2>2 DEF Roster
    <3>2. Cardinality(Roster') = Cardinality(Roster) + 1
      BY <1>3, <3>1, FS_AddElement
    <3> QED BY <1>2, <1>3, <2>2, <3>2 DEF Full
  <2> QED BY <1>5, <2>1, <2>2 DEF InsertCircleMembership
<1>6. CASE CircleNext /\ UNCHANGED doorVars
  <2>1. ASSUME NEW g \in Guests, NEW a \in Accounts, MergeGuest(g, a)
        PROVE  FALSE
    <3>1. g \in Roster /\ g \in People /\ a \in People
      BY <2>1 DEF MergeGuest, People
    <3>2. Roster' \subseteq (Roster \ {g}) \cup {a}
      BY <1>1, <2>1, CircleAssumption DEF MergeGuest, Roster, People
    <3>3. Cardinality(Roster \ {g}) = Cardinality(Roster) - 1 /\ IsFiniteSet(Roster \ {g})
      BY <1>3, <3>1, FS_RemoveElement
    <3>4. /\ IsFiniteSet((Roster \ {g}) \cup {a})
          /\ Cardinality((Roster \ {g}) \cup {a}) =< Cardinality(Roster)
      <4> DEFINE rest == Roster \ {g}
      <4>1. IsFiniteSet(rest) /\ Cardinality(rest) = Cardinality(Roster) - 1
        BY <3>3
      <4> HIDE DEF rest
      <4>2. IsFiniteSet(rest \cup {a}) /\ Cardinality(rest \cup {a}) \in {Cardinality(rest), Cardinality(rest) + 1}
        BY <4>1, FS_AddElement
      <4>3. Cardinality(rest \cup {a}) =< Cardinality(Roster)
        BY <1>3, <4>1, <4>2
      <4> QED BY <4>2, <4>3 DEF rest
    <3>5. Cardinality(Roster') =< Cardinality((Roster \ {g}) \cup {a}) /\ Cardinality(Roster') \in Nat
      BY <3>2, <3>4, FS_Subset, FS_CardinalityType
    <3>6. Cardinality((Roster \ {g}) \cup {a}) \in Nat
      BY <3>4, FS_CardinalityType
    <3> QED BY <1>3, <3>4, <3>5, <3>6
  <2>2. ASSUME NEW d \in Departures, Depart(d)
        PROVE  FALSE
    BY <1>1, <1>4, <2>2 DEF Depart, Roster
  <2>3. ASSUME NEW o \in Accounts, NEW p \in People, TransferOrganiser(o, p)
        PROVE  FALSE
    BY <1>1, <1>4, <2>3 DEF TransferOrganiser, Roster
  <2>4. ASSUME UNCHANGED role
        PROVE  FALSE
    BY <1>4, <2>4 DEF Roster
  <2> QED BY <1>5, <1>6, <2>1, <2>2, <2>3, <2>4
          DEF CircleNext, JoinCircle, CheckSettings, UpdateCircleSettings, CheckRsvpIn,
              CheckMarkAvailable, CheckTap, Tap, TapOut, LockRotationIfDue, SwitchRotation,
              AskToLeave, AskToRemove, Request, WithdrawFutureRsvp, Refuse
<1>7. ASSUME NEW a \in Accounts, NEW i \in DOMAIN knocks, DecideCircleKnock(a, i)
      PROVE  settings.maxMembers = 0 \/ Cardinality(Roster') =< settings.maxMembers
  <2>1. knocks[i].by \in People
    BY KnockRows DEF TypeOK, KnockRow, People
  <2>2. ASSUME UNCHANGED role
        PROVE  FALSE
    BY <1>4, <2>2 DEF Roster
  <2> QED BY <1>5, <1>7, <2>1, <2>2 DEF DecideCircleKnock, Accept, Decline, circleVars
<1>8. ASSUME UNCHANGED role
      PROVE  FALSE
  BY <1>4, <1>8 DEF Roster
<1> QED BY <1>6, <1>7, <1>8
        DEF Next, CheckKnock, InsertKnock, AlreadyKnocked, WithdrawCircleKnock, CheckDecision,
            circleVars

\* No door lets in a member over the limit in force (insertCircleMembership),
\* whatever limit an organiser is about to save.
THEOREM LimitHolds == Spec => NoDoorOverfills
<1>1. TypeOK /\ [Next]_vars
        => [Cardinality(Roster') > Cardinality(Roster)
              => settings.maxMembers = 0 \/ Cardinality(Roster') =< settings.maxMembers]_vars
  <2> SUFFICES ASSUME TypeOK, Next
               PROVE  Cardinality(Roster') > Cardinality(Roster)
                        => settings.maxMembers = 0 \/ Cardinality(Roster') =< settings.maxMembers
      OBVIOUS
  <2> QED BY NoDoorOverfillsStep
<1> QED BY <1>1, TypeCorrect, PTL DEF Spec, NoDoorOverfills

-------------------------------------------------------------------------------
(* Knocks. *)

LEMMA SettledOnceStep ==
  ASSUME TypeOK, Next, NEW i \in DOMAIN knocks, knocks[i].status # "pending"
  PROVE  knocks'[i] = knocks[i]
<1>1. DOMAIN knocks = 1..Len(knocks) /\ Len(knocks) \in Nat /\ knocks \in Seq(KnockRow)
  BY KnockRows DEF TypeOK, KnockRow
<1>2. ASSUME NEW p \in Accounts, InsertKnock(p)
      PROVE  knocks'[i] = knocks[i]
  BY <1>1, <1>2 DEF InsertKnock
<1>3. ASSUME NEW p \in Accounts, WithdrawCircleKnock(p)
      PROVE  knocks'[i] = knocks[i]
  BY <1>3 DEF WithdrawCircleKnock, Pending
<1>4. ASSUME NEW o \in Accounts, NEW j \in DOMAIN knocks, DecideCircleKnock(o, j)
      PROVE  knocks'[i] = knocks[i]
  <2>1. CASE j = i
    BY <1>4, <2>1 DEF DecideCircleKnock, StillPending
  <2>2. CASE j # i
    BY <1>1, <1>4, <2>2 DEF DecideCircleKnock, Accept, Decline
  <2> QED BY <2>1, <2>2
<1> QED BY <1>2, <1>3, <1>4 DEF Next, doorVars, CheckKnock, AlreadyKnocked, CheckDecision

\* A knock that was answered or withdrawn is never answered again, however many
\* organisers had it open (decideCircleKnock, withdrawCircleKnock).
THEOREM KnocksSettleOnce == Spec => KnockSettledOnce
<1>1. TypeOK /\ [Next]_vars
        => [\A i \in DOMAIN knocks : knocks[i].status # "pending" => knocks'[i] = knocks[i]]_vars
  <2> SUFFICES ASSUME TypeOK, Next
               PROVE  \A i \in DOMAIN knocks : knocks[i].status # "pending" => knocks'[i] = knocks[i]
      OBVIOUS
  <2> QED BY SettledOnceStep
<1> QED BY <1>1, TypeCorrect, PTL DEF Spec, KnockSettledOnce

-------------------------------------------------------------------------------
(* What a leaver still holds. *)

\* What withdrawFutureRsvps has still to withdraw is all that the leaver holds,
\* but for what they tapped since they asked to go and what they were refused.
AllIsOnTheList ==
  \A d \in Departures, s \in Sessions :
    going[d].who \in Coming(s)
      => s \in going[d].left \/ going[d].who \in late[s] \cup refused[s]

LingerInv == OnlyLateOrRefusedLinger /\ AllIsOnTheList

\* An rsvp that goes takes its history with it and leaves everybody else's.
LEMMA OutTakesAll ==
  ASSUME CircleTypeOK, NEW p, NEW s \in Sessions, Out(p, s)
  PROVE  /\ \A t \in Sessions : Coming(t)' \subseteq Coming(t)
         /\ p \notin Coming(s)'
         /\ \A t \in Sessions :
              Coming(t)' \cap (late[t] \cup refused[t]) \subseteq late'[t] \cup refused'[t]
<1> QED BY DEF CircleTypeOK, Coming, Out

LEMMA LingerStep ==
  ASSUME TypeOK, LingerInv, CircleNext
  PROVE  LingerInv'
<1> USE DEF LingerInv, OnlyLateOrRefusedLinger, AllIsOnTheList, Roster
<1>1. /\ role \in [People -> {"none", "member", "organiser"}]
      /\ \A s \in Sessions : Coming(s) \subseteq Accounts
      /\ tapping \in [Sessions -> [who : Accounts, as : {"held", "available"}] \cup {NoTap}]
      /\ going \in [Departures -> Requests \cup {NoRequest}]
      /\ Nobody \notin Accounts /\ Accounts \cap Guests = {} /\ Accounts \subseteq People
      /\ CircleTypeOK
  BY CircleAssumption DEF TypeOK, CircleTypeOK, People, Coming
<1>2. ASSUME UNCHANGED <<available, held, late, refused>>
      PROVE  \A s \in Sessions : Coming(s)' = Coming(s) /\ late'[s] = late[s] /\ refused'[s] = refused[s]
  BY <1>2 DEF Coming
<1>3. ASSUME UNCHANGED <<available, held, late, refused, going>>, Roster \cap Accounts \subseteq Roster'
      PROVE  LingerInv'
  BY <1>1, <1>2, <1>3
<1>4. ASSUME NEW p \in People, JoinCircle(p)
      PROVE  LingerInv'
  <2>1. Roster \cap Accounts \subseteq Roster'
    BY <1>1, <1>4 DEF JoinCircle, InsertCircleMembership
  <2> QED BY <1>3, <1>4, <2>1 DEF JoinCircle
<1>5. ASSUME NEW g \in Guests, NEW a \in Accounts, MergeGuest(g, a)
      PROVE  LingerInv'
  <2>1. \A p \in Accounts : role[p] # "none" => role'[p] # "none"
    BY <1>1, <1>5 DEF MergeGuest
  <2>2. Roster \cap Accounts \subseteq Roster'
    BY <2>1
  <2> QED BY <1>3, <1>5, <2>2 DEF MergeGuest
<1>6. ASSUME NEW s \in Sessions, Tap(s)
      PROVE  LingerInv'
  <2> DEFINE p == tapping[s].who
  <2>1. /\ p \in Accounts /\ UNCHANGED <<role, going, refused>>
    BY <1>1, <1>6 DEF Tap, NoTap
  <2>2. \A t \in Sessions : Coming(t)' \subseteq IF t = s THEN Coming(t) \cup {p} ELSE Coming(t)
    BY <1>1, <1>6 DEF Tap, Coming, CircleTypeOK
  <2>3. \A t \in Sessions : late[t] \subseteq late'[t]
    BY <1>1, <1>6 DEF Tap, CircleTypeOK
  <2>4. Departing(p) \/ role[p] = "none" => p \in late'[s]
    BY <1>1, <1>6 DEF Tap, CircleTypeOK
  <2>5. p \in Roster' \cup late'[s]
    BY <1>1, <2>1, <2>4
  <2>6. \A d \in Departures : going[d].who = p => p \in late'[s]
    BY <2>4 DEF Departing
  <2>7. OnlyLateOrRefusedLinger'
    BY <1>1, <2>1, <2>2, <2>3, <2>5
  <2>8. AllIsOnTheList'
    BY <1>1, <2>1, <2>2, <2>3, <2>6
  <2> QED BY <2>7, <2>8
<1>7. ASSUME NEW p \in Accounts, NEW s \in Sessions, TapOut(p, s)
      PROVE  LingerInv'
  <2>1. Out(p, s) /\ UNCHANGED <<role, going>>
    BY <1>7 DEF TapOut
  <2> QED BY <1>1, <2>1, OutTakesAll
<1>8. ASSUME NEW s \in Sessions, LockRotationIfDue(s)
      PROVE  LingerInv'
  <2>1. \A t \in Sessions : Coming(t)' = Coming(t)
    BY <1>1, <1>8 DEF LockRotationIfDue, Coming, CircleTypeOK
  <2> QED BY <1>8, <2>1 DEF LockRotationIfDue
<1>9. ASSUME NEW d \in Departures, NEW by \in Accounts, NEW p \in People, Request(d, by, p)
      PROVE  LingerInv'
  <2>1. \A s \in Sessions : Coming(s)' = Coming(s) /\ late'[s] = late[s] /\ refused'[s] = refused[s]
    BY <1>2, <1>9 DEF Request
  <2>2. \A e \in Departures : e # d => going'[e] = going[e]
    BY <1>1, <1>9 DEF Request
  <2>3. going'[d].who = p /\ going'[d].left = OpenRsvps(p)
    BY <1>1, <1>9 DEF Request
  <2>4. AllIsOnTheList'
    BY <2>1, <2>2, <2>3 DEF OpenRsvps
  <2> QED BY <1>9, <2>1, <2>4 DEF Request
<1>10. ASSUME NEW d \in Departures, NEW s \in Sessions, WithdrawFutureRsvp(d, s)
       PROVE  LingerInv'
  <2> DEFINE p == going[d].who
  <2>1. going[d] \in Requests /\ UNCHANGED role
    BY <1>1, <1>10 DEF WithdrawFutureRsvp, NoRequest
  <2>2. \A e \in Departures : going'[e].who = going[e].who
    BY <1>1, <1>10, <2>1 DEF WithdrawFutureRsvp, Requests
  <2>3. \A e \in Departures, t \in Sessions :
          t \in going[e].left => t \in going'[e].left \/ (e = d /\ t = s)
    BY <1>1, <1>10, <2>1 DEF WithdrawFutureRsvp, Requests
  <2>4. /\ \A t \in Sessions : Coming(t)' \subseteq Coming(t)
        /\ \A t \in Sessions :
             Coming(t)' \cap (late[t] \cup refused[t]) \subseteq late'[t] \cup refused'[t]
        /\ p \in Coming(s)' => p \in late'[s] \cup refused'[s]
    <3>1. CASE role[p] = "none" /\ UNCHANGED <<available, held, late, refused>>
      <4>1. p \notin Roster
        BY <3>1
      <4> QED BY <1>1, <1>2, <3>1, <4>1
    <3>2. CASE Out(p, s)
      BY <1>1, <3>2, OutTakesAll
    <3>3. CASE /\ refused' = [refused EXCEPT ![s] = @ \cup ({p} \cap Coming(s))]
               /\ UNCHANGED <<available, held, late>>
      <4>1. \A t \in Sessions : Coming(t)' = Coming(t)
        BY <3>3 DEF Coming
      <4>2. refused \in [Sessions -> SUBSET Accounts]
        BY <1>1 DEF CircleTypeOK
      <4>3. \A t \in Sessions : refused[t] \subseteq refused'[t]
        BY <3>3, <4>2
      <4>4. p \in Coming(s) => p \in refused'[s]
        BY <3>3, <4>2
      <4> QED BY <3>3, <4>1, <4>3, <4>4
    <3> QED BY <1>10, <3>1, <3>2, <3>3 DEF WithdrawFutureRsvp
  <2>5. OnlyLateOrRefusedLinger'
    BY <2>1, <2>4
  <2>6. AllIsOnTheList'
    BY <2>2, <2>3, <2>4
  <2> QED BY <2>5, <2>6
<1>11. ASSUME NEW d \in Departures, Depart(d)
       PROVE  LingerInv'
  <2> DEFINE p == going[d].who
  <2>1. /\ role' = [role EXCEPT ![p] = "none"] /\ going' = [going EXCEPT ![d] = NoRequest]
        /\ going[d].left = {}
        /\ \A s \in Sessions : Coming(s)' = Coming(s) /\ late'[s] = late[s] /\ refused'[s] = refused[s]
    BY <1>2, <1>11 DEF Depart, Withdrawn
  <2>2. \A s \in Sessions : p \in Coming(s) => p \in late[s] \cup refused[s]
    BY <2>1
  <2>3. OnlyLateOrRefusedLinger'
    BY <1>1, <2>1, <2>2
  <2>4. AllIsOnTheList'
    BY <1>1, <2>1 DEF NoRequest
  <2> QED BY <2>3, <2>4
<1>12. ASSUME NEW d \in Departures, Refuse(d)
       PROVE  LingerInv'
  BY <1>1, <1>2, <1>12 DEF Refuse, NoRequest
<1>13. ASSUME NEW o \in Accounts, NEW p \in People, TransferOrganiser(o, p)
       PROVE  LingerInv'
  <2>1. Roster \cap Accounts \subseteq Roster'
    BY <1>1, <1>13 DEF TransferOrganiser
  <2> QED BY <1>3, <1>13, <2>1 DEF TransferOrganiser
<1>14. ASSUME UNCHANGED <<role, available, held, going, late, refused>>
       PROVE  LingerInv'
  BY <1>3, <1>14
<1> QED BY <1>4, <1>5, <1>6, <1>7, <1>8, <1>9, <1>10, <1>11, <1>12, <1>13, <1>14
        DEF CircleNext, CheckSettings, UpdateCircleSettings, CheckRsvpIn, CheckMarkAvailable,
            CheckTap, SwitchRotation, AskToLeave, AskToRemove, People

\* Whoever has gone holds nothing in the circle's upcoming sessions but what they
\* tapped while they were going and what markUnavailable refused to take back
\* (leaveCircle, removeMember).
THEOREM WithdrawnBeforeGone == Spec => []OnlyLateOrRefusedLinger
<1>1. Init => LingerInv
  BY CircleAssumption
     DEF Init, CircleInit, LingerInv, OnlyLateOrRefusedLinger, AllIsOnTheList, Coming, NoRequest, Roster
<1>2. TypeOK /\ LingerInv /\ [Next]_vars => LingerInv'
  <2> SUFFICES ASSUME TypeOK, LingerInv, [Next]_vars
               PROVE  LingerInv'
      OBVIOUS
  <2>1. CASE CircleNext
    BY <2>1, LingerStep
  <2>2. ASSUME NEW o \in Accounts, NEW i \in DOMAIN knocks, Accept(i)
        PROVE  LingerInv'
    <3>1. Roster \subseteq Roster' /\ UNCHANGED <<available, held, going, late, refused>>
      BY <2>2 DEF Accept, InsertCircleMembership, TypeOK, CircleTypeOK, Roster
    <3> QED BY <3>1 DEF LingerInv, OnlyLateOrRefusedLinger, AllIsOnTheList, Coming
  <2>3. CASE UNCHANGED circleVars
    BY <2>3 DEF circleVars, LingerInv, OnlyLateOrRefusedLinger, AllIsOnTheList, Coming, Roster
  <2> QED BY <2>1, <2>2, <2>3
          DEF Next, CheckKnock, InsertKnock, AlreadyKnocked, WithdrawCircleKnock, CheckDecision,
              DecideCircleKnock, Decline, vars
<1>3. LingerInv => OnlyLateOrRefusedLinger
  BY DEF LingerInv
<1> QED BY <1>1, <1>2, <1>3, TypeCorrect, PTL DEF Spec
===============================================================================
