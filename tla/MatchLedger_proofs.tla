-------------------------- MODULE MatchLedger_proofs --------------------------
(***************************************************************************)
(* Proofs about MatchLedger for every number of players, guests, matches   *)
(* and sessions, and every report validateRecordShape lets through.        *)
(***************************************************************************)
EXTENDS MatchLedger, FiniteSetTheorems, SequenceTheorems, TLAPS

-------------------------------------------------------------------------------
(* The inductive invariant. *)

InFlight(m) == txn[m].at # "idle"

\* Four people are on a recorded match, and a seal in flight is where its own
\* writes have brought it.
Shape(m) ==
  /\ Live(m) =>
       /\ match[m].four \in [1..4 -> People]
       /\ \A i, j \in 1..4 : i # j => Person(match[m].four[i]) # Person(match[m].four[j])
  /\ IF InFlight(m) THEN match[m].status = "pending_confirmation" ELSE txn[m] = NoTxn
  /\ txn[m].at = "load" => txn[m].next = 1 /\ match[m].kind # "friendly"
  /\ txn[m].at \in {"insert", "update"} => txn[m].next \in 1..4 /\ match[m].kind = "rated"

SealShape == \A m \in Matches : Shape(m)

\* The places of the four whose Ledger row is written, committed or not.
WrittenPlaces(m) ==
  CASE txn[m].at = "insert" -> 1..(txn[m].next - 1)
    [] txn[m].at = "update" -> 1..txn[m].next
    [] txn[m].at = "credit" -> IF match[m].kind = "rated" THEN 1..4 ELSE {}
    [] OTHER -> IF match[m].kind = "rated" /\ match[m].status = "verified" THEN 1..4 ELSE {}

\* Those players have a row of the match, and only one.
RowsWritten ==
  \A p \in People :
    /\ \A e, f \in ledger[p] : e.match = f.match => e = f
    /\ \A m \in Matches :
         (\E e \in ledger[p] : e.match = m) <=> (\E i \in WrittenPlaces(m) : match[m].four[i] = p)

\* A seal in flight holds its match's row; a merge holds the users rows it has come
\* to, and no seal has an open Ledger row of either player.
LocksHeld ==
  /\ \A m \in Matches : InFlight(m) <=> lock[m] = m
  /\ \A g \in Guests :
       /\ merge[g] # "idle" => lock[FirstRow(g)] = g /\ Sharers(FirstRow(g)) = {}
       /\ merge[g] = "both" => lock[SecondRow(g)] = g /\ Sharers(SecondRow(g)) = {}

\* The rows of a player are ordered as they were created, merged ones aside; a row of
\* a seal in flight is the player's own.
RowsOrdered ==
  \A p \in People : \A e \in ledger[p] :
    /\ e.earlier \subseteq {f.match : f \in ledger[p]} /\ e.match \notin e.earlier
    /\ ~Committed(e) => ~e.merged
    /\ \A f \in ledger[p] :
         /\ f.match \in e.earlier => f.earlier \subseteq e.earlier
         /\ ~e.merged /\ ~f.merged /\ e # f => e.match \in f.earlier \/ f.match \in e.earlier

\* A committed trail has a last row of the player's own, the one loadPlayerState reads.
IsLatest(e, events) == e \in events /\ \A f \in events : e.match \notin f.earlier
TrailsHaveALast ==
  \A p \in People : Trail(p) # {} => \E e \in LiveEvents(p) : IsLatest(e, LiveEvents(p))

LedgerInv ==
  TypeOK /\ SealShape /\ RowsWritten /\ LocksHeld /\ RowsOrdered /\ TrailsHaveALast

-------------------------------------------------------------------------------
(* Types and the shape of a seal. *)

\* A function on 1..n is a sequence.
LEMMA FunctionsAreSequences ==
  ASSUME NEW S, NEW n \in Nat, NEW f \in [1..n -> S]
  PROVE  f \in Seq(S)
OBVIOUS

\* Four places are four people.
LEMMA PlacesOfFour ==
  ASSUME NEW four \in [1..4 -> People]
  PROVE  four \in Seq(People) /\ Range(four) = {four[i] : i \in 1..4}
<1>1. four \in Seq(People)
  <2>1. 4 \in Nat
    OBVIOUS
  <2> QED BY <2>1, FunctionsAreSequences
<1>2. DOMAIN four = 1..4
  OBVIOUS
<1> QED BY <1>1, <1>2 DEF Range

\* A report is four people, no two identities of one of them.
LEMMA ReportShape ==
  ASSUME NEW r \in Reports
  PROVE  /\ r.match \in Matches /\ r.kind \in Kind /\ r.four \in [1..4 -> People]
         /\ \A i, j \in 1..4 : i # j => Person(r.four[i]) # Person(r.four[j])
<1>1. r.four \in Seq(People) /\ Len(r.four) = 4
  BY ReportAssumption
<1>2. r.four \in [1..4 -> People]
  BY <1>1, LenProperties
<1> QED BY <1>2, ReportAssumption, MergeAssumption

\* A match row is written whole when it is recorded, and otherwise changes its
\* status only.
LEMMA RecordShape ==
  ASSUME TypeOK, SealShape, NEW r \in Reports, NEW s \in Sessions \cup {AdHoc}, InsertMatch(r, s),
         UNCHANGED mergeVars
  PROVE  TypeOK' /\ SealShape'
<1> DEFINE new == [status |-> "pending_confirmation", four |-> r.four, kind |-> r.kind,
                   session |-> s, reporter |-> TeamOf(r.four, r.reporter)]
           m == r.match
<1>1. m \in Matches /\ new \in MatchRow
  BY ReportShape, PlacesOfFour DEF MatchRow, TeamOf
<1>2. match \in [Matches -> MatchRow] /\ match' = [match EXCEPT ![m] = new]
  BY DEF TypeOK, SealTypeOK, InsertMatch
<1>3. match' \in [Matches -> MatchRow]
  BY <1>1, <1>2
<1>4. TypeOK'
  BY <1>3 DEF TypeOK, SealTypeOK, InsertMatch, mergeVars
<1>5. txn' = txn /\ txn[m].at = "idle" /\ txn \in [Matches -> Txn]
  <2>1. match[m].status = "absent" /\ txn' = txn
    BY DEF InsertMatch
  <2> QED BY <1>1, <2>1 DEF SealShape, Shape, InFlight, TypeOK, SealTypeOK
<1>6. ASSUME NEW n \in Matches, n # m
      PROVE  match'[n] = match[n]
  BY <1>2, <1>6
<1>7. match'[m] = new
  BY <1>1, <1>2
<1>8. ASSUME NEW n \in Matches
      PROVE  Shape(n)'
  <2>1. CASE n # m
    BY <1>5, <1>6, <2>1 DEF SealShape, Shape, InFlight, Live
  <2>2. CASE n = m
    <3>1. txn[m] = NoTxn
      BY <1>1, <1>5 DEF SealShape, Shape, InFlight
    <3> QED BY <1>1, <1>5, <1>7, <2>2, <3>1, ReportShape DEF Shape, InFlight, Live, NoTxn
  <2> QED BY <2>1, <2>2
<1> QED BY <1>4, <1>8 DEF SealShape

\* A step of a seal that only moves its transaction on.
LEMMA TxnShape ==
  ASSUME TypeOK, SealShape, NEW m \in Matches, NEW t \in Txn, txn' = [txn EXCEPT ![m] = t],
         UNCHANGED match, IF t.at = "idle" THEN t = NoTxn ELSE match[m].status = "pending_confirmation",
         t.at = "load" => t.next = 1 /\ match[m].kind # "friendly",
         t.at \in {"insert", "update"} => t.next \in 1..4 /\ match[m].kind = "rated"
  PROVE  txn' \in [Matches -> Txn] /\ SealShape'
<1>1. txn \in [Matches -> Txn] /\ txn' \in [Matches -> Txn] /\ txn'[m] = t
      /\ \A n \in Matches : n # m => txn'[n] = txn[n]
  BY DEF TypeOK, SealTypeOK
<1>2. ASSUME NEW n \in Matches
      PROVE  Shape(n)'
  <2>1. CASE n # m
    BY <1>1, <2>1 DEF SealShape, Shape, InFlight, Live
  <2>2. CASE n = m
    <3>1. txn'[n] = t /\ match' = match /\ Shape(n)
      BY <1>1, <2>2 DEF SealShape
    <3> QED BY <2>2, <3>1 DEF Shape, InFlight, Live
  <2> QED BY <2>1, <2>2
<1> QED BY <1>1, <1>2 DEF SealShape

\* What a merge writes on a match row.
LEMMA RepointedRow ==
  ASSUME TypeOK, NEW g \in Guests, NEW a \in People, match' = Repointed(g, a), NEW m \in Matches
  PROVE  /\ match'[m] \in MatchRow /\ match'[m].status = match[m].status
         /\ match'[m].kind = match[m].kind /\ match'[m].session = match[m].session
         /\ DOMAIN match'[m].four = DOMAIN match[m].four
         /\ \A i \in DOMAIN match[m].four :
              match'[m].four[i] = IF match[m].four[i] = g THEN a ELSE match[m].four[i]
<1>0. match \in [Matches -> MatchRow]
  BY DEF TypeOK, SealTypeOK
<1> DEFINE four == match[m].four
           new == [i \in DOMAIN four |-> IF four[i] = g THEN a ELSE four[i]]
<1>1. match[m] \in MatchRow /\ four \in Seq(People)
  BY <1>0 DEF MatchRow
<1>2. Len(four) \in Nat /\ DOMAIN four = 1..Len(four) /\ \A i \in 1..Len(four) : four[i] \in People
  BY <1>1, LenProperties, ElementOfSeq
<1>3. new \in [1..Len(four) -> People]
  BY <1>2
<1>4. new \in Seq(People)
  <2> HIDE DEF new, four
  <2> QED BY <1>2, <1>3
<1>5. match'[m] = [match[m] EXCEPT !.four = new]
  BY <1>0 DEF Repointed
<1>6. match'[m] \in MatchRow
  <2> HIDE DEF new
  <2> QED BY <1>1, <1>4, <1>5 DEF MatchRow
<1>7. match'[m].four = new
  <2> HIDE DEF new
  <2> QED BY <1>1, <1>5 DEF MatchRow
<1>8. /\ match'[m].status = match[m].status /\ match'[m].kind = match[m].kind
      /\ match'[m].session = match[m].session
  <2> HIDE DEF new
  <2> QED BY <1>1, <1>5 DEF MatchRow
<1> QED BY <1>6, <1>7, <1>8

\* A merge repoints the fours it may: a seal in flight on one of them stops it.
LEMMA MergeShape ==
  ASSUME TypeOK, SealShape, NEW g \in Guests, ReattributeGuestData(g)
  PROVE  TypeOK' /\ SealShape'
<1> DEFINE a == MergeInto[g]
<1>1. a \in Accounts /\ a \in People /\ g \in People /\ a # g /\ Person(a) = a /\ Person(g) = a
  BY MergeAssumption, SealPeopleAssumption DEF People, Person
<1>2. /\ match \in [Matches -> MatchRow] /\ match' = Repointed(g, a) /\ txn' = txn
      /\ txn \in [Matches -> Txn]
  BY DEF TypeOK, SealTypeOK, ReattributeGuestData
<1>3. ASSUME NEW m \in Matches
      PROVE  /\ match'[m] \in MatchRow /\ match'[m].status = match[m].status
             /\ match'[m].kind = match[m].kind /\ match'[m].session = match[m].session
             /\ DOMAIN match'[m].four = DOMAIN match[m].four
             /\ \A i \in DOMAIN match[m].four :
                  match'[m].four[i] = IF match[m].four[i] = g THEN a ELSE match[m].four[i]
  BY <1>1, <1>2, RepointedRow
<1>4. match' \in [Matches -> MatchRow]
  <2>1. match' = [m \in Matches |-> match'[m]]
    BY <1>2 DEF Repointed
  <2> QED BY <1>3, <2>1
<1>5. answer' \in [Sessions -> [People -> {"none", "in", "out"}]]
  BY <1>1 DEF ReattributeGuestData, Reanswered, TypeOK, SealTypeOK
<1>6. ledger' \in [People -> SUBSET Event]
  <2>1. ledger \in [People -> SUBSET Event]
    BY DEF TypeOK, SealTypeOK
  <2>2. \A e \in ledger[g] : [e EXCEPT !.merged = @ \/ ledger[a] # {}] \in Event
    BY <1>1, <2>1 DEF Event
  <2>3. {[e EXCEPT !.merged = @ \/ ledger[a] # {}] : e \in ledger[g]} \subseteq Event
    BY <2>2
  <2> DEFINE moved == {[e EXCEPT !.merged = @ \/ ledger[a] # {}] : e \in ledger[g]}
  <2>4. ledger' = [ledger EXCEPT ![g] = {}, ![a] = @ \cup moved]
    BY DEF ReattributeGuestData, Reattributed
  <2> HIDE DEF moved
  <2> QED BY <1>1, <2>1, <2>3, <2>4 DEF moved
<1>7. glass' \in [People -> PlayerState]
  BY <1>1 DEF ReattributeGuestData, TypeOK, SealTypeOK
<1>8. rsvpIn' \in [People -> Nat] /\ showUp' \in [People -> Nat]
  BY <1>1 DEF ReattributeGuestData, TypeOK, SealTypeOK
<1>9. lock' \in [Rows -> Matches \cup Guests \cup {Free}]
  BY DEF ReattributeGuestData, Released, TypeOK, SealTypeOK
<1>10. TypeOK'
  <2>1. raced' \subseteq People
    BY <1>1 DEF ReattributeGuestData, TypeOK
  <2>2. ident' \in [Guests -> {"guest", "husk"}] /\ merge' \in [Guests -> {"idle", "first", "both"}]
    BY DEF ReattributeGuestData, TypeOK
  <2> QED BY <1>2, <1>4, <1>5, <1>6, <1>7, <1>8, <1>9, <2>1, <2>2 DEF TypeOK, SealTypeOK
<1>11. ASSUME NEW m \in Matches
       PROVE  Shape(m)'
  <2>1. Shape(m)
    BY DEF SealShape
  <2>2. /\ match'[m].status = match[m].status /\ match'[m].kind = match[m].kind
        /\ txn'[m] = txn[m]
    BY <1>2, <1>3
  <2>3. ASSUME Live(m)
        PROVE  /\ match'[m].four \in [1..4 -> People]
               /\ \A i, j \in 1..4 :
                    i # j => Person(match'[m].four[i]) # Person(match'[m].four[j])
    <3>1. /\ match[m].four \in [1..4 -> People] /\ DOMAIN match[m].four = 1..4
          /\ \A i, j \in 1..4 : i # j => Person(match[m].four[i]) # Person(match[m].four[j])
      BY <2>1, <2>3 DEF Shape
    <3>2. \A i \in 1..4 : Person(match'[m].four[i]) = Person(match[m].four[i])
      BY <1>1, <1>3, <3>1
    <3>3. match'[m].four \in [1..4 -> People]
      <4>1. match'[m].four \in Seq(People)
        BY <1>3 DEF MatchRow
      <4>2. DOMAIN match'[m].four = 1..4
        BY <1>3, <3>1
      <4>3. match'[m].four \in [1..Len(match'[m].four) -> People]
        BY <4>1, LenProperties
      <4> QED BY <4>2, <4>3
    <3> QED BY <3>1, <3>2, <3>3
  <2> QED BY <2>1, <2>2, <2>3 DEF Shape, InFlight, Live
<1> QED BY <1>10, <1>11 DEF SealShape

\* The players a seal writes are the four of its match.
LEMMA FourOf ==
  ASSUME TypeOK, SealShape, NEW m \in Matches, InFlight(m)
  PROVE  /\ match[m].four \in [1..4 -> People] /\ match[m].status = "pending_confirmation"
         /\ Range(match[m].four) = {match[m].four[i] : i \in 1..4}
         /\ Range(match[m].four) \subseteq People
<1>1. Live(m) /\ Shape(m) /\ match[m].status = "pending_confirmation"
  BY DEF SealShape, Shape, Live
<1>2. match[m].four \in [1..4 -> People]
  BY <1>1 DEF Shape
<1>3. Range(match[m].four) = {match[m].four[i] : i \in 1..4}
  BY <1>2, PlacesOfFour
<1>4. \A i \in 1..4 : match[m].four[i] \in People
  BY <1>2
<1> QED BY <1>1, <1>2, <1>3, <1>4

\* The place a seal credits next.
LEMMA NextToCredit ==
  ASSUME TypeOK, NEW m \in Matches, ToCredit(m) # {}
  PROVE  Min(ToCredit(m)) \in ToCredit(m) /\ Min(ToCredit(m)) \in 1..4
<1>1. txn[m].next \in 1..5
  BY DEF TypeOK, SealTypeOK, Txn
<1>2. ToCredit(m) \subseteq 1..4
  BY <1>1 DEF ToCredit
<1>3. \E i \in ToCredit(m) : \A j \in ToCredit(m) : i =< j
  <2> DEFINE C(i) == i \in ToCredit(m)
  <2>1. C(1) \/ C(2) \/ C(3) \/ C(4)
    BY <1>2
  <2>2. \A j \in ToCredit(m) : j = 1 \/ j = 2 \/ j = 3 \/ j = 4
    BY <1>2
  <2> QED BY <2>1, <2>2
<1>4. Min(ToCredit(m)) \in ToCredit(m)
  BY <1>3 DEF Min
<1> QED BY <1>2, <1>4

\* A last row, where there is one, is what Latest finds.
LEMMA LatestIsLast ==
  ASSUME NEW events, NEW e, IsLatest(e, events)
  PROVE  IsLatest(Latest(events), events)
BY DEF IsLatest, Latest

\* What a seal loads of a player is a player's state.
LEMMA LoadedType ==
  ASSUME TypeOK, TrailsHaveALast, NEW p \in People, Loadable(p)
  PROVE  Loaded(p) \in PlayerState
<1>1. glass[p] \in PlayerState /\ ledger[p] \subseteq Event
  BY DEF TypeOK, SealTypeOK
<1>2. CASE glass[p].count = 0
  BY <1>2 DEF Loaded, Fresh, PlayerState
<1>3. CASE glass[p].count # 0
  <2>1. PICK e : IsLatest(e, LiveEvents(p))
    BY <1>3 DEF Loadable, TrailsHaveALast
  <2>2. LiveEvents(p) # {} /\ LiveEvents(p) \subseteq Event
    BY <1>1, <2>1 DEF IsLatest, LiveEvents, Trail
  <2>3. Latest(LiveEvents(p)) \in Event
    BY <2>1, <2>2, LatestIsLast DEF IsLatest
  <2>4. After(Latest(LiveEvents(p))) \subseteq Matches
    BY <2>3 DEF After, Event
  <2>5. Trajectory(p) = LiveEvents(p)
    BY <2>2 DEF Trajectory
  <2> QED BY <1>1, <1>3, <2>4, <2>5 DEF Loaded, PlayerState
<1> QED BY <1>2, <1>3

-------------------------------------------------------------------------------
(* Steps that write no Ledger row. *)

\* Where no row is written and no match is sealed, the trails stay as they are.
LEMMA TrailsStay ==
  ASSUME TypeOK, RowsOrdered, TrailsHaveALast, UNCHANGED ledger,
         \A m \in Matches : match'[m].status = "verified" <=> match[m].status = "verified"
  PROVE  /\ RowsOrdered' /\ TrailsHaveALast'
         /\ \A p \in People : Trail(p)' = Trail(p) /\ Sharers(p)' = Sharers(p)
<1>1. \A p \in People : \A e \in ledger[p] : e.match \in Matches
  BY DEF TypeOK, SealTypeOK, Event
<1>2. \A p \in People : \A e \in ledger[p] : Committed(e)' <=> Committed(e)
  BY <1>1 DEF Committed
<1>3. \A p \in People : Trail(p)' = Trail(p) /\ Sharers(p)' = Sharers(p)
  BY <1>2 DEF Trail, Sharers
<1>4. \A p \in People : LiveEvents(p)' = LiveEvents(p)
  BY <1>3 DEF LiveEvents
<1>5. RowsOrdered'
  BY <1>2 DEF RowsOrdered
<1>6. TrailsHaveALast'
  BY <1>3, <1>4 DEF TrailsHaveALast
<1> QED BY <1>3, <1>5, <1>6

\* Where the places written of every match stay, so do their rows.
LEMMA PlacesStay ==
  ASSUME RowsWritten, UNCHANGED ledger,
         \A m \in Matches :
           /\ WrittenPlaces(m)' = WrittenPlaces(m)
           /\ match'[m].four = match[m].four \/ WrittenPlaces(m) = {}
  PROVE  RowsWritten'
<1>1. ASSUME NEW p \in People, NEW m \in Matches
      PROVE  (\E i \in WrittenPlaces(m)' : match'[m].four[i] = p) <=>
             (\E i \in WrittenPlaces(m) : match[m].four[i] = p)
  OBVIOUS
<1> QED BY <1>1 DEF RowsWritten

\* A step that touches neither matches, Ledger nor locks.
LEMMA LocksStay ==
  ASSUME TypeOK, LocksHeld, UNCHANGED <<lock, merge>>,
         \A m \in Matches : InFlight(m)' <=> InFlight(m),
         \A p \in People : Sharers(p)' \subseteq Sharers(p)
  PROVE  LocksHeld'
<1>1. \A g \in Guests : FirstRow(g) \in People /\ SecondRow(g) \in People
  BY MergeAssumption DEF FirstRow, SecondRow, People
<1> QED BY <1>1 DEF LocksHeld, FirstRow, SecondRow

\* An answer for a session is none of the Ledger's business.
LEMMA AnswerLedger ==
  ASSUME LedgerInv, NEW s \in Sessions, NEW p \in Tappers, SayIn(s, p) \/ SayOut(s, p),
         UNCHANGED mergeVars
  PROVE  LedgerInv'
<1>1. UNCHANGED <<match, ledger, glass, showUp, txn, lock>> /\ UNCHANGED mergeVars
  BY DEF SayIn, SayOut
<1>2. p \in People
  BY SealPeopleAssumption
<1>3. answer' \in [Sessions -> [People -> {"none", "in", "out"}]] /\ rsvpIn' \in [People -> Nat]
  <2>1. answer' \in [Sessions -> [People -> {"none", "in", "out"}]]
    BY <1>2 DEF SayIn, SayOut, LedgerInv, TypeOK, SealTypeOK
  <2>2. rsvpIn' \in [People -> Nat]
    BY <1>2 DEF SayIn, SayOut, LedgerInv, TypeOK, SealTypeOK
  <2> QED BY <2>1, <2>2
<1>4. TypeOK'
  BY <1>1, <1>3 DEF LedgerInv, TypeOK, SealTypeOK, mergeVars
<1>5. SealShape'
  BY <1>1 DEF LedgerInv, SealShape, Shape, InFlight, Live
<1>6. RowsOrdered' /\ TrailsHaveALast' /\ \A q \in People : Sharers(q)' = Sharers(q)
  BY <1>1, TrailsStay DEF LedgerInv
<1>7. \A m \in Matches : WrittenPlaces(m)' = WrittenPlaces(m) /\ match'[m].four = match[m].four
  BY <1>1 DEF WrittenPlaces
<1>8. RowsWritten'
  BY <1>1, <1>7, PlacesStay DEF LedgerInv
<1>9. LocksHeld'
  BY <1>1, <1>6, LocksStay DEF LedgerInv, InFlight, mergeVars
<1> QED BY <1>4, <1>5, <1>6, <1>8, <1>9 DEF LedgerInv

\* A match recorded has no row yet.
LEMMA RecordLedger ==
  ASSUME LedgerInv, NEW r \in Reports, NEW s \in Sessions \cup {AdHoc}, InsertMatch(r, s),
         UNCHANGED mergeVars
  PROVE  LedgerInv'
<1> DEFINE m == r.match
<1>1. TypeOK' /\ SealShape'
  BY RecordShape DEF LedgerInv
<1>2. UNCHANGED <<ledger, txn, lock, merge>>
  BY DEF InsertMatch, mergeVars
<1>3. m \in Matches /\ match[m].status = "absent" /\ match'[m].status = "pending_confirmation"
      /\ \A n \in Matches : n # m => match'[n] = match[n]
  BY ReportShape DEF InsertMatch, LedgerInv, TypeOK, SealTypeOK
<1>4. txn[m].at = "idle"
  <2>1. InFlight(m) => match[m].status = "pending_confirmation"
    BY <1>3 DEF LedgerInv, SealShape, Shape
  <2> QED BY <1>3, <2>1 DEF InFlight
<1>5. ASSUME NEW n \in Matches
      PROVE  /\ WrittenPlaces(n)' = WrittenPlaces(n)
             /\ match'[n].four = match[n].four \/ WrittenPlaces(n) = {}
             /\ match'[n].status = "verified" <=> match[n].status = "verified"
  <2>1. CASE n = m
    BY <1>2, <1>3, <1>4, <2>1 DEF WrittenPlaces
  <2>2. CASE n # m
    BY <1>2, <1>3, <2>2 DEF WrittenPlaces
  <2> QED BY <2>1, <2>2
<1>6. RowsOrdered' /\ TrailsHaveALast' /\ \A p \in People : Sharers(p)' = Sharers(p)
  BY <1>2, <1>5, TrailsStay DEF LedgerInv
<1>7. RowsWritten'
  BY <1>2, <1>5, PlacesStay DEF LedgerInv
<1>8. LocksHeld'
  BY <1>2, <1>6, LocksStay DEF LedgerInv, InFlight
<1> QED BY <1>1, <1>6, <1>7, <1>8 DEF LedgerInv

\* A disputed match was not being sealed.
LEMMA DisputeLedger ==
  ASSUME LedgerInv, NEW m \in Matches, DisputeMatch(m), UNCHANGED mergeVars
  PROVE  LedgerInv'
<1>1. UNCHANGED <<ledger, glass, answer, rsvpIn, showUp, txn, lock>> /\ UNCHANGED mergeVars
  BY DEF DisputeMatch
<1>2. match \in [Matches -> MatchRow] /\ txn \in [Matches -> Txn] /\ match[m] \in MatchRow
  BY DEF LedgerInv, TypeOK, SealTypeOK
<1>3. /\ match'[m] = [match[m] EXCEPT !.status = "disputed"]
      /\ \A n \in Matches : n # m => match'[n] = match[n]
  BY <1>2 DEF DisputeMatch
<1>4. /\ match'[m].status = "disputed" /\ match'[m].four = match[m].four
      /\ match'[m].kind = match[m].kind /\ match'[m] \in MatchRow
  BY <1>2, <1>3 DEF MatchRow
<1>5. match' \in [Matches -> MatchRow]
  BY <1>2, <1>4 DEF DisputeMatch
<1>6. TypeOK'
  BY <1>1, <1>5 DEF LedgerInv, TypeOK, SealTypeOK, mergeVars
<1>7. match[m].status = "pending_confirmation" /\ txn[m].at = "idle"
  BY OwnerAssumption DEF DisputeMatch, LedgerInv, LocksHeld, InFlight
<1>8. ASSUME NEW n \in Matches
      PROVE  /\ Shape(n)' /\ WrittenPlaces(n)' = WrittenPlaces(n)
             /\ match'[n].four = match[n].four
             /\ match'[n].status = "verified" <=> match[n].status = "verified"
  <2>1. Shape(n)
    BY DEF LedgerInv, SealShape
  <2>2. CASE n = m
    BY <1>1, <1>4, <1>7, <2>1, <2>2 DEF WrittenPlaces, Shape, InFlight, Live
  <2>3. CASE n # m
    BY <1>1, <1>3, <2>1, <2>3 DEF WrittenPlaces, Shape, InFlight, Live
  <2> QED BY <2>2, <2>3
<1>9. RowsOrdered' /\ TrailsHaveALast' /\ \A p \in People : Sharers(p)' = Sharers(p)
  BY <1>1, <1>8, TrailsStay DEF LedgerInv
<1>10. RowsWritten'
  BY <1>1, <1>8, PlacesStay DEF LedgerInv
<1>11. LocksHeld'
  BY <1>1, <1>9, LocksStay DEF LedgerInv, InFlight, mergeVars
<1> QED BY <1>6, <1>8, <1>9, <1>10, <1>11 DEF LedgerInv, SealShape

-------------------------------------------------------------------------------
(* Steps of a seal. *)

\* A step of a seal that writes no Ledger row: the places written do not change, and
\* the rows locked are free or the seal's own.
LEMMA SealMoves ==
  ASSUME LedgerInv, NEW m \in Matches, NEW t \in Txn, t.at # "idle",
         txn' = [txn EXCEPT ![m] = t], UNCHANGED <<match, ledger, glass, showUp, bookVars>>,
         UNCHANGED <<ident, merge>>, raced' \subseteq People,
         match[m].status = "pending_confirmation",
         t.at = "load" => t.next = 1 /\ match[m].kind # "friendly",
         t.at \in {"insert", "update"} => t.next \in 1..4 /\ match[m].kind = "rated",
         NEW r \in Rows, lock[r] \in {Free, m}, lock' = [lock EXCEPT ![r] = m],
         InFlight(m) \/ r = m, r \in Matches => r = m,
         WrittenPlaces(m)' = WrittenPlaces(m)
  PROVE  LedgerInv'
<1>1. txn' \in [Matches -> Txn] /\ SealShape'
  BY TxnShape DEF LedgerInv
<1>2. lock \in [Rows -> Matches \cup Guests \cup {Free}]
  BY DEF LedgerInv, TypeOK, SealTypeOK
<1>3. TypeOK'
  <2>1. lock' \in [Rows -> Matches \cup Guests \cup {Free}]
    BY <1>2
  <2> QED BY <1>1, <2>1 DEF LedgerInv, TypeOK, SealTypeOK, bookVars
<1>4. txn \in [Matches -> Txn] /\ txn'[m] = t /\ \A n \in Matches : n # m => txn'[n] = txn[n]
  BY DEF LedgerInv, TypeOK, SealTypeOK
<1>5. \A n \in Matches : WrittenPlaces(n)' = WrittenPlaces(n)
  <2>1. ASSUME NEW n \in Matches, n # m
        PROVE  WrittenPlaces(n)' = WrittenPlaces(n)
    BY <1>4, <2>1 DEF WrittenPlaces
  <2> QED BY <2>1
<1>6. RowsOrdered' /\ TrailsHaveALast' /\ \A p \in People : Sharers(p)' = Sharers(p)
  BY TrailsStay DEF LedgerInv
<1>7. RowsWritten'
  BY <1>5, PlacesStay DEF LedgerInv
<1>8. LocksHeld'
  <2>1. m \notin Guests /\ m \notin People /\ Free # m
    BY OwnerAssumption DEF People
  <2>2. \A q \in Rows : lock'[q] = IF q = r THEN m ELSE lock[q]
    BY <1>2
  <2>3. ASSUME NEW n \in Matches
        PROVE  InFlight(n)' <=> lock'[n] = n
    <3>1. n \in Rows /\ (InFlight(n) <=> lock[n] = n)
      BY DEF LedgerInv, LocksHeld, Rows
    <3>2. CASE n = m
      <4>1. InFlight(n)'
        BY <1>4, <3>2 DEF InFlight
      <4>2. lock'[n] = n
        BY <2>2, <3>1, <3>2
      <4> QED BY <4>1, <4>2
    <3>3. CASE n # m
      BY <1>4, <2>2, <3>1, <3>3 DEF InFlight
    <3> QED BY <3>2, <3>3
  <2>4. ASSUME NEW g \in Guests, NEW q \in People, lock[q] = g, Sharers(q) = {}
        PROVE  lock'[q] = g /\ Sharers(q)' = {}
    <3>1. q # r
      BY <2>1, <2>4, OwnerAssumption
    <3> QED BY <1>6, <2>2, <2>4, <3>1 DEF Rows
  <2>5. \A g \in Guests : FirstRow(g) \in People /\ SecondRow(g) \in People
    BY MergeAssumption DEF FirstRow, SecondRow, People
  <2>6. ASSUME NEW g \in Guests
        PROVE  /\ merge'[g] # "idle" => lock'[FirstRow(g)] = g /\ Sharers(FirstRow(g))' = {}
               /\ merge'[g] = "both" => lock'[SecondRow(g)] = g /\ Sharers(SecondRow(g))' = {}
    BY <2>4, <2>5 DEF LedgerInv, LocksHeld
  <2> QED BY <2>3, <2>6 DEF LocksHeld
<1> QED BY <1>1, <1>3, <1>6, <1>7, <1>8 DEF LedgerInv

\* A confirmation opens a seal on a pending match.
LEMMA ConfirmLedger ==
  ASSUME LedgerInv, NEW m \in Matches, Confirm(m)
  PROVE  LedgerInv'
<1> DEFINE t == [txn[m] EXCEPT !.at = IF match[m].kind = "friendly" THEN "credit" ELSE "load"]
<1>1. /\ UNCHANGED <<match, ledger, glass, showUp, bookVars>> /\ UNCHANGED <<ident, merge>>
      /\ match[m].status = "pending_confirmation" /\ lock[m] = Free
      /\ lock' = [lock EXCEPT ![m] = m]
      /\ txn' = [txn EXCEPT ![m].at = IF match[m].kind = "friendly" THEN "credit" ELSE "load"]
  BY DEF Confirm, ConfirmMatch, bookVars, ledgerVars
<1>2. txn \in [Matches -> Txn] /\ match[m] \in MatchRow
  BY DEF LedgerInv, TypeOK, SealTypeOK
<1>3. txn[m] = NoTxn /\ txn[m].at = "idle"
  BY <1>1, OwnerAssumption DEF LedgerInv, SealShape, Shape, LocksHeld, InFlight, NoTxn
<1>4. t \in Txn /\ t.next = 1 /\ t.at = (IF match[m].kind = "friendly" THEN "credit" ELSE "load")
  BY <1>2, <1>3 DEF Txn, NoTxn
<1>5. txn' = [txn EXCEPT ![m] = t]
  BY <1>1, <1>2
<1> HIDE DEF t
<1>6. raced' \subseteq People
  BY DEF Confirm, NoteRaces, LedgerInv, TypeOK
<1>7. WrittenPlaces(m)' = WrittenPlaces(m)
  <2>1. txn'[m] = t /\ match' = match
    BY <1>1, <1>2, <1>5
  <2>2. WrittenPlaces(m) = {}
    BY <1>1, <1>3 DEF WrittenPlaces
  <2>3. WrittenPlaces(m)' = {}
    BY <1>1, <1>4, <2>1 DEF WrittenPlaces
  <2> QED BY <2>2, <2>3
<1> QED BY <1>1, <1>4, <1>5, <1>6, <1>7, SealMoves DEF Rows

\* The four are read before a row is written.
LEMMA LoadLedger ==
  ASSUME LedgerInv, NEW m \in Matches, LoadPlayerStates(m), UNCHANGED <<ident, merge>>, NoteRaces
  PROVE  LedgerInv'
<1> DEFINE seen == [p \in People |-> IF p \in Range(match[m].four) THEN Loaded(p) ELSE Fresh]
           at == IF match[m].kind = "skipped" THEN "credit" ELSE "insert"
           t == [txn[m] EXCEPT !.seen = seen, !.at = at]
<1>1. /\ UNCHANGED <<match, ledger, glass, showUp, bookVars>> /\ UNCHANGED <<ident, merge>>
      /\ txn[m].at = "load" /\ UNCHANGED lock /\ \A p \in Range(match[m].four) : Loadable(p)
      /\ txn' = [txn EXCEPT ![m].seen = seen, ![m].at = at]
  BY DEF LoadPlayerStates, bookVars, ledgerVars
<1>2. txn \in [Matches -> Txn] /\ match[m] \in MatchRow /\ txn[m] \in Txn
      /\ lock \in [Rows -> Matches \cup Guests \cup {Free}]
  BY DEF LedgerInv, TypeOK, SealTypeOK
<1>3. /\ match[m].status = "pending_confirmation" /\ txn[m].next = 1 /\ match[m].kind # "friendly"
      /\ lock[m] = m
  BY <1>1 DEF LedgerInv, SealShape, Shape, LocksHeld, InFlight
<1>4. seen \in [People -> PlayerState]
  <2>1. Fresh \in PlayerState
    BY DEF Fresh, PlayerState
  <2>2. \A p \in People : p \in Range(match[m].four) => Loaded(p) \in PlayerState
    BY <1>1, LoadedType DEF LedgerInv
  <2> QED BY <2>1, <2>2
<1>5. t \in Txn /\ t.next = 1 /\ t.at = at
  <2> HIDE DEF seen
  <2> QED BY <1>2, <1>3, <1>4 DEF Txn
<1>6. txn' = [txn EXCEPT ![m] = t]
  BY <1>1, <1>2
<1> HIDE DEF t, seen
<1>7. raced' \subseteq People
  BY DEF NoteRaces, LedgerInv, TypeOK
<1>8. match[m].kind \in Kind
  BY <1>2 DEF MatchRow
<1>9. at \in {"credit", "insert"} /\ (at = "insert" => match[m].kind = "rated")
      /\ (at = "credit" => match[m].kind = "skipped")
  BY <1>3, <1>8 DEF Kind
<1>10. WrittenPlaces(m)' = WrittenPlaces(m)
  <2>1. txn'[m] = t /\ match' = match
    BY <1>1, <1>2, <1>6
  <2>2. WrittenPlaces(m) = {}
    BY <1>1, <1>3 DEF WrittenPlaces
  <2>3. WrittenPlaces(m)' = {}
    <3>1. 1..(1 - 1) = {}
      OBVIOUS
    <3> QED BY <1>5, <1>9, <2>1, <3>1 DEF WrittenPlaces
  <2> QED BY <2>2, <2>3
<1>11. lock' = [lock EXCEPT ![m] = m] /\ m \in Rows
  BY <1>1, <1>2, <1>3 DEF Rows
<1>12. t.next \in 1..4 /\ t.at # "idle" /\ t.at # "load"
  BY <1>5, <1>9
<1> HIDE DEF at
<1> QED BY <1>1, <1>3, <1>5, <1>6, <1>7, <1>9, <1>10, <1>11, <1>12, SealMoves

\* The users row of the player just written, and on to the next player.
LEMMA UpdateLedger ==
  ASSUME LedgerInv, NEW m \in Matches, UpdateRating(m), UNCHANGED <<ident, merge>>, NoteRaces
  PROVE  LedgerInv'
<1> DEFINE t == IF txn[m].next < 4 THEN [txn[m] EXCEPT !.at = "insert", !.next = txn[m].next + 1]
                ELSE [txn[m] EXCEPT !.at = "credit", !.next = 1]
           p == Player(m)
<1>1. /\ UNCHANGED <<match, ledger, glass, showUp, bookVars>> /\ UNCHANGED <<ident, merge>>
      /\ txn[m].at = "update" /\ lock' = [lock EXCEPT ![p] = m] /\ CanWrite(m, p)
      /\ txn' = IF txn[m].next < 4
                 THEN [txn EXCEPT ![m].at = "insert", ![m].next = @ + 1]
                 ELSE [txn EXCEPT ![m].at = "credit", ![m].next = 1]
  BY DEF UpdateRating, bookVars, ledgerVars
<1>2. txn' = [txn EXCEPT ![m] = t] /\ txn \in [Matches -> Txn] /\ txn[m] \in Txn /\ TypeOK /\ SealShape
  BY <1>1 DEF LedgerInv, TypeOK, SealTypeOK
<1>3. /\ match[m].status = "pending_confirmation" /\ txn[m].next \in 1..4 /\ InFlight(m)
      /\ match[m].kind = "rated"
  BY <1>1 DEF LedgerInv, SealShape, Shape, InFlight
<1>4. p \in People
  BY <1>2, <1>3, FourOf DEF Player
<1>5. /\ t \in Txn
      /\ IF txn[m].next < 4 THEN t.at = "insert" /\ t.next = txn[m].next + 1 ELSE t.at = "credit"
  <2>1. CASE txn[m].next < 4
    <3>1. t = [txn[m] EXCEPT !.at = "insert", !.next = txn[m].next + 1]
      BY <2>1
    <3>2. txn[m].next + 1 \in 1..5
      BY <1>3
    <3> HIDE DEF t
    <3>3. t \in Txn /\ t.at = "insert" /\ t.next = txn[m].next + 1
      BY <1>2, <3>1, <3>2 DEF Txn
    <3> QED BY <2>1, <3>3
  <2>2. CASE ~(txn[m].next < 4)
    <3>1. t = [txn[m] EXCEPT !.at = "credit", !.next = 1] /\ 1 \in 1..5
      BY <2>2
    <3> HIDE DEF t
    <3>2. t \in Txn /\ t.at = "credit"
      BY <1>2, <3>1 DEF Txn
    <3> QED BY <2>2, <3>2
  <2> QED BY <2>1, <2>2
<1>6. t.at # "idle" /\ t.at # "load" /\ (t.at \in {"insert", "update"} => t.next \in 1..4)
  BY <1>3, <1>5
<1> HIDE DEF t
<1>7. raced' \subseteq People
  BY DEF NoteRaces, LedgerInv, TypeOK
<1>8. WrittenPlaces(m)' = WrittenPlaces(m)
  <2>1. txn'[m] = t /\ match' = match
    BY <1>1, <1>2
  <2>2. WrittenPlaces(m) = 1..txn[m].next
    BY <1>1 DEF WrittenPlaces
  <2>3. CASE txn[m].next < 4
    <3>1. WrittenPlaces(m)' = 1..(t.next - 1)
      BY <1>5, <2>1, <2>3 DEF WrittenPlaces
    <3> QED BY <1>3, <1>5, <2>2, <2>3, <3>1
  <2>4. CASE ~(txn[m].next < 4)
    <3>1. txn[m].next = 4
      BY <1>3, <2>4
    <3>2. WrittenPlaces(m)' = 1..4
      BY <1>3, <1>5, <2>1, <2>4 DEF WrittenPlaces
    <3> QED BY <2>2, <3>1, <3>2
  <2> QED BY <2>3, <2>4
<1>9. p \in Rows /\ lock[p] \in {Free, m} /\ p \notin Matches
  BY <1>1, <1>4, OwnerAssumption DEF Rows, CanWrite
<1> HIDE DEF p
<1> QED BY <1>1, <1>2, <1>3, <1>5, <1>6, <1>7, <1>8, <1>9, SealMoves

\* A credit is a users row more, and the next place.
LEMMA CreditLedger ==
  ASSUME LedgerInv, NEW m \in Matches, CreditShowUp(m), UNCHANGED <<ident, merge>>, NoteRaces
  PROVE  LedgerInv'
<1> DEFINE i == Min(ToCredit(m))
           p == match[m].four[i]
           t == [txn[m] EXCEPT !.shows = txn[m].shows \cup {p}, !.next = i + 1]
<1>1. /\ UNCHANGED <<match, ledger, glass, showUp, bookVars>> /\ UNCHANGED <<ident, merge>>
      /\ txn[m].at = "credit" /\ lock' = [lock EXCEPT ![p] = m] /\ CanWrite(m, p)
      /\ ToCredit(m) # {}
      /\ txn' = [txn EXCEPT ![m].shows = @ \cup {p}, ![m].next = i + 1]
  BY DEF CreditShowUp, bookVars, ledgerVars
<1>2. txn \in [Matches -> Txn] /\ txn[m] \in Txn /\ TypeOK /\ SealShape
  BY DEF LedgerInv, TypeOK, SealTypeOK
<1>3. match[m].status = "pending_confirmation" /\ InFlight(m)
  BY <1>1 DEF LedgerInv, SealShape, Shape, InFlight
<1>4. i \in 1..4 /\ p \in People
  BY <1>1, <1>2, <1>3, FourOf, NextToCredit
<1>5. txn' = [txn EXCEPT ![m] = t]
  BY <1>1, <1>2
<1> HIDE DEF i, p
<1>6. t \in Txn /\ t.at = "credit"
  <2>1. txn[m].shows \cup {p} \in SUBSET People /\ i + 1 \in 1..5
    BY <1>2, <1>4 DEF Txn
  <2> QED BY <1>1, <1>2, <2>1 DEF Txn
<1> HIDE DEF t
<1>7. raced' \subseteq People
  BY DEF NoteRaces, LedgerInv, TypeOK
<1>8. WrittenPlaces(m)' = WrittenPlaces(m)
  <2>1. txn'[m] = t /\ match' = match
    BY <1>1, <1>2, <1>5
  <2> QED BY <1>1, <1>6, <2>1 DEF WrittenPlaces
<1>9. p \in Rows /\ lock[p] \in {Free, m} /\ p \notin Matches
  BY <1>1, <1>4, OwnerAssumption DEF Rows, CanWrite
<1>10. t.at # "idle" /\ t.at # "load" /\ t.at \notin {"insert", "update"}
  BY <1>6
<1> QED BY <1>1, <1>3, <1>5, <1>6, <1>7, <1>8, <1>9, <1>10, SealMoves

\* The new row is the last of its player's, and the only one of its match.
LEMMA InsertLedger ==
  ASSUME LedgerInv, NEW m \in Matches, InsertRatingEvent(m), UNCHANGED <<ident, merge>>, NoteRaces
  PROVE  LedgerInv'
<1> DEFINE p == Player(m)
           e == [match |-> m, before |-> txn[m].seen[p].rating, merged |-> FALSE,
                 earlier |-> {f.match : f \in ledger[p]}]
           t == [txn[m] EXCEPT !.at = "update"]
           n == txn[m].next
<1>1. /\ txn[m].at = "insert" /\ lock[p] \notin Guests
      /\ ledger' = [ledger EXCEPT ![p] = @ \cup {e}]
      /\ txn' = [txn EXCEPT ![m].at = "update"]
      /\ UNCHANGED <<match, answer, rsvpIn, glass, showUp, lock>>
  BY DEF InsertRatingEvent, bookVars
<1>2. /\ txn \in [Matches -> Txn] /\ txn[m] \in Txn /\ TypeOK /\ SealShape
      /\ ledger \in [People -> SUBSET Event]
  BY DEF LedgerInv, TypeOK, SealTypeOK
<1>3. /\ match[m].status = "pending_confirmation" /\ n \in 1..4 /\ InFlight(m)
      /\ match[m].kind = "rated"
  BY <1>1 DEF LedgerInv, SealShape, Shape, InFlight
<1>4. /\ p \in People /\ p = match[m].four[n] /\ match[m].four \in [1..4 -> People]
      /\ \A i, j \in 1..4 : i # j => Person(match[m].four[i]) # Person(match[m].four[j])
  <2>1. match[m].four \in [1..4 -> People]
    BY <1>2, <1>3, FourOf
  <2>2. \A i, j \in 1..4 : i # j => Person(match[m].four[i]) # Person(match[m].four[j])
    BY <1>3 DEF LedgerInv, SealShape, Shape, Live
  <2> QED BY <1>3, <2>1, <2>2 DEF Player
<1>5. t \in Txn /\ t.at = "update" /\ t.next = n /\ t.seen = txn[m].seen
  BY <1>2 DEF Txn
<1>6. txn' = [txn EXCEPT ![m] = t] /\ txn'[m] = t /\ \A k \in Matches : k # m => txn'[k] = txn[k]
  BY <1>1, <1>2
<1>7. e \in Event
  <2>1. txn[m].seen[p] \in PlayerState
    BY <1>2, <1>4 DEF Txn
  <2>2. txn[m].seen[p].rating \in SUBSET Matches
    BY <2>1 DEF PlayerState
  <2>3. {f.match : f \in ledger[p]} \in SUBSET Matches
    BY <1>2, <1>4 DEF Event
  <2> QED BY <2>2, <2>3 DEF Event
<1>8. e.match = m /\ ~e.merged /\ e.earlier = {f.match : f \in ledger[p]}
  OBVIOUS
<1>9. ledger'[p] = ledger[p] \cup {e} /\ \A q \in People : q # p => ledger'[q] = ledger[q]
  BY <1>1, <1>2, <1>4
<1> HIDE DEF t, e
<1>10. \A f \in ledger[p] : f.match # m
  <2>1. WrittenPlaces(m) = 1..(n - 1)
    BY <1>1 DEF WrittenPlaces
  <2>2. ASSUME NEW i \in 1..(n - 1), match[m].four[i] = p
        PROVE  FALSE
    <3>1. i \in 1..4 /\ i # n
      BY <1>3
    <3> QED BY <1>3, <1>4, <2>2, <3>1
  <2> QED BY <1>4, <2>1, <2>2 DEF LedgerInv, RowsWritten
<1>11. TypeOK' /\ SealShape'
  <2>1. t.at \notin {"idle", "load"} /\ t.next \in 1..4
    BY <1>3, <1>5
  <2>2. txn' \in [Matches -> Txn] /\ SealShape'
    BY <1>1, <1>2, <1>3, <1>5, <1>6, <2>1, TxnShape
  <2>3. ledger' \in [People -> SUBSET Event]
    BY <1>2, <1>7, <1>1
  <2>4. raced' \subseteq People
    BY <1>2 DEF NoteRaces, TypeOK
  <2> QED BY <1>1, <1>2, <2>2, <2>3, <2>4 DEF TypeOK, SealTypeOK
<1>12. RowsWritten'
  <2>1. WrittenPlaces(m) = 1..(n - 1) /\ WrittenPlaces(m)' = 1..n
    BY <1>1, <1>5, <1>6 DEF WrittenPlaces
  <2>2. \A k \in Matches : k # m => WrittenPlaces(k)' = WrittenPlaces(k)
    BY <1>1, <1>6 DEF WrittenPlaces
  <2>3. ASSUME NEW q \in People, q # p
        PROVE  /\ \A f, h \in ledger'[q] : f.match = h.match => f = h
               /\ \A k \in Matches : (\E f \in ledger'[q] : f.match = k) <=>
                                     (\E i \in WrittenPlaces(k)' : match'[k].four[i] = q)
    <3>1. \A i \in 1..n : match[m].four[i] = q => i \in 1..(n - 1)
      BY <1>3, <1>4, <2>3
    <3>2. \A i \in 1..(n - 1) : i \in 1..n
      BY <1>3
    <3>3. \A f, h \in ledger'[q] : f.match = h.match => f = h
      BY <1>9, <2>3 DEF LedgerInv, RowsWritten
    <3>4. ASSUME NEW k \in Matches
          PROVE  (\E i \in WrittenPlaces(k)' : match'[k].four[i] = q) <=>
                 (\E i \in WrittenPlaces(k) : match[k].four[i] = q)
      BY <1>1, <2>1, <2>2, <3>1, <3>2
    <3> QED BY <1>9, <2>3, <3>3, <3>4 DEF LedgerInv, RowsWritten
  <2>4. \A f, h \in ledger'[p] : f.match = h.match => f = h
    BY <1>4, <1>8, <1>9, <1>10 DEF LedgerInv, RowsWritten
  <2>5. ASSUME NEW k \in Matches, k # m
        PROVE  (\E f \in ledger'[p] : f.match = k) <=>
               (\E i \in WrittenPlaces(k)' : match'[k].four[i] = p)
    BY <1>1, <1>4, <1>8, <1>9, <2>2, <2>5 DEF LedgerInv, RowsWritten
  <2>6. (\E f \in ledger'[p] : f.match = m) <=>
        (\E i \in WrittenPlaces(m)' : match'[m].four[i] = p)
    <3>1. n \in 1..n
      BY <1>3
    <3>2. e \in ledger'[p] /\ e.match = m
      BY <1>8, <1>9
    <3> QED BY <1>1, <1>4, <2>1, <3>1, <3>2
  <2> QED BY <2>3, <2>4, <2>5, <2>6 DEF RowsWritten
<1>13. \A q \in People : \A f \in ledger[q] : Committed(f)' <=> Committed(f)
  BY <1>1 DEF Committed
<1>14. match'[e.match].status # "verified"
  BY <1>1, <1>3, <1>8
<1>15. \A q \in People : Trail(q)' = Trail(q) /\ LiveEvents(q)' = LiveEvents(q)
  <2>1. ASSUME NEW q \in People
        PROVE  Trail(q)' = Trail(q)
    <3>1. \A f \in ledger'[q] : Committed(f)' => f \in ledger[q]
      BY <1>9, <1>14 DEF Committed
    <3>2. ledger[q] \subseteq ledger'[q]
      BY <1>9
    <3> QED BY <1>13, <3>1, <3>2 DEF Trail
  <2> QED BY <2>1 DEF LiveEvents
<1>16. TrailsHaveALast'
  BY <1>15 DEF LedgerInv, TrailsHaveALast
<1>17. RowsOrdered'
  <2>1. ASSUME NEW q \in People, NEW f \in ledger'[q], q # p
        PROVE  /\ f.earlier \subseteq {h.match : h \in ledger'[q]} /\ f.match \notin f.earlier
               /\ ~Committed(f)' => ~f.merged
               /\ \A h \in ledger'[q] :
                    /\ h.match \in f.earlier => h.earlier \subseteq f.earlier
                    /\ ~f.merged /\ ~h.merged /\ f # h => f.match \in h.earlier \/ h.match \in f.earlier
    <3>1. ledger'[q] = ledger[q] /\ f \in ledger[q] /\ (Committed(f)' <=> Committed(f))
      BY <1>9, <1>13, <2>1
    <3> QED BY <3>1 DEF LedgerInv, RowsOrdered
  <2>2. ASSUME NEW f \in ledger[p]
        PROVE  /\ f.earlier \subseteq {h.match : h \in ledger[p]} /\ f.match \notin f.earlier
               /\ m \notin f.earlier /\ f.match \in e.earlier /\ f.earlier \subseteq e.earlier
               /\ ~Committed(f)' => ~f.merged
               /\ \A h \in ledger[p] :
                    /\ h.match \in f.earlier => h.earlier \subseteq f.earlier
                    /\ ~f.merged /\ ~h.merged /\ f # h => f.match \in h.earlier \/ h.match \in f.earlier
    <3>1. /\ f.earlier \subseteq {h.match : h \in ledger[p]} /\ f.match \notin f.earlier
          /\ \A h \in ledger[p] :
               /\ h.match \in f.earlier => h.earlier \subseteq f.earlier
               /\ ~f.merged /\ ~h.merged /\ f # h => f.match \in h.earlier \/ h.match \in f.earlier
          /\ ~Committed(f)' => ~f.merged
      BY <1>4, <1>13 DEF LedgerInv, RowsOrdered
    <3>2. m \notin f.earlier
      BY <1>10, <3>1
    <3> QED BY <1>8, <3>1, <3>2
  <2>3. m \notin e.earlier
    BY <1>8, <1>10
  <2>4. {h.match : h \in ledger'[p]} = {h.match : h \in ledger[p]} \cup {m}
    BY <1>8, <1>9
  <2>5. ASSUME NEW f \in ledger'[p]
        PROVE  /\ f.earlier \subseteq {h.match : h \in ledger'[p]} /\ f.match \notin f.earlier
               /\ ~Committed(f)' => ~f.merged
               /\ \A h \in ledger'[p] :
                    /\ h.match \in f.earlier => h.earlier \subseteq f.earlier
                    /\ ~f.merged /\ ~h.merged /\ f # h => f.match \in h.earlier \/ h.match \in f.earlier
    <3>1. CASE f = e
      BY <1>8, <1>9, <2>2, <2>3, <2>4, <3>1
    <3>2. CASE f \in ledger[p]
      BY <1>8, <1>9, <2>2, <2>3, <2>4, <3>2
    <3> QED BY <1>9, <3>1, <3>2
  <2> QED BY <2>1, <2>5 DEF RowsOrdered
<1>18. LocksHeld'
  <2>1. \A q \in People : q # p => Sharers(q)' = Sharers(q)
    BY <1>9, <1>13 DEF Sharers
  <2>2. \A k \in Matches : InFlight(k)' <=> InFlight(k)
    BY <1>3, <1>5, <1>6 DEF InFlight
  <2>3. ASSUME NEW g \in Guests
        PROVE  /\ merge'[g] # "idle" => lock'[FirstRow(g)] = g /\ Sharers(FirstRow(g))' = {}
               /\ merge'[g] = "both" => lock'[SecondRow(g)] = g /\ Sharers(SecondRow(g))' = {}
    <3>1. FirstRow(g) \in People /\ SecondRow(g) \in People
      BY MergeAssumption DEF FirstRow, SecondRow, People
    <3> QED BY <1>1, <2>1, <3>1 DEF LedgerInv, LocksHeld
  <2> QED BY <1>1, <2>2, <2>3 DEF LedgerInv, LocksHeld
<1> QED BY <1>11, <1>12, <1>16, <1>17, <1>18 DEF LedgerInv

\* The rows a transaction lets go are free, and the others stay.
LEMMA ReleasedRows ==
  ASSUME TypeOK, LocksHeld, NEW m \in Matches, lock' = Released(m), UNCHANGED merge,
         ~InFlight(m)', \A n \in Matches : n # m => (InFlight(n)' <=> InFlight(n)),
         \A p \in People : Sharers(p)' \subseteq Sharers(p)
  PROVE  LocksHeld' /\ lock' \in [Rows -> Matches \cup Guests \cup {Free}]
<1>1. lock \in [Rows -> Matches \cup Guests \cup {Free}]
  BY DEF TypeOK, SealTypeOK
<1>2. /\ lock' \in [Rows -> Matches \cup Guests \cup {Free}]
      /\ \A r \in Rows : lock'[r] = IF lock[r] = m THEN Free ELSE lock[r]
  BY <1>1 DEF Released
<1>3. Free \notin Matches /\ m \notin Guests
  BY OwnerAssumption DEF People
<1>4. \A n \in Matches : InFlight(n)' <=> lock'[n] = n
  BY <1>2, <1>3 DEF LocksHeld, Rows
<1>5. ASSUME NEW g \in Guests
      PROVE  /\ merge'[g] # "idle" => lock'[FirstRow(g)] = g /\ Sharers(FirstRow(g))' = {}
             /\ merge'[g] = "both" => lock'[SecondRow(g)] = g /\ Sharers(SecondRow(g))' = {}
  <2>1. FirstRow(g) \in People /\ SecondRow(g) \in People
    BY MergeAssumption DEF FirstRow, SecondRow, People
  <2> QED BY <1>2, <1>3, <2>1 DEF LocksHeld, Rows
<1> QED BY <1>2, <1>4, <1>5 DEF LocksHeld

\* The commit seals the match: the last row of a trail is the new one, or one that
\* was created after it and committed before.
LEMMA CommitLedger ==
  ASSUME LedgerInv, NEW m \in Matches, CommitSeal(m), UNCHANGED <<ident, merge>>, NoteRaces
  PROVE  LedgerInv'
<1>1. /\ txn[m].at = "credit" /\ txn' = [txn EXCEPT ![m] = NoTxn] /\ lock' = Released(m)
      /\ match' = [match EXCEPT ![m].status = "verified"]
      /\ UNCHANGED <<ledger, answer, rsvpIn>>
  BY DEF CommitSeal
<1>2. /\ txn \in [Matches -> Txn] /\ txn[m] \in Txn /\ TypeOK /\ SealShape
      /\ ledger \in [People -> SUBSET Event] /\ match \in [Matches -> MatchRow]
      /\ match[m] \in MatchRow
  BY DEF LedgerInv, TypeOK, SealTypeOK
<1>3. match[m].status = "pending_confirmation" /\ InFlight(m)
  BY <1>1 DEF LedgerInv, SealShape, Shape, InFlight
<1>4. /\ match'[m].status = "verified" /\ match'[m].four = match[m].four
      /\ match'[m].kind = match[m].kind /\ match'[m] \in MatchRow
      /\ txn'[m] = NoTxn
      /\ \A n \in Matches : n # m => match'[n] = match[n] /\ txn'[n] = txn[n]
  <2>1. match'[m] = [match[m] EXCEPT !.status = "verified"]
    BY <1>1, <1>2
  <2>2. /\ match'[m].status = "verified" /\ match'[m].four = match[m].four
        /\ match'[m].kind = match[m].kind /\ match'[m] \in MatchRow
    BY <1>2, <2>1 DEF MatchRow
  <2> QED BY <1>1, <1>2, <2>2
<1>5. match' \in [Matches -> MatchRow] /\ txn' \in [Matches -> Txn]
  <2>1. NoTxn \in Txn
    BY DEF NoTxn, Txn, PlayerState, Fresh
  <2>2. match' \in [Matches -> MatchRow]
    BY <1>1, <1>2, <1>4
  <2> QED BY <1>1, <1>2, <2>1, <2>2
<1>6. glass' \in [People -> PlayerState] /\ showUp' \in [People -> Nat]
  <2>1. glass \in [People -> PlayerState] /\ showUp \in [People -> Nat]
        /\ txn[m].seen \in [People -> PlayerState]
    BY <1>2 DEF TypeOK, SealTypeOK, Txn
  <2>2. ASSUME NEW p \in People
        PROVE  [count |-> txn[m].seen[p].count + 1, rating |-> txn[m].seen[p].rating \cup {m}]
                 \in PlayerState
    BY <2>1 DEF PlayerState
  <2>3. glass' \in [People -> PlayerState]
    BY <2>1, <2>2 DEF CommitSeal
  <2>4. showUp' \in [People -> Nat]
    BY <2>1 DEF CommitSeal
  <2> QED BY <2>3, <2>4
<1>7. \A p \in People : \A e \in ledger[p] :
        /\ e.match \in Matches
        /\ Committed(e)' <=> (Committed(e) \/ e.match = m)
        /\ e.match = m => ~Committed(e)
  BY <1>2, <1>3, <1>4 DEF Committed, Event
<1>8. LocksHeld' /\ lock' \in [Rows -> Matches \cup Guests \cup {Free}]
  <2>1. \A p \in People : Sharers(p)' \subseteq Sharers(p)
    BY <1>1, <1>7 DEF Sharers
  <2>2. ~InFlight(m)' /\ \A n \in Matches : n # m => (InFlight(n)' <=> InFlight(n))
    BY <1>4 DEF InFlight, NoTxn
  <2> QED BY <1>1, <2>1, <2>2, ReleasedRows DEF LedgerInv
<1>9. TypeOK'
  <2>1. raced' \subseteq People
    BY <1>2 DEF NoteRaces, TypeOK
  <2> QED BY <1>1, <1>2, <1>5, <1>6, <1>8, <2>1 DEF TypeOK, SealTypeOK
<1>10. ASSUME NEW n \in Matches
       PROVE  Shape(n)' /\ WrittenPlaces(n)' = WrittenPlaces(n) /\ match'[n].four = match[n].four
  <2>1. Shape(n)
    BY <1>2 DEF SealShape
  <2>2. CASE n = m
    <3>1. Shape(n)'
      BY <1>3, <1>4, <2>1, <2>2 DEF Shape, InFlight, Live, NoTxn
    <3> QED BY <1>1, <1>4, <2>2, <3>1 DEF WrittenPlaces, NoTxn
  <2>3. CASE n # m
    BY <1>4, <2>1, <2>3 DEF WrittenPlaces, Shape, InFlight, Live
  <2> QED BY <2>2, <2>3
<1>11. RowsWritten'
  BY <1>1, <1>10, PlacesStay DEF LedgerInv
<1>12. RowsOrdered'
  BY <1>1, <1>7 DEF LedgerInv, RowsOrdered
<1>13. ASSUME NEW p \in People, Trail(p)' # {}
       PROVE  \E e \in LiveEvents(p)' : IsLatest(e, LiveEvents(p)')
  <2>1. CASE \A e \in ledger[p] : e.match # m
    <3>1. Trail(p)' = Trail(p)
      BY <1>1, <1>7, <2>1 DEF Trail
    <3>2. LiveEvents(p)' = LiveEvents(p)
      BY <3>1 DEF LiveEvents
    <3> QED BY <1>13, <3>1, <3>2 DEF LedgerInv, TrailsHaveALast
  <2>2. ASSUME NEW e \in ledger[p], e.match = m
        PROVE  \E l \in LiveEvents(p)' : IsLatest(l, LiveEvents(p)')
    <3>1. ~e.merged /\ m \notin e.earlier /\ e \notin Trail(p)
      BY <1>7, <2>2 DEF LedgerInv, RowsOrdered, Trail
    <3>2. \A f \in ledger[p] : f.match = m => f = e
      BY <2>2 DEF LedgerInv, RowsWritten
    <3>3. Trail(p)' = Trail(p) \cup {e}
      BY <1>1, <1>7, <2>2, <3>2 DEF Trail
    <3>4. LiveEvents(p)' = LiveEvents(p) \cup {e}
      BY <3>1, <3>3 DEF LiveEvents
    <3>5. CASE Trail(p) = {}
      <4>1. LiveEvents(p)' = {e}
        BY <3>4, <3>5 DEF LiveEvents
      <4> QED BY <2>2, <3>1, <4>1 DEF IsLatest
    <3>6. CASE Trail(p) # {}
      <4>1. PICK l \in LiveEvents(p) : IsLatest(l, LiveEvents(p))
        BY <3>6 DEF LedgerInv, TrailsHaveALast
      <4>2. l \in ledger[p] /\ ~l.merged /\ l # e /\ LiveEvents(p) \subseteq ledger[p]
        BY <3>1, <4>1 DEF LiveEvents, Trail
      <4>3. CASE m \in l.earlier
        <5>1. l.match \notin e.earlier
          BY <2>2, <4>2, <4>3 DEF LedgerInv, RowsOrdered
        <5> QED BY <3>4, <4>1, <5>1 DEF IsLatest
      <4>4. CASE m \notin l.earlier
        <5>1. l.match \in e.earlier
          BY <2>2, <3>1, <4>2, <4>4 DEF LedgerInv, RowsOrdered
        <5>2. \A f \in LiveEvents(p) : m \notin f.earlier
          <6>1. \A f \in LiveEvents(p) : m \in f.earlier => e.earlier \subseteq f.earlier
            BY <2>2, <4>2 DEF LedgerInv, RowsOrdered
          <6> QED BY <4>1, <5>1, <6>1 DEF IsLatest
        <5> QED BY <2>2, <3>1, <3>4, <5>2 DEF IsLatest
      <4> QED BY <4>3, <4>4
    <3> QED BY <3>5, <3>6
  <2> QED BY <2>1, <2>2
<1>14. TrailsHaveALast'
  BY <1>13 DEF TrailsHaveALast
<1>15. SealShape'
  BY <1>10 DEF SealShape
<1> QED BY <1>8, <1>9, <1>11, <1>12, <1>14, <1>15 DEF LedgerInv

\* A rollback takes the rows of its match away, and nothing else.
LEMMA RollbackLedger ==
  ASSUME LedgerInv, NEW m \in Matches, Rollback(m), UNCHANGED <<ident, merge>>,
         raced' \subseteq People
  PROVE  LedgerInv'
<1> DEFINE Kept(p) == {x \in ledger[p] : x.match # m}
           Cut(e) == [e EXCEPT !.earlier = @ \ {m}]
<1>1. /\ txn[m].at # "idle" /\ txn' = [txn EXCEPT ![m] = NoTxn] /\ lock' = Released(m)
      /\ UNCHANGED <<match, answer, rsvpIn, glass, showUp>>
      /\ ledger' = [p \in People |-> {Cut(e) : e \in Kept(p)}]
  BY DEF Rollback, bookVars
<1>2. /\ txn \in [Matches -> Txn] /\ TypeOK /\ SealShape /\ ledger \in [People -> SUBSET Event]
  BY DEF LedgerInv, TypeOK, SealTypeOK
<1>3. match[m].status = "pending_confirmation" /\ InFlight(m)
  BY <1>1 DEF LedgerInv, SealShape, Shape, InFlight
<1>4. ASSUME NEW e \in Event
      PROVE  /\ Cut(e) \in Event /\ Cut(e).match = e.match /\ Cut(e).before = e.before
             /\ Cut(e).merged = e.merged /\ Cut(e).earlier = e.earlier \ {m}
  BY DEF Event
<1>5. ASSUME NEW p \in People
      PROVE  /\ ledger'[p] = {Cut(e) : e \in Kept(p)} /\ ledger[p] \subseteq Event
             /\ Kept(p) \subseteq ledger[p]
             /\ \A x \in ledger'[p] : \E e \in ledger[p] : e.match # m /\ x = Cut(e)
             /\ \A e \in ledger[p] : e.match # m => Cut(e) \in ledger'[p]
  BY <1>1, <1>2
<1> HIDE DEF Cut, Kept
<1>6. ASSUME NEW p \in People
      PROVE  {f.match : f \in ledger'[p]} = {f.match : f \in ledger[p]} \ {m}
  <2>1. \A x \in ledger'[p] : \E e \in ledger[p] : e.match # m /\ x.match = e.match
    BY <1>4, <1>5
  <2>2. \A e \in ledger[p] : e.match # m => \E x \in ledger'[p] : x.match = e.match
    BY <1>4, <1>5
  <2> QED BY <2>1, <2>2
<1>7. txn' \in [Matches -> Txn] /\ SealShape' /\ txn'[m] = NoTxn
      /\ \A n \in Matches : n # m => txn'[n] = txn[n]
  <2>1. NoTxn \in Txn /\ NoTxn.at = "idle"
    BY DEF NoTxn, Txn, PlayerState, Fresh
  <2>2. txn' \in [Matches -> Txn] /\ SealShape'
    BY <1>1, <1>2, <2>1, TxnShape
  <2> QED BY <1>1, <1>2, <2>2
<1>8. LocksHeld' /\ lock' \in [Rows -> Matches \cup Guests \cup {Free}]
  <2>1. ASSUME NEW p \in People
        PROVE  Sharers(p)' \subseteq Sharers(p)
    <3>1. \A x \in ledger'[p] : \E e \in ledger[p] : x.match = e.match
      BY <1>4, <1>5
    <3> QED BY <1>1, <3>1 DEF Sharers, Committed
  <2>2. ~InFlight(m)' /\ \A n \in Matches : n # m => (InFlight(n)' <=> InFlight(n))
    BY <1>7 DEF InFlight, NoTxn
  <2> QED BY <1>1, <2>1, <2>2, ReleasedRows DEF LedgerInv
<1>9. TypeOK'
  <2>1. \A p \in People : ledger'[p] \in SUBSET Event
    BY <1>4, <1>5
  <2>2. ledger' \in [People -> SUBSET Event]
    BY <1>1, <2>1
  <2> QED BY <1>1, <1>2, <1>7, <1>8, <2>2 DEF TypeOK, SealTypeOK
<1>10. RowsWritten'
  <2>1. \A n \in Matches : n # m => WrittenPlaces(n)' = WrittenPlaces(n)
    BY <1>1, <1>7 DEF WrittenPlaces
  <2>2. WrittenPlaces(m)' = {}
    BY <1>1, <1>3, <1>7 DEF WrittenPlaces, NoTxn
  <2>3. ASSUME NEW p \in People
        PROVE  \A x, y \in ledger'[p] : x.match = y.match => x = y
    BY <1>4, <1>5 DEF LedgerInv, RowsWritten
  <2>4. ASSUME NEW p \in People, NEW n \in Matches
        PROVE  (\E x \in ledger'[p] : x.match = n) <=>
               (\E i \in WrittenPlaces(n)' : match'[n].four[i] = p)
    <3>1. (\E x \in ledger'[p] : x.match = n) <=> n # m /\ (\E e \in ledger[p] : e.match = n)
      <4>1. (\E x \in ledger'[p] : x.match = n) <=> n \in {f.match : f \in ledger'[p]}
        OBVIOUS
      <4>2. (\E e \in ledger[p] : e.match = n) <=> n \in {f.match : f \in ledger[p]}
        OBVIOUS
      <4> QED BY <1>6, <4>1, <4>2
    <3>2. CASE n = m
      BY <2>2, <3>1, <3>2
    <3>3. CASE n # m
      BY <1>1, <2>1, <3>1, <3>3 DEF LedgerInv, RowsWritten
    <3> QED BY <3>2, <3>3
  <2> QED BY <2>3, <2>4 DEF RowsWritten
<1>11. RowsOrdered'
  <2>1. ASSUME NEW p \in People, NEW x \in ledger'[p]
        PROVE  /\ x.earlier \subseteq {f.match : f \in ledger'[p]} /\ x.match \notin x.earlier
               /\ ~Committed(x)' => ~x.merged
               /\ \A y \in ledger'[p] :
                    /\ y.match \in x.earlier => y.earlier \subseteq x.earlier
                    /\ ~x.merged /\ ~y.merged /\ x # y => x.match \in y.earlier \/ y.match \in x.earlier
    <3>1. PICK e \in ledger[p] : e.match # m /\ x = Cut(e)
      BY <1>5
    <3>2. /\ x.match = e.match /\ x.merged = e.merged /\ x.earlier = e.earlier \ {m}
          /\ (Committed(x)' <=> Committed(e))
      BY <1>1, <1>4, <1>5, <3>1 DEF Committed
    <3>3. /\ e.earlier \subseteq {f.match : f \in ledger[p]} /\ e.match \notin e.earlier
          /\ ~Committed(e) => ~e.merged
      BY DEF LedgerInv, RowsOrdered
    <3>4. ASSUME NEW y \in ledger'[p]
          PROVE  /\ y.match \in x.earlier => y.earlier \subseteq x.earlier
                 /\ ~x.merged /\ ~y.merged /\ x # y => x.match \in y.earlier \/ y.match \in x.earlier
      <4>1. PICK f \in ledger[p] : f.match # m /\ y = Cut(f)
        BY <1>5
      <4>2. y.match = f.match /\ y.merged = f.merged /\ y.earlier = f.earlier \ {m}
        BY <1>4, <1>5, <4>1
      <4>3. /\ f.match \in e.earlier => f.earlier \subseteq e.earlier
            /\ ~e.merged /\ ~f.merged /\ e # f => e.match \in f.earlier \/ f.match \in e.earlier
        BY DEF LedgerInv, RowsOrdered
      <4>4. x # y => e # f
        BY <3>1, <4>1
      <4> QED BY <3>1, <3>2, <4>1, <4>2, <4>3, <4>4
    <3>5. x.earlier \subseteq {f.match : f \in ledger'[p]}
      BY <1>6, <3>2, <3>3
    <3>6. (~Committed(x)' => ~x.merged) /\ x.match \notin x.earlier
      BY <3>2, <3>3
    <3> QED BY <3>4, <3>5, <3>6
  <2> QED BY <2>1 DEF RowsOrdered
<1>12. TrailsHaveALast'
  <2>1. ASSUME NEW p \in People, Trail(p)' # {}
        PROVE  \E x \in LiveEvents(p)' : IsLatest(x, LiveEvents(p)')
    <3>1. \A x \in LiveEvents(p)' : \E e \in LiveEvents(p) : x = Cut(e)
      BY <1>1, <1>4, <1>5 DEF LiveEvents, Trail, Committed
    <3>2. \A e \in LiveEvents(p) : Cut(e) \in LiveEvents(p)'
      <4>1. \A e \in LiveEvents(p) : e.match # m /\ e \in ledger[p]
        BY <1>3 DEF LiveEvents, Trail, Committed
      <4> QED BY <1>1, <1>4, <1>5, <4>1 DEF LiveEvents, Trail, Committed
    <3>3. Trail(p) # {}
      <4>1. \A x \in Trail(p)' : \E e \in Trail(p) : x = Cut(e)
        BY <1>1, <1>4, <1>5 DEF Trail, Committed
      <4> QED BY <2>1, <4>1
    <3>4. PICK l \in LiveEvents(p) : IsLatest(l, LiveEvents(p))
      BY <3>3 DEF LedgerInv, TrailsHaveALast
    <3>5. LiveEvents(p) \subseteq Event
      BY <1>5 DEF LiveEvents, Trail
    <3>6. \A x \in LiveEvents(p)' : Cut(l).match \notin x.earlier
      BY <1>4, <3>1, <3>4, <3>5 DEF IsLatest
    <3> QED BY <3>2, <3>4, <3>6 DEF IsLatest
  <2> QED BY <2>1 DEF TrailsHaveALast
<1> QED BY <1>7, <1>8, <1>9, <1>10, <1>11, <1>12 DEF LedgerInv

-------------------------------------------------------------------------------
(* Steps of a merge. *)

\* The two users rows of a merge are two rows.
LEMMA MergeRows ==
  ASSUME NEW g \in Guests
  PROVE  /\ g \in People /\ MergeInto[g] \in Accounts /\ MergeInto[g] \in People
         /\ MergeInto[g] # g /\ {FirstRow(g), SecondRow(g)} = {g, MergeInto[g]}
         /\ FirstRow(g) # SecondRow(g) /\ FirstRow(g) \in People /\ SecondRow(g) \in People
BY MergeAssumption, SealPeopleAssumption DEF FirstRow, SecondRow, People

\* A merge that only takes rows, or lets them go, leaves the Ledger alone.
LEMMA MergeMoves ==
  ASSUME LedgerInv, UNCHANGED <<match, ledger, glass, answer, rsvpIn, showUp, txn, ident>>,
         raced' \subseteq People, merge' \in [Guests -> {"idle", "first", "both"}],
         lock' \in [Rows -> Matches \cup Guests \cup {Free}], LocksHeld'
  PROVE  LedgerInv'
<1>1. TypeOK'
  BY DEF LedgerInv, TypeOK, SealTypeOK
<1>2. SealShape'
  BY DEF LedgerInv, SealShape, Shape, InFlight, Live
<1>3. RowsOrdered' /\ TrailsHaveALast'
  BY TrailsStay DEF LedgerInv
<1>4. \A m \in Matches : WrittenPlaces(m)' = WrittenPlaces(m) /\ match'[m].four = match[m].four
  BY DEF WrittenPlaces
<1>5. RowsWritten'
  BY <1>4, PlacesStay DEF LedgerInv
<1> QED BY <1>1, <1>2, <1>3, <1>5 DEF LedgerInv

\* A merge takes a row that is free.
LEMMA MergeTakesRow ==
  ASSUME LedgerInv, NEW g \in Guests, NEW r \in Rows, lock[r] = Free, lock' = [lock EXCEPT ![r] = g],
         UNCHANGED <<match, ledger, txn>>
  PROVE  /\ lock' \in [Rows -> Matches \cup Guests \cup {Free}]
         /\ \A m \in Matches : InFlight(m)' <=> lock'[m] = m
         /\ \A p \in People : Sharers(p)' = Sharers(p)
         /\ \A q \in Rows : lock'[q] = IF q = r THEN g ELSE lock[q]
<1>1. lock \in [Rows -> Matches \cup Guests \cup {Free}]
  BY DEF LedgerInv, TypeOK, SealTypeOK
<1>2. \A q \in Rows : lock'[q] = IF q = r THEN g ELSE lock[q]
  BY <1>1
<1>3. Free \notin Matches /\ g \notin Matches
  BY OwnerAssumption DEF People
<1>4. \A m \in Matches : InFlight(m)' <=> lock'[m] = m
  BY <1>2, <1>3 DEF LedgerInv, LocksHeld, InFlight, Rows
<1>5. \A p \in People : Sharers(p)' = Sharers(p)
  BY DEF Sharers, Committed
<1> QED BY <1>1, <1>2, <1>4, <1>5

\* A users row is locked while no seal has an open Ledger row of the player.
LEMMA LockFirstLedger ==
  ASSUME LedgerInv, NEW g \in Guests, LockFirst(g), NoteRaces
  PROVE  LedgerInv'
<1> DEFINE r == FirstRow(g)
<1>1. /\ lock[r] = Free /\ Sharers(r) = {} /\ lock' = [lock EXCEPT ![r] = g]
      /\ merge' = [merge EXCEPT ![g] = "first"]
      /\ UNCHANGED <<match, ledger, glass, answer, rsvpIn, showUp, txn, ident>>
  BY DEF LockFirst, CanLock
<1>2. merge \in [Guests -> {"idle", "first", "both"}] /\ raced \subseteq People
  BY DEF LedgerInv, TypeOK
<1>3. r \in Rows
  BY MergeRows DEF Rows
<1>4. /\ lock' \in [Rows -> Matches \cup Guests \cup {Free}]
      /\ \A m \in Matches : InFlight(m)' <=> lock'[m] = m
      /\ \A p \in People : Sharers(p)' = Sharers(p)
      /\ \A q \in Rows : lock'[q] = IF q = r THEN g ELSE lock[q]
  BY <1>1, <1>3, MergeTakesRow
<1>5. ASSUME NEW h \in Guests
      PROVE  /\ merge'[h] # "idle" => lock'[FirstRow(h)] = h /\ Sharers(FirstRow(h))' = {}
             /\ merge'[h] = "both" => lock'[SecondRow(h)] = h /\ Sharers(SecondRow(h))' = {}
  <2>1. FirstRow(h) \in People /\ SecondRow(h) \in People /\ Free # h
    BY MergeRows, OwnerAssumption
  <2>2. CASE h = g
    BY <1>1, <1>2, <1>4, <2>1, <2>2 DEF Rows
  <2>3. CASE h # g
    BY <1>1, <1>2, <1>4, <2>1, <2>3 DEF Rows, LedgerInv, LocksHeld
  <2> QED BY <2>2, <2>3
<1>6. LocksHeld'
  BY <1>4, <1>5 DEF LocksHeld
<1>7. merge' \in [Guests -> {"idle", "first", "both"}] /\ raced' \subseteq People
  BY <1>1, <1>2 DEF NoteRaces
<1> QED BY <1>1, <1>4, <1>6, <1>7, MergeMoves

LEMMA LockSecondLedger ==
  ASSUME LedgerInv, NEW g \in Guests, LockSecond(g)
  PROVE  LedgerInv'
<1> DEFINE r == SecondRow(g)
<1>1. /\ lock[r] = Free /\ Sharers(r) = {} /\ lock' = [lock EXCEPT ![r] = g]
      /\ merge[g] = "first" /\ merge' = [merge EXCEPT ![g] = "both"]
      /\ UNCHANGED <<match, ledger, glass, answer, rsvpIn, showUp, txn, ident, raced>>
  BY DEF LockSecond, CanLock
<1>2. merge \in [Guests -> {"idle", "first", "both"}] /\ raced \subseteq People
  BY DEF LedgerInv, TypeOK
<1>3. r \in Rows
  BY MergeRows DEF Rows
<1>4. /\ lock' \in [Rows -> Matches \cup Guests \cup {Free}]
      /\ \A m \in Matches : InFlight(m)' <=> lock'[m] = m
      /\ \A p \in People : Sharers(p)' = Sharers(p)
      /\ \A q \in Rows : lock'[q] = IF q = r THEN g ELSE lock[q]
  BY <1>1, <1>3, MergeTakesRow
<1>5. ASSUME NEW h \in Guests
      PROVE  /\ merge'[h] # "idle" => lock'[FirstRow(h)] = h /\ Sharers(FirstRow(h))' = {}
             /\ merge'[h] = "both" => lock'[SecondRow(h)] = h /\ Sharers(SecondRow(h))' = {}
  <2>1. FirstRow(h) \in People /\ SecondRow(h) \in People /\ Free # h
    BY MergeRows, OwnerAssumption
  <2>2. CASE h = g
    <3>1. lock[FirstRow(g)] = g /\ Sharers(FirstRow(g)) = {}
      BY <1>1 DEF LedgerInv, LocksHeld
    <3> QED BY <1>1, <1>2, <1>4, <2>1, <2>2, <3>1 DEF Rows
  <2>3. CASE h # g
    BY <1>1, <1>2, <1>4, <2>1, <2>3 DEF Rows, LedgerInv, LocksHeld
  <2> QED BY <2>2, <2>3
<1>6. LocksHeld'
  BY <1>4, <1>5 DEF LocksHeld
<1>7. merge' \in [Guests -> {"idle", "first", "both"}]
  BY <1>1, <1>2
<1> QED BY <1>1, <1>2, <1>4, <1>6, <1>7, MergeMoves

LEMMA LockMatchRowLedger ==
  ASSUME LedgerInv, NEW g \in Guests, LockMatchRow(g)
  PROVE  LedgerInv'
<1>1. PICK m \in Matches : lock[m] = Free /\ lock' = [lock EXCEPT ![m] = g]
  BY DEF LockMatchRow, NextToRepoint, ToRepoint
<1>2. UNCHANGED <<match, ledger, glass, answer, rsvpIn, showUp, txn, ident, merge, raced>>
  BY DEF LockMatchRow, mergeVars
<1>3. merge \in [Guests -> {"idle", "first", "both"}] /\ raced \subseteq People
  BY DEF LedgerInv, TypeOK
<1>4. /\ lock' \in [Rows -> Matches \cup Guests \cup {Free}]
      /\ \A n \in Matches : InFlight(n)' <=> lock'[n] = n
      /\ \A p \in People : Sharers(p)' = Sharers(p)
      /\ \A q \in Rows : lock'[q] = IF q = m THEN g ELSE lock[q]
  BY <1>1, <1>2, MergeTakesRow DEF Rows
<1>5. ASSUME NEW h \in Guests
      PROVE  /\ merge'[h] # "idle" => lock'[FirstRow(h)] = h /\ Sharers(FirstRow(h))' = {}
             /\ merge'[h] = "both" => lock'[SecondRow(h)] = h /\ Sharers(SecondRow(h))' = {}
  <2>1. FirstRow(h) \in People /\ SecondRow(h) \in People /\ m \notin People
    BY MergeRows, OwnerAssumption
  <2> QED BY <1>2, <1>4, <2>1 DEF Rows, LedgerInv, LocksHeld
<1>6. LocksHeld'
  BY <1>4, <1>5 DEF LocksHeld
<1> QED BY <1>2, <1>3, <1>4, <1>6, MergeMoves

\* The rows a merge lets go of were its own.
LEMMA MergeLetsGo ==
  ASSUME LedgerInv, NEW g \in Guests, lock' = Released(g), merge' = [merge EXCEPT ![g] = "idle"],
         UNCHANGED txn,
         \A p \in People : lock[p] # g => Sharers(p)' = Sharers(p)
  PROVE  LocksHeld' /\ lock' \in [Rows -> Matches \cup Guests \cup {Free}]
<1>1. /\ lock \in [Rows -> Matches \cup Guests \cup {Free}]
      /\ merge \in [Guests -> {"idle", "first", "both"}]
  BY DEF LedgerInv, TypeOK, SealTypeOK
<1>2. /\ lock' \in [Rows -> Matches \cup Guests \cup {Free}]
      /\ \A r \in Rows : lock'[r] = IF lock[r] = g THEN Free ELSE lock[r]
  BY <1>1 DEF Released
<1>3. Free \notin Matches /\ g \notin Matches
  BY OwnerAssumption DEF People
<1>4. \A n \in Matches : InFlight(n)' <=> lock'[n] = n
  BY <1>2, <1>3 DEF LedgerInv, LocksHeld, Rows, InFlight
<1>5. ASSUME NEW h \in Guests
      PROVE  /\ merge'[h] # "idle" => lock'[FirstRow(h)] = h /\ Sharers(FirstRow(h))' = {}
             /\ merge'[h] = "both" => lock'[SecondRow(h)] = h /\ Sharers(SecondRow(h))' = {}
  <2>1. FirstRow(h) \in People /\ SecondRow(h) \in People
    BY MergeRows
  <2>2. CASE h = g
    BY <1>1, <2>2
  <2>3. CASE h # g
    BY <1>1, <1>2, <2>1, <2>3 DEF LedgerInv, LocksHeld, Rows
  <2> QED BY <2>2, <2>3
<1> QED BY <1>2, <1>4, <1>5 DEF LocksHeld

LEMMA MergeRollbackLedger ==
  ASSUME LedgerInv, NEW g \in Guests, MergeRollback(g)
  PROVE  LedgerInv'
<1>1. /\ UNCHANGED <<match, ledger, glass, answer, rsvpIn, showUp, txn, ident, raced>>
      /\ lock' = Released(g) /\ merge' = [merge EXCEPT ![g] = "idle"]
  BY DEF MergeRollback
<1>2. merge' \in [Guests -> {"idle", "first", "both"}] /\ raced' \subseteq People
  BY <1>1 DEF LedgerInv, TypeOK
<1>3. \A p \in People : Sharers(p)' = Sharers(p)
  BY <1>1 DEF Sharers, Committed
<1>4. LocksHeld' /\ lock' \in [Rows -> Matches \cup Guests \cup {Free}]
  BY <1>1, <1>3, MergeLetsGo
<1> QED BY <1>1, <1>2, <1>4, MergeMoves

\* Written places are places, of a match that was recorded.
LEMMA PlacesAreFour ==
  ASSUME TypeOK, SealShape, NEW m \in Matches, NEW i \in WrittenPlaces(m)
  PROVE  i \in 1..4 /\ Live(m) /\ match[m].four \in [1..4 -> People]
<1>1. Shape(m) /\ txn[m] \in Txn
  BY DEF SealShape, TypeOK, SealTypeOK
<1>2. Live(m)
  <2>1. CASE InFlight(m)
    BY <1>1, <2>1 DEF Shape, Live
  <2>2. CASE ~InFlight(m)
    BY <1>1, <2>2 DEF WrittenPlaces, InFlight, Live
  <2> QED BY <2>1, <2>2
<1>3. txn[m].at \in {"insert", "update"} => txn[m].next \in 1..4
  BY <1>1 DEF Shape
<1>4. i \in 1..4
  <2>1. CASE txn[m].at = "insert"
    BY <1>3, <2>1 DEF WrittenPlaces
  <2>2. CASE txn[m].at = "update"
    BY <1>3, <2>2 DEF WrittenPlaces
  <2>3. CASE txn[m].at \notin {"insert", "update"}
    BY <2>3 DEF WrittenPlaces
  <2> QED BY <2>1, <2>2, <2>3
<1> QED BY <1>1, <1>2, <1>4 DEF Shape

\* The Ledger of a guest becomes the account's trail, or history beside it.
LEMMA ReattributeLedger ==
  ASSUME LedgerInv, NEW g \in Guests, ReattributeGuestData(g)
  PROVE  LedgerInv'
<1> DEFINE a == MergeInto[g]
           Marked(e) == [e EXCEPT !.merged = @ \/ ledger[a] # {}]
<1>1. /\ a \in People /\ g \in People /\ a # g /\ a \in Accounts
      /\ Person(a) = a /\ Person(g) = a
  BY MergeRows, SealPeopleAssumption DEF Person
<1>2. /\ TypeOK /\ SealShape /\ ledger \in [People -> SUBSET Event]
      /\ txn \in [Matches -> Txn]
  BY DEF LedgerInv, TypeOK, SealTypeOK
<1>3. /\ merge[g] = "both" /\ match' = Repointed(g, a) /\ ledger' = Reattributed(g, a)
      /\ merge' = [merge EXCEPT ![g] = "idle"] /\ lock' = Released(g) /\ txn' = txn
  BY DEF ReattributeGuestData
<1>4. lock[g] = g /\ lock[a] = g /\ Sharers(g) = {} /\ Sharers(a) = {}
  <2>1. /\ lock[FirstRow(g)] = g /\ Sharers(FirstRow(g)) = {}
        /\ lock[SecondRow(g)] = g /\ Sharers(SecondRow(g)) = {}
    BY <1>3 DEF LedgerInv, LocksHeld
  <2> QED BY <2>1 DEF FirstRow, SecondRow
<1>5. \A e \in ledger[g] \cup ledger[a] : Committed(e)
  BY <1>4 DEF Sharers
<1>6. ASSUME NEW e \in Event
      PROVE  /\ Marked(e) \in Event /\ Marked(e).match = e.match /\ Marked(e).before = e.before
             /\ Marked(e).earlier = e.earlier
             /\ Marked(e).merged <=> (e.merged \/ ledger[a] # {})
  BY DEF Event
<1>7. ASSUME NEW m \in Matches
      PROVE  /\ match'[m].status = match[m].status /\ match'[m].kind = match[m].kind
             /\ WrittenPlaces(m)' = WrittenPlaces(m)
             /\ \A i \in WrittenPlaces(m) :
                  match'[m].four[i] = IF match[m].four[i] = g THEN a ELSE match[m].four[i]
  <2>1. /\ match'[m].status = match[m].status /\ match'[m].kind = match[m].kind
        /\ \A i \in DOMAIN match[m].four :
             match'[m].four[i] = IF match[m].four[i] = g THEN a ELSE match[m].four[i]
    BY <1>1, <1>2, <1>3, RepointedRow
  <2>2. \A i \in WrittenPlaces(m) : i \in DOMAIN match[m].four
    BY <1>2, PlacesAreFour
  <2>3. WrittenPlaces(m)' = WrittenPlaces(m)
    BY <1>3, <2>1 DEF WrittenPlaces
  <2> QED BY <2>1, <2>2, <2>3
<1>8. ASSUME NEW q \in People
      PROVE  ledger'[q] = IF q = g THEN {}
                          ELSE IF q = a THEN ledger[a] \cup {Marked(e) : e \in ledger[g]}
                          ELSE ledger[q]
  BY <1>1, <1>2, <1>3 DEF Reattributed
<1>9. /\ ledger[g] \subseteq Event /\ ledger[a] \subseteq Event /\ ledger[a] \subseteq ledger'[a]
      /\ \A e \in ledger[g] : Marked(e) \in ledger'[a]
      /\ \A x \in ledger'[a] : x \in ledger[a] \/ \E e \in ledger[g] : x = Marked(e)
      /\ ledger'[g] = {}
  <2>1. ledger'[a] = ledger[a] \cup {Marked(e) : e \in ledger[g]}
    BY <1>1, <1>8
  <2> HIDE DEF Marked
  <2> QED BY <1>1, <1>2, <1>8, <2>1
<1> HIDE DEF Marked
<1>10. \A q \in People : \A e \in ledger[q] : e.match \in Matches /\ (Committed(e)' <=> Committed(e))
  BY <1>2, <1>7 DEF Committed, Event
<1>11. \A e \in ledger[g] : Committed(Marked(e)) /\ match'[e.match].status = "verified"
  BY <1>1, <1>5, <1>6, <1>9, <1>10 DEF Committed
<1>12. TypeOK' /\ SealShape'
  BY <1>2, MergeShape
<1>13. \A e \in ledger[g], f \in ledger[a] : e.match # f.match
  <2> SUFFICES ASSUME NEW e \in ledger[g], NEW f \in ledger[a], e.match = f.match
               PROVE  FALSE
    OBVIOUS
  <2>1. e.match \in Matches
    BY <1>1, <1>10
  <2>2. PICK i \in WrittenPlaces(e.match) : match[e.match].four[i] = g
    BY <1>1, <2>1 DEF LedgerInv, RowsWritten
  <2>3. PICK j \in WrittenPlaces(e.match) : match[e.match].four[j] = a
    BY <1>1, <2>1 DEF LedgerInv, RowsWritten
  <2>4. i \in 1..4 /\ j \in 1..4 /\ Live(e.match)
    BY <1>2, <2>1, PlacesAreFour
  <2>5. \A k, l \in 1..4 : k # l => Person(match[e.match].four[k]) # Person(match[e.match].four[l])
    BY <1>2, <2>1, <2>4 DEF SealShape, Shape
  <2> QED BY <1>1, <2>2, <2>3, <2>4, <2>5
<1>14. RowsWritten'
  <2>1. ASSUME NEW q \in People
        PROVE  \A x, y \in ledger'[q] : x.match = y.match => x = y
    <3>1. CASE q = a
      <4>1. \A x \in ledger'[a] : x \in ledger[a] \/ \E e \in ledger[g] : x = Marked(e) /\ x.match = e.match
        BY <1>1, <1>6, <1>8, <1>9
      <4> QED BY <1>1, <1>13, <3>1, <4>1 DEF LedgerInv, RowsWritten
    <3>2. CASE q # a
      BY <1>8, <3>2 DEF LedgerInv, RowsWritten
    <3> QED BY <3>1, <3>2
  <2>2. ASSUME NEW q \in People, NEW m \in Matches
        PROVE  (\E x \in ledger'[q] : x.match = m) <=>
               (\E i \in WrittenPlaces(m)' : match'[m].four[i] = q)
    <3>1. CASE q = g
      BY <1>1, <1>7, <1>9, <3>1
    <3>2. CASE q = a
      <4>1. (\E x \in ledger'[a] : x.match = m) <=>
            (\E e \in ledger[a] : e.match = m) \/ (\E e \in ledger[g] : e.match = m)
        <5>1. \A e \in ledger[g] : Marked(e) \in ledger'[a] /\ Marked(e).match = e.match
          BY <1>1, <1>6, <1>8, <1>9
        <5>2. \A x \in ledger'[a] : x \in ledger[a] \/ \E e \in ledger[g] : x.match = e.match
          BY <1>1, <1>6, <1>8, <1>9
        <5>3. ledger[a] \subseteq ledger'[a]
          BY <1>1, <1>8
        <5> QED BY <5>1, <5>2, <5>3
      <4>2. /\ (\E e \in ledger[a] : e.match = m) <=>
               (\E i \in WrittenPlaces(m) : match[m].four[i] = a)
            /\ (\E e \in ledger[g] : e.match = m) <=>
               (\E i \in WrittenPlaces(m) : match[m].four[i] = g)
        BY <1>1 DEF LedgerInv, RowsWritten
      <4>3. (\E i \in WrittenPlaces(m)' : match'[m].four[i] = q) <=>
            \/ \E i \in WrittenPlaces(m) : match[m].four[i] = a
            \/ \E i \in WrittenPlaces(m) : match[m].four[i] = g
        BY <1>7, <3>2
      <4>4. (\E x \in ledger'[q] : x.match = m) <=> (\E x \in ledger'[a] : x.match = m)
        BY <3>2
      <4> QED BY <4>1, <4>2, <4>3, <4>4
    <3>3. CASE q \notin {a, g}
      <4>1. (\E i \in WrittenPlaces(m)' : match'[m].four[i] = q) <=>
            (\E i \in WrittenPlaces(m) : match[m].four[i] = q)
        BY <1>7, <3>3
      <4>2. ledger'[q] = ledger[q]
        BY <1>8, <3>3
      <4>3. (\E x \in ledger[q] : x.match = m) <=>
            (\E i \in WrittenPlaces(m) : match[m].four[i] = q)
        BY DEF LedgerInv, RowsWritten
      <4> QED BY <4>1, <4>2, <4>3
    <3> QED BY <3>1, <3>2, <3>3
  <2> QED BY <2>1, <2>2 DEF RowsWritten
<1>15. LocksHeld'
  <2>1. ASSUME NEW q \in People, lock[q] # g
        PROVE  Sharers(q)' = Sharers(q)
    <3>1. ledger'[q] = ledger[q]
      BY <1>4, <1>8, <2>1
    <3> QED BY <1>10, <3>1 DEF Sharers
  <2> QED BY <1>3, <2>1, MergeLetsGo
<1>16. RowsOrdered'
  <2>1. ASSUME NEW x \in ledger'[a]
        PROVE  /\ x.earlier \subseteq {f.match : f \in ledger'[a]} /\ x.match \notin x.earlier
               /\ ~Committed(x)' => ~x.merged
               /\ \A y \in ledger'[a] :
                    /\ y.match \in x.earlier => y.earlier \subseteq x.earlier
                    /\ ~x.merged /\ ~y.merged /\ x # y => x.match \in y.earlier \/ y.match \in x.earlier
    <3>1. ledger[a] \subseteq ledger'[a] /\ \A e \in ledger[g] : Marked(e) \in ledger'[a]
      BY <1>1, <1>8
    <3>2. {f.match : f \in ledger[a]} \cup {f.match : f \in ledger[g]}
             \subseteq {f.match : f \in ledger'[a]}
      <4>1. \A e \in ledger[g] : e.match \in {f.match : f \in ledger'[a]}
        BY <1>6, <1>9, <3>1
      <4> QED BY <3>1, <4>1
    <3>3. ASSUME NEW f \in ledger[a]
          PROVE  /\ f.earlier \subseteq {h.match : h \in ledger[a]} /\ f.match \notin f.earlier
                 /\ \A h \in ledger[a] :
                      /\ h.match \in f.earlier => h.earlier \subseteq f.earlier
                      /\ ~f.merged /\ ~h.merged /\ f # h => f.match \in h.earlier \/ h.match \in f.earlier
      BY <1>1 DEF LedgerInv, RowsOrdered
    <3>4. ASSUME NEW f \in ledger[g]
          PROVE  /\ f.earlier \subseteq {h.match : h \in ledger[g]} /\ f.match \notin f.earlier
                 /\ \A h \in ledger[g] :
                      /\ h.match \in f.earlier => h.earlier \subseteq f.earlier
                      /\ ~f.merged /\ ~h.merged /\ f # h => f.match \in h.earlier \/ h.match \in f.earlier
      BY <1>1 DEF LedgerInv, RowsOrdered
    <3>5. \A y \in ledger'[a] : y \in ledger[a] \/
            \E e \in ledger[g] : /\ y = Marked(e) /\ y.match = e.match /\ y.earlier = e.earlier
                                 /\ y.merged <=> (e.merged \/ ledger[a] # {})
      BY <1>1, <1>6, <1>8, <1>9
    <3>6. match'[x.match].status = "verified"
      BY <1>1, <1>5, <1>10, <1>11, <3>5 DEF Committed
    <3>7. CASE x \in ledger[a]
      <4>1. ASSUME NEW y \in ledger'[a]
            PROVE  /\ y.match \in x.earlier => y.earlier \subseteq x.earlier
                   /\ ~x.merged /\ ~y.merged /\ x # y => x.match \in y.earlier \/ y.match \in x.earlier
        <5>1. CASE y \in ledger[a]
          BY <3>3, <3>7, <5>1
        <5>2. CASE y \notin ledger[a]
          <6>1. PICK e \in ledger[g] : y.match = e.match /\ (y.merged <=> (e.merged \/ ledger[a] # {}))
            BY <3>5, <5>2
          <6>2. y.match \notin x.earlier
            BY <1>13, <3>3, <3>7, <6>1
          <6> QED BY <3>7, <6>1, <6>2
        <5> QED BY <5>1, <5>2
      <4> QED BY <3>2, <3>3, <3>6, <3>7, <4>1 DEF Committed
    <3>8. CASE x \notin ledger[a]
      <4>1. PICK e \in ledger[g] : /\ x = Marked(e) /\ x.match = e.match /\ x.earlier = e.earlier
                                   /\ x.merged <=> (e.merged \/ ledger[a] # {})
        BY <3>5, <3>8
      <4>2. ASSUME NEW y \in ledger'[a]
            PROVE  /\ y.match \in x.earlier => y.earlier \subseteq x.earlier
                   /\ ~x.merged /\ ~y.merged /\ x # y => x.match \in y.earlier \/ y.match \in x.earlier
        <5>1. CASE y \in ledger[a]
          <6>1. y.match \notin x.earlier
            BY <1>13, <3>4, <4>1, <5>1
          <6> QED BY <4>1, <5>1, <6>1
        <5>2. CASE y \notin ledger[a]
          <6>1. PICK f \in ledger[g] : /\ y = Marked(f) /\ y.match = f.match /\ y.earlier = f.earlier
                                       /\ y.merged <=> (f.merged \/ ledger[a] # {})
            BY <3>5, <5>2
          <6>2. x # y => e # f
            BY <4>1, <6>1
          <6> QED BY <3>4, <4>1, <6>1, <6>2
        <5> QED BY <5>1, <5>2
      <4> QED BY <3>2, <3>4, <3>6, <4>1, <4>2 DEF Committed
    <3> QED BY <3>7, <3>8
  <2>2. ASSUME NEW q \in People, q # a, NEW x \in ledger'[q]
        PROVE  /\ x.earlier \subseteq {f.match : f \in ledger'[q]} /\ x.match \notin x.earlier
               /\ ~Committed(x)' => ~x.merged
               /\ \A y \in ledger'[q] :
                    /\ y.match \in x.earlier => y.earlier \subseteq x.earlier
                    /\ ~x.merged /\ ~y.merged /\ x # y => x.match \in y.earlier \/ y.match \in x.earlier
    <3>1. ledger'[q] = ledger[q] /\ x \in ledger[q] /\ (Committed(x)' <=> Committed(x))
      BY <1>8, <1>10, <2>2
    <3> QED BY <3>1 DEF LedgerInv, RowsOrdered
  <2> QED BY <2>1, <2>2 DEF RowsOrdered
<1>17. TrailsHaveALast'
  <2>1. ASSUME NEW q \in People, q \notin {a, g}
        PROVE  Trail(q)' = Trail(q) /\ LiveEvents(q)' = LiveEvents(q)
    <3>1. Trail(q)' = Trail(q)
      BY <1>8, <1>10, <2>1 DEF Trail
    <3> QED BY <3>1 DEF LiveEvents
  <2>2. Trail(g)' = {}
    BY <1>1, <1>8 DEF Trail
  <2>3. CASE ledger[a] # {}
    <3>1. Trail(a) = ledger[a]
      BY <1>5 DEF Trail
    <3>2. \A x \in LiveEvents(a)' : x \in LiveEvents(a)
      BY <1>1, <1>6, <1>8, <1>9, <2>3, <3>1 DEF LiveEvents, Trail
    <3>3. \A x \in LiveEvents(a) : x \in LiveEvents(a)'
      BY <1>1, <1>8, <1>10 DEF LiveEvents, Trail
    <3>4. LiveEvents(a)' = LiveEvents(a)
      BY <3>2, <3>3
    <3>5. \E e \in LiveEvents(a)' : IsLatest(e, LiveEvents(a)')
      BY <1>1, <2>3, <3>1, <3>4 DEF LedgerInv, TrailsHaveALast
    <3> QED BY <2>1, <2>2, <3>5 DEF LedgerInv, TrailsHaveALast
  <2>4. CASE ledger[a] = {}
    <3>1. \A x \in LiveEvents(a)' : \E e \in LiveEvents(g) : x.earlier = e.earlier /\ x.match = e.match
      BY <1>1, <1>5, <1>6, <1>8, <1>9, <2>4 DEF LiveEvents, Trail
    <3>2. \A e \in LiveEvents(g) : Marked(e) \in LiveEvents(a)' /\ Marked(e).match = e.match
      BY <1>1, <1>6, <1>8, <1>9, <1>11, <2>4 DEF LiveEvents, Trail, Committed
    <3>3. ASSUME Trail(a)' # {}
          PROVE  \E e \in LiveEvents(a)' : IsLatest(e, LiveEvents(a)')
      <4>1. Trail(g) # {}
        BY <1>1, <1>5, <1>8, <2>4, <3>3 DEF Trail
      <4>2. PICK l \in LiveEvents(g) : IsLatest(l, LiveEvents(g))
        BY <1>1, <4>1 DEF LedgerInv, TrailsHaveALast
      <4>3. \A x \in LiveEvents(a)' : Marked(l).match \notin x.earlier
        BY <3>1, <3>2, <4>2 DEF IsLatest
      <4> QED BY <3>2, <4>2, <4>3 DEF IsLatest
    <3> QED BY <2>1, <2>2, <3>3 DEF LedgerInv, TrailsHaveALast
  <2> QED BY <2>3, <2>4
<1> QED BY <1>12, <1>14, <1>15, <1>16, <1>17 DEF LedgerInv

-------------------------------------------------------------------------------
(* The Ledger. *)

LEMMA InitLedger ==
  ASSUME Init
  PROVE  LedgerInv
<1>1. /\ match = [m \in Matches |-> NotRecorded] /\ ledger = [p \in People |-> {}]
      /\ glass = [p \in People |-> Fresh] /\ txn = [m \in Matches |-> NoTxn]
      /\ lock = [r \in Rows |-> Free] /\ merge = [g \in Guests |-> "idle"]
  BY DEF Init, SealInit
<1>2. NotRecorded \in MatchRow
  <2>1. <<>> \in Seq(People)
    OBVIOUS
  <2> QED BY <2>1 DEF NotRecorded, MatchRow, Kind
<1>3. NoTxn \in Txn /\ Fresh \in PlayerState
  BY DEF NoTxn, Txn, PlayerState, Fresh
<1>4. TypeOK
  <2>1. /\ match \in [Matches -> MatchRow] /\ ledger \in [People -> SUBSET Event]
        /\ glass \in [People -> PlayerState] /\ txn \in [Matches -> Txn]
        /\ lock \in [Rows -> Matches \cup Guests \cup {Free}]
    BY <1>1, <1>2, <1>3
  <2>2. answer \in [Sessions -> [People -> {"none", "in", "out"}]]
        /\ rsvpIn \in [People -> Nat] /\ showUp \in [People -> Nat]
    BY DEF Init, SealInit
  <2>3. /\ ident \in [Guests -> {"guest", "husk"}]
        /\ merge \in [Guests -> {"idle", "first", "both"}] /\ raced \subseteq People
    BY DEF Init
  <2> QED BY <2>1, <2>2, <2>3 DEF TypeOK, SealTypeOK
<1>5. SealShape
  BY <1>1 DEF SealShape, Shape, Live, InFlight, NotRecorded, NoTxn
<1>6. RowsWritten
  <2>1. \A m \in Matches : WrittenPlaces(m) = {}
    BY <1>1 DEF WrittenPlaces, NotRecorded, NoTxn
  <2> QED BY <1>1, <2>1 DEF RowsWritten
<1>7. LocksHeld
  BY <1>1, OwnerAssumption DEF LocksHeld, InFlight, NoTxn, Rows
<1>8. RowsOrdered /\ TrailsHaveALast
  BY <1>1 DEF RowsOrdered, TrailsHaveALast, Trail
<1> QED BY <1>4, <1>5, <1>6, <1>7, <1>8 DEF LedgerInv

\* Every step keeps the invariant of the Ledger.
LEMMA NextLedger ==
  ASSUME LedgerInv, [Next]_vars
  PROVE  LedgerInv'
<1>1. CASE Answering
  BY <1>1, AnswerLedger DEF Answering
<1>2. CASE Recording
  BY <1>2, RecordLedger DEF Recording, RecordMatch, RecordAdHocMatch
<1>3. ASSUME NEW m \in Matches, DisputeMatch(m), UNCHANGED mergeVars
      PROVE  LedgerInv'
  BY <1>3, DisputeLedger
<1>4. ASSUME NEW m \in Matches, Confirm(m)
      PROVE  LedgerInv'
  BY <1>4, ConfirmLedger
<1>5. ASSUME NEW m \in Matches, Seal(m)
      PROVE  LedgerInv'
  <2>1. UNCHANGED <<ident, merge>> /\ NoteRaces /\ SealStep(m)
    BY <1>5 DEF Seal
  <2>2. CASE LoadPlayerStates(m)
    BY <2>1, <2>2, LoadLedger
  <2>3. CASE LoadThrows(m)
    <3>1. raced' \subseteq People
      BY <2>1 DEF NoteRaces, LedgerInv, TypeOK
    <3> QED BY <2>1, <2>3, <3>1, RollbackLedger DEF LoadThrows
  <2>4. CASE InsertRatingEvent(m)
    BY <2>1, <2>4, InsertLedger
  <2>5. CASE UpdateRating(m)
    BY <2>1, <2>5, UpdateLedger
  <2>6. CASE CreditShowUp(m)
    BY <2>1, <2>6, CreditLedger
  <2>7. CASE CommitSeal(m)
    BY <2>1, <2>7, CommitLedger
  <2> QED BY <2>1, <2>2, <2>3, <2>4, <2>5, <2>6, <2>7 DEF SealStep
<1>6. ASSUME NEW m \in Matches, Rollback(m), UNCHANGED mergeVars
      PROVE  LedgerInv'
  <2>1. UNCHANGED <<ident, merge>> /\ raced' \subseteq People
    BY <1>6 DEF mergeVars, LedgerInv, TypeOK
  <2> QED BY <1>6, <2>1, RollbackLedger
<1>7. ASSUME NEW g \in Guests, MergeStep(g) \/ MergeRollback(g)
      PROVE  LedgerInv'
  BY <1>7, LockFirstLedger, LockSecondLedger, LockMatchRowLedger, ReattributeLedger,
     MergeRollbackLedger DEF MergeStep
<1>8. CASE UNCHANGED vars
  <2>1. /\ UNCHANGED <<match, ledger, glass, answer, rsvpIn, showUp, txn, ident>>
        /\ UNCHANGED <<lock, merge, raced>>
    BY <1>8 DEF vars, sealVars, mergeVars
  <2>2. LocksHeld'
    BY <2>1 DEF LedgerInv, LocksHeld, InFlight, Sharers, Committed
  <2>3. lock' \in [Rows -> Matches \cup Guests \cup {Free}] /\ raced' \subseteq People
        /\ merge' \in [Guests -> {"idle", "first", "both"}]
    BY <2>1 DEF LedgerInv, TypeOK, SealTypeOK
  <2> QED BY <2>1, <2>2, <2>3, MergeMoves
<1>9. ASSUME NEW t \in Transactions, AbortDeadlocked(t)
      PROVE  LedgerInv'
  BY <1>6, <1>7, <1>9 DEF AbortDeadlocked, Transactions
<1> QED BY <1>1, <1>2, <1>3, <1>4, <1>5, <1>6, <1>7, <1>8, <1>9 DEF Next, Crash

\* The invariant of the Ledger holds in every state.
LEMMA LedgerHolds == Spec => []LedgerInv
<1> QED BY InitLedger, NextLedger, PTL DEF Spec

\* Every variable has its type, what a seal read of a player included: whenever
\* loadPlayerState does not throw it finds a last row.
THEOREM TypeCorrect == Spec => []TypeOK
<1>1. LedgerInv => TypeOK
  BY DEF LedgerInv
<1> QED BY <1>1, LedgerHolds, PTL

\* A match is sealed once and as a whole, however many seals and merges cross it and
\* whatever crashes: at every moment it has one committed row for each of its four
\* when it is verified and counts for Glass, and none otherwise.
THEOREM SealsAreWhole == Spec => []SealedOnceAsAWhole
<1>1. ASSUME LedgerInv
      PROVE  SealedOnceAsAWhole
  <2> SUFFICES ASSUME NEW m \in Matches, NEW p \in People
               PROVE  Cardinality(RowsOf(m, p)) =
                        IF match[m].kind = "rated" /\ match[m].status = "verified"
                           /\ p \in Range(match[m].four)
                        THEN 1 ELSE 0
    BY DEF SealedOnceAsAWhole
  <2>1. /\ \A e, f \in ledger[p] : e.match = f.match => e = f
        /\ (\E e \in ledger[p] : e.match = m) <=> (\E i \in WrittenPlaces(m) : match[m].four[i] = p)
    BY <1>1 DEF LedgerInv, RowsWritten
  <2>2. RowsOf(m, p) = {e \in ledger[p] : e.match = m /\ match[m].status = "verified"}
    BY DEF RowsOf, Trail, Committed
  <2>3. CASE match[m].status # "verified"
    <3>1. RowsOf(m, p) = {}
      BY <2>2, <2>3
    <3> QED BY <2>3, <3>1, FS_EmptySet
  <2>4. CASE match[m].status = "verified"
    <3>1. ~InFlight(m) /\ match[m].four \in [1..4 -> People]
      BY <1>1, <2>4 DEF LedgerInv, SealShape, Shape, Live
    <3>2. WrittenPlaces(m) = IF match[m].kind = "rated" THEN 1..4 ELSE {}
      BY <2>4, <3>1 DEF WrittenPlaces, InFlight
    <3>3. Range(match[m].four) = {match[m].four[i] : i \in 1..4}
      BY <3>1, PlacesOfFour
    <3>4. (\E i \in WrittenPlaces(m) : match[m].four[i] = p) <=>
          match[m].kind = "rated" /\ p \in Range(match[m].four)
      BY <3>2, <3>3
    <3>5. CASE match[m].kind = "rated" /\ p \in Range(match[m].four)
      <4>1. PICK e \in ledger[p] : e.match = m
        BY <2>1, <3>4, <3>5
      <4>2. RowsOf(m, p) = {e}
        BY <2>1, <2>2, <2>4, <4>1
      <4> QED BY <2>4, <3>5, <4>2, FS_Singleton
    <3>6. CASE ~(match[m].kind = "rated" /\ p \in Range(match[m].four))
      <4>1. RowsOf(m, p) = {}
        BY <2>1, <2>2, <3>4, <3>6
      <4> QED BY <3>6, <4>1, FS_EmptySet
    <3> QED BY <3>5, <3>6
  <2> QED BY <2>3, <2>4
<1> QED BY <1>1, LedgerHolds, PTL

\* Only the commit of a merge changes who a users row stands for.
LEMMA WhoBecomesHusk ==
  ASSUME TypeOK, [Next]_vars, NEW g \in Guests, ident'[g] # ident[g]
  PROVE  ReattributeGuestData(g)
<1>1. ident' # ident
  OBVIOUS
<1>2. ASSUME NEW t \in Transactions
      PROVE  AbortDeadlocked(t) => ident' = ident
  BY DEF AbortDeadlocked, mergeVars, MergeRollback
<1>3. PICK h \in Guests : ReattributeGuestData(h)
  BY <1>1, <1>2 DEF Next, vars, mergeVars, Answering, Recording, Confirm, Seal, Crash, MergeStep,
     LockFirst, LockSecond, LockMatchRow, MergeRollback
<1>4. ident' = [ident EXCEPT ![h] = "husk"] /\ ident \in [Guests -> {"guest", "husk"}]
  BY <1>3 DEF ReattributeGuestData, TypeOK
<1>5. h = g
  BY <1>4
<1> QED BY <1>3, <1>5

\* The merge leaves nothing behind: neither a match, nor an answer, nor a Ledger row
\* belongs to a husk when the merge commits (reattributeGuestData).
THEOREM MergeLeavesNothing == Spec => MergeDrainsGuest
<1> DEFINE Drained ==
      \A g \in Guests : ident[g] # ident'[g] =>
        /\ \A m \in Matches : g \notin Range(match'[m].four)
        /\ \A s \in Sessions : answer'[s][g] = "none"
        /\ ledger'[g] = {}
<1>1. ASSUME LedgerInv, [Next]_vars
      PROVE  Drained
  <2> SUFFICES ASSUME NEW g \in Guests, ident[g] # ident'[g]
               PROVE  /\ \A m \in Matches : g \notin Range(match'[m].four)
                      /\ \A s \in Sessions : answer'[s][g] = "none"
                      /\ ledger'[g] = {}
    OBVIOUS
  <2> DEFINE a == MergeInto[g]
  <2>1. ReattributeGuestData(g) /\ TypeOK
    BY <1>1, WhoBecomesHusk DEF LedgerInv
  <2>2. a \in People /\ g \in People /\ a # g
    BY MergeRows
  <2>3. ASSUME NEW m \in Matches
        PROVE  g \notin Range(match'[m].four)
    <3>1. /\ DOMAIN match'[m].four = DOMAIN match[m].four
          /\ \A i \in DOMAIN match[m].four :
               match'[m].four[i] = IF match[m].four[i] = g THEN a ELSE match[m].four[i]
      BY <2>1, <2>2, RepointedRow DEF ReattributeGuestData
    <3>2. \A i \in DOMAIN match'[m].four : match'[m].four[i] # g
      BY <2>2, <3>1
    <3> QED BY <3>2 DEF Range
  <2>4. ASSUME NEW s \in Sessions
        PROVE  answer'[s][g] = "none"
    BY <2>1, <2>2 DEF ReattributeGuestData, Reanswered, TypeOK, SealTypeOK
  <2>5. ledger'[g] = {}
    BY <2>1, <2>2 DEF ReattributeGuestData, Reattributed, TypeOK, SealTypeOK
  <2> QED BY <2>3, <2>4, <2>5
<1> QED BY <1>1, LedgerHolds, PTL DEF Spec, MergeDrainsGuest

\* A merge is of a guest, not of a husk.
MergesGuests == \A g \in Guests : merge[g] # "idle" => ident[g] = "guest"

LEMMA GuestsMerge == Spec => []MergesGuests
<1>1. Init => MergesGuests
  BY DEF Init, MergesGuests
<1>2. ASSUME TypeOK, MergesGuests, [Next]_vars
      PROVE  MergesGuests'
  <2> SUFFICES ASSUME NEW g \in Guests, merge'[g] # "idle"
               PROVE  ident'[g] = "guest"
    BY DEF MergesGuests
  <2>1. merge \in [Guests -> {"idle", "first", "both"}]
    BY <1>2 DEF TypeOK
  <2>2. ~ReattributeGuestData(g)
    BY <2>1 DEF ReattributeGuestData
  <2>3. ident'[g] = ident[g]
    BY <1>2, <2>2, WhoBecomesHusk
  <2>4. CASE merge[g] # "idle"
    BY <1>2, <2>3, <2>4 DEF MergesGuests
  <2>5. CASE merge[g] = "idle"
    <3>1. merge' # merge
      BY <2>5
    <3>2. ASSUME NEW t \in Transactions, AbortDeadlocked(t)
          PROVE  merge' = merge \/ \E h \in Guests : MergeRollback(h)
      BY <3>2 DEF AbortDeadlocked, Transactions, mergeVars
    <3>3. \E h \in Guests : LockFirst(h) \/ LockSecond(h) \/ ReattributeGuestData(h) \/ MergeRollback(h)
      BY <1>2, <3>1, <3>2 DEF Next, vars, mergeVars, Answering, Recording, Confirm, Seal, Crash,
         MergeStep, LockMatchRow
    <3>4. PICK h \in Guests :
            LockFirst(h) \/ LockSecond(h) \/ ReattributeGuestData(h) \/ MergeRollback(h)
      BY <3>3
    <3>5. \E way \in {"first", "both", "idle"} : merge' = [merge EXCEPT ![h] = way]
      BY <3>4 DEF LockFirst, LockSecond, ReattributeGuestData, MergeRollback
    <3>6. h = g
      BY <2>1, <2>5, <3>5
    <3>7. LockFirst(g)
      BY <2>1, <2>2, <2>5, <3>4, <3>6 DEF LockSecond, MergeRollback
    <3> QED BY <2>3, <3>7 DEF LockFirst
  <2> QED BY <2>4, <2>5
<1> QED BY <1>1, <1>2, TypeCorrect, PTL DEF Spec

\* Where no row is taken away and no match loses its seal, the Ledger only grows.
LEMMA TrailGrows ==
  ASSUME TypeOK, NEW p \in People, ledger[p] \subseteq ledger'[p],
         \A m \in Matches : match[m].status = "verified" => match'[m].status = "verified",
         NEW e \in Trail(p)
  PROVE  e \in Trail(p)'
<1>1. e \in ledger[p] /\ e.match \in Matches /\ match[e.match].status = "verified"
  BY DEF Trail, Committed, TypeOK, SealTypeOK, Event
<1> QED BY <1>1 DEF Trail, Committed

\* A committed row is never changed or taken away, over seals, crashes, deadlocks and
\* disputes; only a merge gives it another owner.
THEOREM LedgerIsAppendOnly == Spec => LedgerAppendOnly
<1> DEFINE Kept(p, e) ==
      \/ \E f \in Trail(p)' : SameRow(e, f) /\ f.merged = e.merged
      \/ /\ p \in Guests /\ ident[p] # ident'[p]
         /\ \E f \in Trail(MergeInto[p])' : SameRow(e, f)
<1>1. ASSUME LedgerInv, MergesGuests, [Next]_vars, NEW p \in People, NEW e \in Trail(p)
      PROVE  Kept(p, e)
  <2>1. /\ TypeOK /\ e \in ledger[p] /\ e \in Event /\ match[e.match].status = "verified"
        /\ ledger[p] \subseteq Event
    BY <1>1 DEF LedgerInv, TypeOK, SealTypeOK, Trail, Committed
  <2>2. ASSUME ledger[p] \subseteq ledger'[p],
               \A m \in Matches : match[m].status = "verified" => match'[m].status = "verified"
        PROVE  Kept(p, e)
    <3>1. e \in Trail(p)'
      BY <2>1, <2>2, TrailGrows
    <3> QED BY <3>1 DEF SameRow
  <2>3. ASSUME ledger' = ledger, match' = match
        PROVE  Kept(p, e)
    BY <2>2, <2>3
  <2> HIDE DEF Kept
  <2>4. CASE Answering
    BY <2>3, <2>4 DEF Answering, SayIn, SayOut
  <2>5. CASE Recording
    <3>1. PICK r \in Reports, s \in Sessions \cup {AdHoc} : InsertMatch(r, s)
      BY <2>5 DEF Recording, RecordMatch, RecordAdHocMatch
    <3>2. ledger' = ledger /\ match[r.match].status = "absent"
          /\ \A m \in Matches : m # r.match => match'[m] = match[m]
      BY <2>1, <3>1 DEF InsertMatch, TypeOK, SealTypeOK
    <3> QED BY <2>2, <3>2
  <2>6. ASSUME NEW m \in Matches, DisputeMatch(m)
        PROVE  Kept(p, e)
    <3>1. ledger' = ledger /\ match[m].status = "pending_confirmation"
          /\ \A n \in Matches : n # m => match'[n] = match[n]
      BY <2>1, <2>6 DEF DisputeMatch, TypeOK, SealTypeOK
    <3> QED BY <2>2, <3>1
  <2>7. ASSUME NEW m \in Matches, Confirm(m)
        PROVE  Kept(p, e)
    BY <2>3, <2>7 DEF Confirm, ConfirmMatch, bookVars, ledgerVars
  <2>8. ASSUME NEW m \in Matches, Rollback(m)
        PROVE  Kept(p, e)
    <3> DEFINE Cut(x) == [x EXCEPT !.earlier = @ \ {m}]
    <3>1. match[m].status = "pending_confirmation"
      BY <1>1, <2>8 DEF Rollback, LedgerInv, SealShape, Shape, InFlight
    <3>2. match' = match /\ ledger'[p] = {Cut(x) : x \in {y \in ledger[p] : y.match # m}}
      BY <2>8 DEF Rollback, bookVars
    <3>3. Cut(e) \in ledger'[p]
      BY <2>1, <3>1, <3>2
    <3>4. SameRow(e, Cut(e)) /\ Cut(e).merged = e.merged
      BY <2>1 DEF SameRow, Event
    <3> HIDE DEF Cut
    <3>5. \E f \in ledger'[p] : SameRow(e, f) /\ f.merged = e.merged
      BY <3>3, <3>4
    <3>6. PICK f \in ledger'[p] : SameRow(e, f) /\ f.merged = e.merged
      BY <3>5
    <3>7. f \in Trail(p)'
      BY <2>1, <3>2, <3>6 DEF Trail, Committed, SameRow
    <3> QED BY <3>6, <3>7 DEF Kept
  <2>9. ASSUME NEW m \in Matches, SealStep(m)
        PROVE  Kept(p, e)
    <3>1. CASE LoadPlayerStates(m)
      BY <2>3, <3>1 DEF LoadPlayerStates, bookVars, ledgerVars
    <3>2. CASE LoadThrows(m)
      BY <2>8, <3>2 DEF LoadThrows
    <3>3. CASE InsertRatingEvent(m)
      <4>1. match' = match /\ ledger[p] \subseteq ledger'[p]
        BY <2>1, <3>3 DEF InsertRatingEvent, bookVars, TypeOK, SealTypeOK
      <4> QED BY <2>2, <4>1
    <3>4. CASE UpdateRating(m)
      BY <2>3, <3>4 DEF UpdateRating, bookVars, ledgerVars
    <3>5. CASE CreditShowUp(m)
      BY <2>3, <3>5 DEF CreditShowUp, bookVars, ledgerVars
    <3>6. CASE CommitSeal(m)
      <4>1. ledger' = ledger
            /\ \A n \in Matches : match[n].status = "verified" => match'[n].status = "verified"
        BY <2>1, <3>6 DEF CommitSeal, TypeOK, SealTypeOK, MatchRow
      <4> QED BY <2>2, <4>1
    <3> QED BY <2>9, <3>1, <3>2, <3>3, <3>4, <3>5, <3>6 DEF SealStep
  <2>10. ASSUME NEW g \in Guests, LockFirst(g) \/ LockSecond(g) \/ LockMatchRow(g) \/ MergeRollback(g)
         PROVE  Kept(p, e)
    BY <2>3, <2>10 DEF LockFirst, LockSecond, LockMatchRow, MergeRollback
  <2>11. ASSUME NEW g \in Guests, ReattributeGuestData(g)
         PROVE  Kept(p, e)
    <3> DEFINE a == MergeInto[g]
               Marked(x) == [x EXCEPT !.merged = @ \/ ledger[a] # {}]
    <3>1. a \in People /\ g \in People /\ a # g
      BY MergeRows
    <3>2. \A m \in Matches : match'[m].status = match[m].status
      BY <2>1, <2>11, <3>1, RepointedRow DEF ReattributeGuestData
    <3>3. \A q \in People : ledger'[q] = IF q = g THEN {}
                                         ELSE IF q = a THEN ledger[a] \cup {Marked(x) : x \in ledger[g]}
                                         ELSE ledger[q]
      BY <2>1, <2>11, <3>1 DEF ReattributeGuestData, Reattributed, TypeOK, SealTypeOK
    <3>4. CASE p # g
      <4>1. ledger[p] \subseteq ledger'[p]
        BY <3>3, <3>4
      <4> QED BY <2>2, <3>2, <4>1
    <3>5. CASE p = g
      <4>1. Marked(e) \in ledger'[a] /\ SameRow(e, Marked(e))
        <5>1. Marked(e) \in {Marked(x) : x \in ledger[g]}
          BY <2>1, <3>5
        <5>2. SameRow(e, Marked(e))
          BY <2>1 DEF SameRow, Event
        <5> HIDE DEF Marked
        <5> QED BY <3>1, <3>3, <5>1, <5>2
      <4> HIDE DEF Marked, a
      <4>2. PICK f \in ledger'[a] : SameRow(e, f)
        BY <4>1
      <4>3. f \in Trail(a)'
        BY <2>1, <3>2, <4>2 DEF Trail, Committed, SameRow, Event
      <4>4. ident[g] # ident'[g]
        BY <1>1, <2>1, <2>11 DEF ReattributeGuestData, MergesGuests, TypeOK
      <4> QED BY <3>5, <4>2, <4>3, <4>4 DEF Kept, a
    <3> QED BY <3>4, <3>5
  <2>12. CASE UNCHANGED vars
    BY <2>3, <2>12 DEF vars, sealVars
  <2>13. ASSUME NEW t \in Transactions, AbortDeadlocked(t)
         PROVE  Kept(p, e)
    BY <2>8, <2>10, <2>13 DEF AbortDeadlocked, Transactions
  <2> QED BY <1>1, <2>4, <2>5, <2>6, <2>7, <2>8, <2>9, <2>10, <2>11, <2>12, <2>13
          DEF Next, Seal, Crash, MergeStep
<1>2. ASSUME LedgerInv, MergesGuests, [Next]_vars
      PROVE  \A p \in People : \A e \in Trail(p) : Kept(p, e)
  <2> HIDE DEF Kept
  <2> QED BY <1>1, <1>2
<1> QED BY <1>2, LedgerHolds, GuestsMerge, PTL DEF Spec, LedgerAppendOnly
===============================================================================
