-------------------------- MODULE MatchRatings_proofs --------------------------
(***************************************************************************)
(* Proofs about what a seal writes on its players: the show-ups credited   *)
(* for a session, and the rating and count mirrored on users.  They rest   *)
(* on the invariant of the Ledger (MatchLedger_proofs).                    *)
(***************************************************************************)
EXTENDS MatchLedger_proofs, FunctionTheorems

-------------------------------------------------------------------------------
(* Reliability. *)

\* A session has one match, and whoever a seal in flight credits is on it and cannot
\* answer again before it ends.
SessionsInv ==
  /\ \A m, n \in Matches :
       Live(m) /\ Live(n) /\ match[m].session = match[n].session /\ match[m].session # AdHoc
         => m = n
  /\ \A m \in Matches : \A p \in txn[m].shows :
       /\ InFlight(m) /\ match[m].session # AdHoc /\ lock[p] = m
       /\ p \in Range(match[m].four)

\* Sessions p said "in" to, or is being credited with, and may still be credited with.
Owed(p) ==
  {s \in Sessions :
     /\ \A m \in Matches : match[m].session = s => match[m].status # "verified"
     /\ answer[s][p] = "in" \/ \E m \in Matches : match[m].session = s /\ p \in txn[m].shows}

NobodyIsOverCredited == \A p \in People : showUp[p] + Cardinality(Owed(p)) =< rsvpIn[p]

CreditInv == SessionsInv /\ NobodyIsOverCredited

\* What a player is owed is counted.
LEMMA OwedIsFinite ==
  ASSUME NEW S, S \subseteq Sessions
  PROVE  IsFiniteSet(S) /\ Cardinality(S) \in Nat
BY OwnerAssumption, FS_Subset, FS_CardinalityType

\* To owe less is to be safe.
LEMMA OwedShrinks ==
  ASSUME TypeOK, NobodyIsOverCredited, NEW p \in People, Owed(p)' \subseteq Owed(p),
         showUp'[p] = showUp[p], rsvpIn'[p] = rsvpIn[p]
  PROVE  showUp'[p] + Cardinality(Owed(p)') =< rsvpIn'[p]
<1>1. Owed(p) \subseteq Sessions
  BY DEF Owed
<1>2. Cardinality(Owed(p)') =< Cardinality(Owed(p))
  BY <1>1, OwedIsFinite, FS_Subset
<1>3. Cardinality(Owed(p)) \in Nat /\ Cardinality(Owed(p)') \in Nat
  BY <1>1, OwedIsFinite
<1>4. showUp[p] \in Nat /\ rsvpIn[p] \in Nat /\ showUp[p] + Cardinality(Owed(p)) =< rsvpIn[p]
  BY DEF TypeOK, SealTypeOK, NobodyIsOverCredited
<1> QED BY <1>2, <1>3, <1>4

\* A step that credits nobody, takes back no seal and writes shows only of players who
\* said "in" leaves everybody owed at most what they were.
LEMMA CreditStays ==
  ASSUME TypeOK, NobodyIsOverCredited, UNCHANGED <<answer, rsvpIn, showUp>>,
         \A m \in Matches : match[m].status = "verified" =>
           match'[m].status = "verified" /\ match'[m].session = match[m].session,
         \A m \in Matches : \A p \in txn'[m].shows :
           \/ p \in txn[m].shows /\ match'[m].session = match[m].session
           \/ answer[match'[m].session][p] = "in"
  PROVE  NobodyIsOverCredited'
<1>1. ASSUME NEW p \in People
      PROVE  Owed(p)' \subseteq Owed(p)
  <2> SUFFICES ASSUME NEW s \in Sessions, s \in Owed(p)'
               PROVE  s \in Owed(p)
    BY DEF Owed
  <2>1. \A m \in Matches : match'[m].session = s => match'[m].status # "verified"
    BY DEF Owed
  <2>2. \A m \in Matches : match[m].session = s => match[m].status # "verified"
    BY <2>1
  <2>3. answer[s][p] = "in" \/ \E m \in Matches : match'[m].session = s /\ p \in txn'[m].shows
    BY DEF Owed
  <2>4. answer[s][p] = "in" \/ \E m \in Matches : match[m].session = s /\ p \in txn[m].shows
    BY <2>3
  <2> QED BY <2>2, <2>4 DEF Owed
<1>2. ASSUME NEW p \in People
      PROVE  showUp'[p] + Cardinality(Owed(p)') =< rsvpIn'[p]
  BY <1>1, OwedShrinks
<1> QED BY <1>2 DEF NobodyIsOverCredited

\* The sessions of the matches stay one each while fours, sessions and locks stay.
LEMMA SessionsStay ==
  ASSUME SessionsInv,
         \A m \in Matches : Live(m)' => Live(m) /\ match'[m].session = match[m].session,
         \A m \in Matches : \A p \in txn'[m].shows :
           /\ p \in txn[m].shows /\ InFlight(m)' /\ lock'[p] = lock[p]
           /\ match'[m].session = match[m].session
           /\ p \in Range(match[m].four) => p \in Range(match'[m].four)
  PROVE  SessionsInv'
<1>1. ASSUME NEW m \in Matches, NEW n \in Matches, Live(m)', Live(n)',
             match'[m].session = match'[n].session, match'[m].session # AdHoc
      PROVE  m = n
  BY <1>1 DEF SessionsInv
<1>2. ASSUME NEW m \in Matches, NEW p \in txn'[m].shows
      PROVE  /\ InFlight(m)' /\ match'[m].session # AdHoc /\ lock'[p] = m
             /\ p \in Range(match'[m].four)
  BY <1>2 DEF SessionsInv
<1> QED BY <1>1, <1>2 DEF SessionsInv

\* A match is recorded for a session that has none; the player of a stale seal is not
\* credited by it.
LEMMA RecordCredit ==
  ASSUME LedgerInv, CreditInv, NEW r \in Reports, NEW s \in Sessions \cup {AdHoc}, InsertMatch(r, s),
         s \in Sessions => \A other \in Matches : Live(other) => match[other].session # s
  PROVE  CreditInv'
<1> DEFINE m == r.match
<1>1. UNCHANGED <<ledger, glass, answer, rsvpIn, showUp, txn, lock>>
  BY DEF InsertMatch
<1>2. /\ m \in Matches /\ match[m].status = "absent" /\ match'[m].status = "pending_confirmation"
      /\ match'[m].session = s /\ \A n \in Matches : n # m => match'[n] = match[n]
  BY ReportShape DEF InsertMatch, LedgerInv, TypeOK, SealTypeOK
<1>3. txn[m].shows = {}
  <2>1. txn[m] = NoTxn
    BY <1>2 DEF LedgerInv, SealShape, Shape
  <2> QED BY <2>1 DEF NoTxn
<1>4. NobodyIsOverCredited'
  <2>1. \A n \in Matches : match[n].status = "verified" => n # m
    BY <1>2
  <2> QED BY <1>1, <1>2, <1>3, <2>1, CreditStays DEF LedgerInv, CreditInv
<1>5. ASSUME NEW j \in Matches, NEW k \in Matches, Live(j)', Live(k)',
             match'[j].session = match'[k].session, match'[j].session # AdHoc
      PROVE  j = k
  <2>1. CASE j # m /\ k # m
    BY <1>2, <1>5, <2>1 DEF CreditInv, SessionsInv, Live
  <2>2. CASE j = m /\ k # m
    BY <1>2, <1>5, <2>2 DEF Live
  <2>3. CASE j # m /\ k = m
    BY <1>2, <1>5, <2>3 DEF Live
  <2> QED BY <2>1, <2>2, <2>3
<1>6. ASSUME NEW j \in Matches, NEW p \in txn'[j].shows
      PROVE  /\ InFlight(j)' /\ match'[j].session # AdHoc /\ lock'[p] = j
             /\ p \in Range(match'[j].four)
  <2>1. j # m /\ p \in txn[j].shows /\ match'[j] = match[j]
    BY <1>1, <1>2, <1>3
  <2> QED BY <1>1, <2>1 DEF CreditInv, SessionsInv, InFlight
<1>7. SessionsInv'
  BY <1>5, <1>6 DEF SessionsInv
<1> QED BY <1>4, <1>7 DEF CreditInv

\* Who says "in" may be owed one game more.
LEMMA AnswerCredit ==
  ASSUME LedgerInv, CreditInv, NEW s \in Sessions, NEW p \in Tappers, SayIn(s, p) \/ SayOut(s, p)
  PROVE  CreditInv'
<1>1. UNCHANGED <<match, ledger, glass, showUp, txn, lock>> /\ p \in People
  BY SealPeopleAssumption DEF SayIn, SayOut
<1>2. /\ answer \in [Sessions -> [People -> {"none", "in", "out"}]] /\ rsvpIn \in [People -> Nat]
      /\ showUp \in [People -> Nat] /\ TypeOK /\ NobodyIsOverCredited
  BY DEF LedgerInv, TypeOK, SealTypeOK, CreditInv
<1>3. SessionsInv'
  BY <1>1 DEF CreditInv, SessionsInv, Live, InFlight
<1>4. ASSUME NEW q \in People, q # p
      PROVE  showUp'[q] + Cardinality(Owed(q)') =< rsvpIn'[q]
  <2>1. \A t \in Sessions : answer'[t][q] = answer[t][q]
    BY <1>2, <1>4 DEF SayIn, SayOut
  <2>2. Owed(q)' \subseteq Owed(q)
    BY <1>1, <2>1 DEF Owed
  <2>3. rsvpIn'[q] = rsvpIn[q]
    BY <1>2, <1>4 DEF SayIn, SayOut
  <2> QED BY <1>1, <1>2, <2>2, <2>3, OwedShrinks
<1>5. CASE SayOut(s, p)
  <2>1. \A t \in Sessions : answer'[t][p] = "in" => answer[t][p] = "in"
    BY <1>1, <1>2, <1>5 DEF SayOut
  <2>2. Owed(p)' \subseteq Owed(p) /\ rsvpIn' = rsvpIn
    BY <1>1, <1>5, <2>1 DEF Owed, SayOut
  <2>3. showUp'[p] + Cardinality(Owed(p)') =< rsvpIn'[p]
    BY <1>1, <1>2, <2>2, OwedShrinks
  <2> QED BY <1>3, <1>4, <2>3 DEF CreditInv, NobodyIsOverCredited
<1>6. CASE SayIn(s, p)
  <2>1. \A t \in Sessions : answer'[t][p] = "in" => answer[t][p] = "in" \/ t = s
    BY <1>1, <1>2, <1>6 DEF SayIn
  <2>2. Owed(p)' \subseteq Owed(p) \cup {s}
    BY <1>1, <2>1 DEF Owed
  <2>3. IsFiniteSet(Owed(p)) /\ IsFiniteSet(Owed(p) \cup {s}) /\ Cardinality(Owed(p)) \in Nat
        /\ Cardinality(Owed(p)') \in Nat /\ Owed(p) \cup {s} \subseteq Sessions
    <3>1. Owed(p) \subseteq Sessions /\ Owed(p)' \subseteq Sessions
      BY DEF Owed
    <3> QED BY <3>1, OwedIsFinite
  <2>4. Cardinality(Owed(p)') =< Cardinality(Owed(p) \cup {s})
    BY <2>2, <2>3, FS_Subset
  <2>5. Cardinality(Owed(p) \cup {s}) =< Cardinality(Owed(p)) + 1
    BY <2>3, FS_AddElement
  <2>6. Cardinality(Owed(p) \cup {s}) \in Nat
    BY <2>3, OwedIsFinite
  <2>7. rsvpIn'[p] = rsvpIn[p] + 1 /\ showUp'[p] = showUp[p] /\ showUp[p] \in Nat /\ rsvpIn[p] \in Nat
    BY <1>1, <1>2, <1>6 DEF SayIn
  <2>8. showUp[p] + Cardinality(Owed(p)) =< rsvpIn[p]
    BY <1>1, <1>2 DEF NobodyIsOverCredited
  <2>9. showUp'[p] + Cardinality(Owed(p)') =< rsvpIn'[p]
    BY <2>3, <2>4, <2>5, <2>6, <2>7, <2>8
  <2> QED BY <1>3, <1>4, <2>9 DEF CreditInv, NobodyIsOverCredited
<1> QED BY <1>5, <1>6

\* The players whose users row a seal or a merge takes were not being credited by
\* another seal, and the matches stay as they are.
LEMMA StepCredit ==
  ASSUME LedgerInv, CreditInv, UNCHANGED <<answer, rsvpIn, showUp>>,
         \A m \in Matches :
           /\ Live(m)' <=> Live(m)
           /\ match'[m].session = match[m].session /\ match'[m].four = match[m].four
           /\ match[m].status = "verified" => match'[m].status = "verified"
           /\ txn'[m].shows \subseteq txn[m].shows
           /\ txn'[m].shows # {} => InFlight(m)',
         \A p \in People : lock[p] \in Matches /\ lock'[p] # lock[p] => txn'[lock[p]].shows = {}
  PROVE  CreditInv'
<1>1. NobodyIsOverCredited'
  BY CreditStays DEF LedgerInv, CreditInv
<1>2. \A m \in Matches : \A p \in txn'[m].shows : p \in People /\ lock[p] = m
  BY DEF CreditInv, SessionsInv, LedgerInv, TypeOK, SealTypeOK, Txn
<1>3. SessionsInv'
  BY <1>2, SessionsStay DEF CreditInv
<1> QED BY <1>1, <1>3 DEF CreditInv

\* A seal credits a player who said "in", once it has the users row.
LEMMA ShowUpCredit ==
  ASSUME LedgerInv, CreditInv, NEW m \in Matches, CreditShowUp(m)
  PROVE  CreditInv'
<1> DEFINE i == Min(ToCredit(m))
           p == match[m].four[i]
<1>1. /\ UNCHANGED <<match, answer, rsvpIn, showUp>> /\ txn[m].at = "credit" /\ ToCredit(m) # {}
      /\ lock' = [lock EXCEPT ![p] = m] /\ lock[p] \in {Free, m}
      /\ txn' = [txn EXCEPT ![m].shows = @ \cup {p}, ![m].next = i + 1]
  BY DEF CreditShowUp, CanWrite, bookVars, ledgerVars
<1>2. /\ txn \in [Matches -> Txn] /\ TypeOK /\ SealShape /\ InFlight(m)
      /\ lock \in [Rows -> Matches \cup Guests \cup {Free}]
  BY <1>1 DEF LedgerInv, TypeOK, SealTypeOK, InFlight
<1>3. i \in ToCredit(m) /\ i \in 1..4
  BY <1>1, <1>2, NextToCredit
<1>4. match[m].session # AdHoc /\ answer[match[m].session][p] = "in"
  BY <1>3 DEF ToCredit, SaidIn
<1>5. p \in People /\ p \in Range(match[m].four)
  BY <1>2, <1>3, FourOf
<1>6. /\ txn'[m].shows = txn[m].shows \cup {p} /\ txn'[m].at = txn[m].at
      /\ \A n \in Matches : n # m => txn'[n] = txn[n]
  <2> HIDE DEF p, i
  <2>1. txn'[m] = [[txn[m] EXCEPT !.shows = txn[m].shows \cup {p}] EXCEPT !.next = i + 1]
    BY <1>1, <1>2
  <2>2. txn[m] \in Txn
    BY <1>2
  <2> QED BY <1>1, <1>2, <2>1, <2>2 DEF Txn
<1> HIDE DEF p, i
<1>7. NobodyIsOverCredited'
  BY <1>1, <1>4, <1>6, CreditStays DEF LedgerInv, CreditInv
<1>8. ASSUME NEW n \in Matches, NEW q \in txn'[n].shows
      PROVE  /\ InFlight(n)' /\ match'[n].session # AdHoc /\ lock'[q] = n
             /\ q \in Range(match'[n].four)
  <2>1. \A r \in People : lock'[r] = IF r = p THEN m ELSE lock[r]
    BY <1>1, <1>2 DEF Rows
  <2>2. CASE n = m /\ q = p
    BY <1>1, <1>2, <1>4, <1>5, <1>6, <2>1, <2>2 DEF InFlight
  <2>3. CASE q \in txn[n].shows
    <3>1. /\ InFlight(n) /\ match[n].session # AdHoc /\ lock[q] = n /\ q \in Range(match[n].four)
          /\ q \in People
      BY <1>2, <2>3 DEF CreditInv, SessionsInv, Txn
    <3>2. n \in Matches /\ Free \notin Matches
      BY OwnerAssumption
    <3>3. lock'[q] = n
      BY <1>1, <2>1, <3>1, <3>2
    <3>4. InFlight(n)'
      BY <1>6, <3>1 DEF InFlight
    <3> QED BY <1>1, <3>1, <3>3, <3>4
  <2> QED BY <1>6, <1>8, <2>2, <2>3
<1>9. SessionsInv'
  BY <1>1, <1>8 DEF CreditInv, SessionsInv, Live
<1> QED BY <1>7, <1>9 DEF CreditInv

\* The commit pays out what it owes: the session has no other match.
LEMMA CommitCredit ==
  ASSUME LedgerInv, CreditInv, NEW m \in Matches, CommitSeal(m)
  PROVE  CreditInv'
<1>1. /\ txn[m].at = "credit" /\ txn' = [txn EXCEPT ![m] = NoTxn] /\ lock' = Released(m)
      /\ match' = [match EXCEPT ![m].status = "verified"]
      /\ showUp' = [p \in People |-> IF p \in txn[m].shows THEN showUp[p] + 1 ELSE showUp[p]]
      /\ UNCHANGED <<answer, rsvpIn>>
  BY DEF CommitSeal
<1>2. /\ txn \in [Matches -> Txn] /\ TypeOK /\ SealShape /\ match \in [Matches -> MatchRow]
      /\ showUp \in [People -> Nat] /\ rsvpIn \in [People -> Nat]
      /\ lock \in [Rows -> Matches \cup Guests \cup {Free}] /\ NobodyIsOverCredited
  BY DEF LedgerInv, TypeOK, SealTypeOK, CreditInv
<1>3. match[m].status = "pending_confirmation" /\ InFlight(m) /\ Live(m)
  BY <1>1 DEF LedgerInv, SealShape, Shape, InFlight, Live
<1>4. /\ match'[m].status = "verified" /\ match'[m].four = match[m].four
      /\ match'[m].session = match[m].session /\ txn'[m].shows = {}
      /\ \A n \in Matches : n # m => match'[n] = match[n] /\ txn'[n] = txn[n]
  BY <1>1, <1>2 DEF MatchRow, NoTxn
<1>5. SessionsInv'
  <2>1. \A j \in Matches : /\ Live(j)' => Live(j)
                           /\ match'[j].session = match[j].session /\ match'[j].four = match[j].four
    BY <1>3, <1>4 DEF Live
  <2>2. ASSUME NEW n \in Matches, NEW p \in txn'[n].shows
        PROVE  p \in txn[n].shows /\ InFlight(n)' /\ lock'[p] = lock[p]
    <3>1. n # m /\ p \in txn[n].shows /\ InFlight(n)' /\ lock[p] = n /\ p \in People
      BY <1>2, <1>4, <2>2 DEF CreditInv, SessionsInv, InFlight, Txn
    <3> QED BY <1>1, <3>1 DEF Released, Rows
  <2> QED BY <2>1, <2>2, SessionsStay DEF CreditInv
<1>6. ASSUME NEW p \in People
      PROVE  Owed(p)' \subseteq Owed(p) /\ (p \in txn[m].shows => match[m].session \notin Owed(p)')
  <2>1. ASSUME NEW s \in Sessions, s \in Owed(p)'
        PROVE  s \in Owed(p)
    <3>1. \A n \in Matches : match[n].session = s => match[n].status # "verified"
      BY <1>3, <1>4, <2>1 DEF Owed
    <3>2. answer[s][p] = "in" \/ \E n \in Matches : match[n].session = s /\ p \in txn[n].shows
      BY <1>1, <1>4, <2>1 DEF Owed
    <3> QED BY <3>1, <3>2 DEF Owed
  <2>2. match[m].session \notin Owed(p)'
    BY <1>4 DEF Owed
  <2>3. Owed(p)' \subseteq Sessions
    BY DEF Owed
  <2> QED BY <2>1, <2>2, <2>3
<1>7. ASSUME NEW p \in txn[m].shows
      PROVE  p \in People /\ match[m].session \in Owed(p)
  <2>1. p \in People /\ match[m].session # AdHoc
    BY <1>2 DEF CreditInv, SessionsInv, Txn
  <2>2. match[m].session \in Sessions
    BY <1>2, <2>1 DEF MatchRow
  <2>3. \A n \in Matches : match[n].session = match[m].session => match[n].status # "verified"
    BY <1>3, <2>1 DEF CreditInv, SessionsInv, Live
  <2> QED BY <2>1, <2>2, <2>3 DEF Owed
<1>8. ASSUME NEW p \in People
      PROVE  showUp'[p] + Cardinality(Owed(p)') =< rsvpIn'[p]
  <2>1. CASE p \notin txn[m].shows
    <3>1. showUp'[p] = showUp[p] /\ rsvpIn'[p] = rsvpIn[p]
      BY <1>1, <2>1
    <3> QED BY <1>2, <1>6, <3>1, OwedShrinks
  <2>2. CASE p \in txn[m].shows
    <3> DEFINE s == match[m].session
    <3>1. s \in Owed(p) /\ Owed(p)' \subseteq Owed(p) \ {s}
      BY <1>6, <1>7, <2>2
    <3>2. IsFiniteSet(Owed(p)) /\ Cardinality(Owed(p)) \in Nat /\ Cardinality(Owed(p)') \in Nat
          /\ IsFiniteSet(Owed(p) \ {s})
      <4>1. Owed(p) \subseteq Sessions /\ Owed(p)' \subseteq Sessions /\ Owed(p) \ {s} \subseteq Sessions
        BY DEF Owed
      <4> QED BY <4>1, OwedIsFinite
    <3>3. Cardinality(Owed(p) \ {s}) = Cardinality(Owed(p)) - 1
      BY <3>1, <3>2, FS_RemoveElement
    <3>4. Cardinality(Owed(p)') =< Cardinality(Owed(p) \ {s})
      BY <3>1, <3>2, FS_Subset
    <3>5. showUp'[p] = showUp[p] + 1 /\ rsvpIn'[p] = rsvpIn[p]
      BY <1>1, <2>2
    <3>6. showUp[p] \in Nat /\ rsvpIn[p] \in Nat /\ showUp[p] + Cardinality(Owed(p)) =< rsvpIn[p]
      BY <1>2 DEF NobodyIsOverCredited
    <3> HIDE DEF s
    <3> QED BY <3>2, <3>3, <3>4, <3>5, <3>6
  <2> QED BY <2>1, <2>2
<1> QED BY <1>5, <1>8 DEF CreditInv, NobodyIsOverCredited


\* The account is owed what it was and what its guest was.
LEMMA ReattributeCredit ==
  ASSUME LedgerInv, CreditInv, NEW g \in Guests, ReattributeGuestData(g)
  PROVE  CreditInv'
<1> DEFINE a == MergeInto[g]
<1>1. a \in People /\ g \in People /\ a # g /\ g \notin Matches
  BY MergeRows, OwnerAssumption
<1>2. /\ match' = Repointed(g, a) /\ txn' = txn /\ lock' = Released(g) /\ merge[g] = "both"
      /\ answer' = Reanswered(g, a)
      /\ rsvpIn' = [rsvpIn EXCEPT ![a] = @ + rsvpIn[g]]
      /\ showUp' = [showUp EXCEPT ![a] = @ + showUp[g]]
  BY DEF ReattributeGuestData
<1>3. /\ TypeOK /\ NobodyIsOverCredited /\ answer \in [Sessions -> [People -> {"none", "in", "out"}]]
      /\ rsvpIn \in [People -> Nat] /\ showUp \in [People -> Nat] /\ txn \in [Matches -> Txn]
  BY DEF LedgerInv, CreditInv, TypeOK, SealTypeOK
<1>4. lock[g] = g
  <2>1. lock[FirstRow(g)] = g /\ lock[SecondRow(g)] = g
    BY <1>2 DEF LedgerInv, LocksHeld
  <2> QED BY <2>1 DEF FirstRow, SecondRow
<1>5. ASSUME NEW m \in Matches
      PROVE  /\ match'[m].status = match[m].status /\ match'[m].session = match[m].session
             /\ DOMAIN match'[m].four = DOMAIN match[m].four
             /\ \A i \in DOMAIN match[m].four :
                  match'[m].four[i] = IF match[m].four[i] = g THEN a ELSE match[m].four[i]
  BY <1>1, <1>2, <1>3, RepointedRow
<1>6. SessionsInv'
  <2>1. \A m \in Matches : Live(m)' => Live(m) /\ match'[m].session = match[m].session
    BY <1>5 DEF Live
  <2>2. ASSUME NEW m \in Matches, NEW p \in txn'[m].shows
        PROVE  /\ p \in txn[m].shows /\ InFlight(m)' /\ lock'[p] = lock[p]
               /\ match'[m].session = match[m].session
               /\ p \in Range(match[m].four) => p \in Range(match'[m].four)
    <3>1. p \in txn[m].shows /\ InFlight(m)' /\ lock[p] = m /\ p \in People
      BY <1>2, <1>3, <2>2 DEF CreditInv, SessionsInv, InFlight, Txn
    <3>2. lock'[p] = lock[p] /\ p # g
      BY <1>1, <1>2, <1>4, <3>1 DEF Released, Rows
    <3>3. p \in Range(match[m].four) => p \in Range(match'[m].four)
      BY <1>5, <3>2 DEF Range
    <3> QED BY <1>5, <3>1, <3>2, <3>3
  <2> QED BY <2>1, <2>2, SessionsStay DEF CreditInv
<1>7. ASSUME NEW s \in Sessions
      PROVE  /\ \A q \in People \ {a} : answer'[s][q] = "in" => answer[s][q] = "in"
             /\ answer'[s][a] = "in" => answer[s][a] = "in" \/ answer[s][g] = "in"
  BY <1>1, <1>2, <1>3 DEF Reanswered
<1>8. ASSUME NEW q \in People \ {a}
      PROVE  showUp'[q] + Cardinality(Owed(q)') =< rsvpIn'[q]
  <2>1. Owed(q)' \subseteq Owed(q)
    BY <1>2, <1>5, <1>7 DEF Owed
  <2>2. showUp'[q] = showUp[q] /\ rsvpIn'[q] = rsvpIn[q]
    BY <1>1, <1>2, <1>3
  <2> QED BY <1>3, <2>1, <2>2, OwedShrinks
<1>9. showUp'[a] + Cardinality(Owed(a)') =< rsvpIn'[a]
  <2>1. Owed(a)' \subseteq Owed(a) \cup Owed(g)
    BY <1>2, <1>5, <1>7 DEF Owed
  <2>2. Owed(a) \subseteq Sessions /\ Owed(g) \subseteq Sessions /\ Owed(a)' \subseteq Sessions
    BY DEF Owed
  <2> DEFINE both == Owed(a) \cup Owed(g)
             common == Owed(a) \cap Owed(g)
  <2>3. /\ IsFiniteSet(Owed(a)) /\ IsFiniteSet(Owed(g)) /\ IsFiniteSet(both)
        /\ Cardinality(Owed(a)) \in Nat /\ Cardinality(Owed(g)) \in Nat
        /\ Cardinality(Owed(a)') \in Nat /\ Cardinality(both) \in Nat /\ Cardinality(common) \in Nat
    <3>1. both \subseteq Sessions /\ common \subseteq Sessions
      BY <2>2
    <3> QED BY <2>2, <3>1, OwedIsFinite
  <2>4. Cardinality(both) = Cardinality(Owed(a)) + Cardinality(Owed(g)) - Cardinality(common)
    BY <2>3, FS_Union
  <2>5. Cardinality(Owed(a)') =< Cardinality(both)
    BY <2>1, <2>3, FS_Subset
  <2>6. /\ showUp'[a] = showUp[a] + showUp[g] /\ rsvpIn'[a] = rsvpIn[a] + rsvpIn[g]
        /\ showUp[a] \in Nat /\ showUp[g] \in Nat /\ rsvpIn[a] \in Nat /\ rsvpIn[g] \in Nat
    BY <1>1, <1>2, <1>3
  <2>7. /\ showUp[a] + Cardinality(Owed(a)) =< rsvpIn[a]
        /\ showUp[g] + Cardinality(Owed(g)) =< rsvpIn[g]
    BY <1>1, <1>3 DEF NobodyIsOverCredited
  <2> HIDE DEF both, common
  <2> QED BY <2>3, <2>4, <2>5, <2>6, <2>7
<1>10. NobodyIsOverCredited'
  BY <1>8, <1>9 DEF NobodyIsOverCredited
<1> QED BY <1>6, <1>10 DEF CreditInv

\* Nobody is owed anything at first.
LEMMA InitCredit ==
  ASSUME Init
  PROVE  CreditInv
<1>1. /\ match = [m \in Matches |-> NotRecorded] /\ txn = [m \in Matches |-> NoTxn]
      /\ answer = [s \in Sessions |-> [p \in People |-> "none"]]
      /\ rsvpIn = [p \in People |-> 0] /\ showUp = [p \in People |-> 0]
  BY DEF Init, SealInit
<1>2. SessionsInv
  BY <1>1 DEF SessionsInv, Live, NotRecorded, NoTxn
<1>3. ASSUME NEW p \in People
      PROVE  showUp[p] + Cardinality(Owed(p)) =< rsvpIn[p]
  <2>1. Owed(p) = {}
    BY <1>1 DEF Owed, NoTxn
  <2>2. Cardinality(Owed(p)) = 0
    BY <2>1, FS_EmptySet
  <2> QED BY <1>1, <2>2
<1> QED BY <1>2, <1>3 DEF CreditInv, NobodyIsOverCredited

\* The other steps of a seal: a transaction moves on, or takes its players with it.
LEMMA SealCredit ==
  ASSUME LedgerInv, CreditInv, NEW m \in Matches, SealStep(m) \/ ConfirmMatch(m) \/ Rollback(m)
  PROVE  CreditInv'
<1>1. /\ txn \in [Matches -> Txn] /\ TypeOK /\ SealShape
      /\ lock \in [Rows -> Matches \cup Guests \cup {Free}]
  BY DEF LedgerInv, TypeOK, SealTypeOK
<1>2. CASE CommitSeal(m)
  BY <1>2, CommitCredit
<1>3. CASE CreditShowUp(m)
  BY <1>3, ShowUpCredit
<1>4. ASSUME Rollback(m)
      PROVE  CreditInv'
  <2>1. /\ txn' = [txn EXCEPT ![m] = NoTxn] /\ lock' = Released(m)
        /\ UNCHANGED <<match, answer, rsvpIn, showUp>>
    BY <1>4 DEF Rollback, bookVars
  <2>2. \A n \in Matches : txn'[n] = IF n = m THEN NoTxn ELSE txn[n]
    BY <1>1, <2>1
  <2>3. txn'[m].shows = {}
    BY <2>2 DEF NoTxn
  <2>4. \A n \in Matches : /\ txn'[n].shows \subseteq txn[n].shows
                           /\ txn'[n].shows # {} => InFlight(n)'
    BY <2>2, <2>3 DEF CreditInv, SessionsInv, InFlight
  <2>5. \A p \in People : lock[p] \in Matches /\ lock'[p] # lock[p] => lock[p] = m
    BY <2>1 DEF Released, Rows
  <2> QED BY <2>1, <2>3, <2>4, <2>5, StepCredit DEF Live
<1>5. ASSUME UNCHANGED <<match, answer, rsvpIn, showUp>>,
             \A n \in Matches : txn'[n].shows = txn[n].shows /\ (InFlight(n) => InFlight(n)'),
             \A p \in People : lock[p] \in Matches => lock'[p] = lock[p]
      PROVE  CreditInv'
  <2>1. \A n \in Matches : txn'[n].shows # {} => InFlight(n)'
    BY <1>5 DEF CreditInv, SessionsInv
  <2> QED BY <1>5, <2>1, StepCredit DEF Live
<1>6. CASE ConfirmMatch(m)
  <2>1. /\ lock' = [lock EXCEPT ![m] = m] /\ UNCHANGED <<match, answer, rsvpIn, showUp>>
        /\ txn' = [txn EXCEPT ![m].at = IF match[m].kind = "friendly" THEN "credit" ELSE "load"]
    BY <1>6 DEF ConfirmMatch, bookVars, ledgerVars
  <2>2. \A n \in Matches : txn'[n].shows = txn[n].shows /\ (InFlight(n) => InFlight(n)')
    BY <1>1, <2>1 DEF InFlight, Txn
  <2>3. \A p \in People : lock'[p] = lock[p]
    BY <1>1, <2>1, OwnerAssumption DEF Rows
  <2> QED BY <1>5, <2>1, <2>2, <2>3
<1>7. CASE LoadPlayerStates(m)
  <2> DEFINE seen == [p \in People |-> IF p \in Range(match[m].four) THEN Loaded(p) ELSE Fresh]
             at == IF match[m].kind = "skipped" THEN "credit" ELSE "insert"
  <2>1. /\ UNCHANGED <<match, answer, rsvpIn, showUp, lock>>
        /\ txn' = [txn EXCEPT ![m].seen = seen, ![m].at = at]
    BY <1>7 DEF LoadPlayerStates, bookVars, ledgerVars
  <2>2. at # "idle"
    OBVIOUS
  <2> HIDE DEF seen, at
  <2>3. \A n \in Matches : txn'[n].shows = txn[n].shows /\ (InFlight(n) => InFlight(n)')
    BY <1>1, <2>1, <2>2 DEF InFlight, Txn
  <2> QED BY <1>5, <2>1, <2>3
<1>8. CASE InsertRatingEvent(m)
  <2>1. /\ UNCHANGED <<match, answer, rsvpIn, showUp, lock>>
        /\ txn' = [txn EXCEPT ![m].at = "update"]
    BY <1>8 DEF InsertRatingEvent, bookVars
  <2>2. \A n \in Matches : txn'[n].shows = txn[n].shows /\ (InFlight(n) => InFlight(n)')
    BY <1>1, <2>1 DEF InFlight, Txn
  <2> QED BY <1>5, <2>1, <2>2
<1>9. CASE UpdateRating(m)
  <2>1. /\ UNCHANGED <<match, answer, rsvpIn, showUp>>
        /\ lock[Player(m)] \in {Free, m} /\ lock' = [lock EXCEPT ![Player(m)] = m]
        /\ txn' = IF txn[m].next < 4
                   THEN [txn EXCEPT ![m].at = "insert", ![m].next = @ + 1]
                   ELSE [txn EXCEPT ![m].at = "credit", ![m].next = 1]
    BY <1>9 DEF UpdateRating, CanWrite, bookVars, ledgerVars
  <2>2. \A n \in Matches : txn'[n].shows = txn[n].shows /\ (InFlight(n) => InFlight(n)')
    BY <1>1, <2>1 DEF InFlight, Txn
  <2>3. \A p \in People : lock[p] \in Matches => lock'[p] = lock[p]
    BY <1>1, <2>1, OwnerAssumption DEF Rows
  <2> QED BY <1>5, <2>1, <2>2, <2>3
<1> QED BY <1>2, <1>3, <1>4, <1>6, <1>7, <1>8, <1>9 DEF SealStep, LoadThrows

\* A merge that takes rows takes free ones.
LEMMA MergeCredit ==
  ASSUME LedgerInv, CreditInv, NEW g \in Guests, MergeStep(g) \/ MergeRollback(g)
  PROVE  CreditInv'
<1>1. lock \in [Rows -> Matches \cup Guests \cup {Free}] /\ g \notin Matches /\ Free \notin Matches
  BY OwnerAssumption, MergeRows DEF LedgerInv, TypeOK, SealTypeOK
<1>2. ASSUME UNCHANGED <<match, answer, rsvpIn, showUp, txn>>,
             \A p \in People : lock[p] \in Matches => lock'[p] = lock[p]
      PROVE  CreditInv'
  <2>1. \A n \in Matches : txn'[n].shows # {} => InFlight(n)'
    BY <1>2 DEF CreditInv, SessionsInv, InFlight
  <2> QED BY <1>2, <2>1, StepCredit DEF Live
<1>3. CASE ReattributeGuestData(g)
  BY <1>3, ReattributeCredit
<1>4. ASSUME NEW r \in Rows, lock[r] = Free, lock' = [lock EXCEPT ![r] = g]
      PROVE  \A p \in People : lock[p] \in Matches => lock'[p] = lock[p]
  BY <1>1, <1>4 DEF Rows
<1>5. CASE LockFirst(g)
  <2>1. FirstRow(g) \in Rows
    BY MergeRows DEF Rows
  <2> QED BY <1>2, <1>4, <1>5, <2>1 DEF LockFirst, CanLock
<1>6. CASE LockSecond(g)
  <2>1. SecondRow(g) \in Rows
    BY MergeRows DEF Rows
  <2> QED BY <1>2, <1>4, <1>6, <2>1 DEF LockSecond, CanLock
<1>7. CASE LockMatchRow(g)
  <2>1. PICK m \in Matches : lock[m] = Free /\ lock' = [lock EXCEPT ![m] = g]
    BY <1>7 DEF LockMatchRow, NextToRepoint, ToRepoint
  <2> QED BY <1>2, <1>4, <1>7, <2>1 DEF LockMatchRow, Rows
<1>8. CASE MergeRollback(g)
  <2>1. \A p \in People : lock[p] \in Matches => lock'[p] = lock[p]
    BY <1>1, <1>8 DEF MergeRollback, Released, Rows
  <2> QED BY <1>2, <1>8, <2>1 DEF MergeRollback
<1> QED BY <1>3, <1>5, <1>6, <1>7, <1>8 DEF MergeStep

\* Every step credits at most what is owed.
LEMMA NextCredit ==
  ASSUME LedgerInv, CreditInv, [Next]_vars
  PROVE  CreditInv'
<1>1. CASE Answering
  BY <1>1, AnswerCredit DEF Answering
<1>2. CASE Recording
  <2>1. PICK r \in Reports : RecordAdHocMatch(r) \/ \E s \in Sessions : RecordMatch(r, s)
    BY <1>2 DEF Recording
  <2>2. CASE RecordAdHocMatch(r)
    BY <2>2, RecordCredit, OwnerAssumption DEF RecordAdHocMatch
  <2>3. CASE \E s \in Sessions : RecordMatch(r, s)
    BY <2>3, RecordCredit DEF RecordMatch
  <2> QED BY <2>1, <2>2, <2>3
<1>3. ASSUME NEW m \in Matches, DisputeMatch(m)
      PROVE  CreditInv'
  <2>1. /\ match' = [match EXCEPT ![m].status = "disputed"] /\ match[m].status = "pending_confirmation"
        /\ UNCHANGED <<answer, rsvpIn, showUp, txn, lock>> /\ match \in [Matches -> MatchRow]
    BY <1>3 DEF DisputeMatch, LedgerInv, TypeOK, SealTypeOK
  <2>2. ASSUME NEW n \in Matches
        PROVE  /\ Live(n)' <=> Live(n)
               /\ match'[n].session = match[n].session /\ match'[n].four = match[n].four
               /\ match[n].status = "verified" => match'[n].status = "verified"
    BY <2>1 DEF Live, MatchRow
  <2>3. \A n \in Matches : txn'[n].shows # {} => InFlight(n)'
    BY <2>1 DEF CreditInv, SessionsInv, InFlight
  <2> QED BY <2>1, <2>2, <2>3, StepCredit
<1>4. ASSUME NEW m \in Matches, Confirm(m) \/ Seal(m) \/ Rollback(m)
      PROVE  CreditInv'
  BY <1>4, SealCredit DEF Confirm, Seal
<1>5. ASSUME NEW g \in Guests, MergeStep(g) \/ MergeRollback(g)
      PROVE  CreditInv'
  BY <1>5, MergeCredit
<1>6. CASE UNCHANGED vars
  <2>1. UNCHANGED <<match, answer, rsvpIn, showUp, txn, lock>>
    BY <1>6 DEF vars, sealVars
  <2>2. \A n \in Matches : txn'[n].shows # {} => InFlight(n)'
    BY <2>1 DEF CreditInv, SessionsInv, InFlight
  <2> QED BY <2>1, <2>2, StepCredit DEF Live
<1>7. ASSUME NEW t \in Transactions, AbortDeadlocked(t)
      PROVE  CreditInv'
  BY <1>4, <1>5, <1>7 DEF AbortDeadlocked, Transactions
<1> QED BY <1>1, <1>2, <1>3, <1>4, <1>5, <1>6, <1>7 DEF Next, Crash

LEMMA CreditHolds == Spec => []CreditInv
<1> QED BY InitCredit, NextCredit, LedgerHolds, PTL DEF Spec

\* Reliability is honest: over every order of answers, records, seals, crashes and
\* merges nobody is credited with more games than they said "in" to.
THEOREM ReliabilityIsHonest == Spec => []ReliabilityHonest
<1>1. ASSUME TypeOK, CreditInv
      PROVE  ReliabilityHonest
  <2> SUFFICES ASSUME NEW p \in People
               PROVE  showUp[p] =< rsvpIn[p]
    BY DEF ReliabilityHonest
  <2>1. Owed(p) \subseteq Sessions
    BY DEF Owed
  <2>2. Cardinality(Owed(p)) \in Nat
    BY <2>1, OwedIsFinite
  <2>3. showUp[p] \in Nat /\ rsvpIn[p] \in Nat /\ showUp[p] + Cardinality(Owed(p)) =< rsvpIn[p]
    BY <1>1 DEF CreditInv, NobodyIsOverCredited, TypeOK, SealTypeOK
  <2> QED BY <2>2, <2>3
<1> QED BY <1>1, TypeCorrect, CreditHolds, PTL


-------------------------------------------------------------------------------
(* Ratings. *)

\* A seal that rates its four and has read them.
Carrying(m) ==
  txn[m].at \in {"insert", "update"} \/ (txn[m].at = "credit" /\ match[m].kind = "rated")

\* A player whose mirror on users is the whole truth.
Unraced(p) == p \notin raced /\ (p \in Guests => ident[p] = "guest")

\* Two open transactions that have a player in hand have been noticed.
RacesNoted == \A t, u \in Transactions : t # u => InHand(t) \cap InHand(u) \subseteq raced

\* What a seal read of an unraced player is still what users says.
SeenIsCurrent ==
  \A m \in Matches : Carrying(m) =>
    \A p \in Range(match[m].four) : Unraced(p) => txn[m].seen[p] = glass[p]

\* An uncommitted row says what its seal read, and was created after every committed
\* row of an unraced player.
OpenRows ==
  \A p \in People : \A e \in ledger[p] : ~Committed(e) =>
    /\ e.before = txn[e.match].seen[p].rating
    /\ Unraced(p) => \A f \in LiveEvents(p) : f.match \in e.earlier

\* A state of a player that adds up to a set of rows.
AddsUp(events, state) ==
  /\ state.rating = {e.match : e \in events} /\ state.count = Cardinality(state.rating)
  /\ \A l : IsLatest(l, events) => After(l) = state.rating

MirrorsAddUp == \A p \in People : Unraced(p) => AddsUp(LiveEvents(p), glass[p])

RatingInv == RacesNoted /\ SeenIsCurrent /\ OpenRows /\ MirrorsAddUp

\* A seal that carries players has all four of its match in hand.
LEMMA CarriesFour ==
  ASSUME TypeOK, SealShape, NEW m \in Matches, Carrying(m)
  PROVE  /\ match[m].kind = "rated" /\ InFlight(m) /\ match[m].status = "pending_confirmation"
         /\ InHand(m) = Range(match[m].four) /\ Range(match[m].four) \subseteq People
<1>1. Shape(m) /\ InFlight(m) /\ match[m].kind = "rated"
  BY DEF SealShape, Shape, Carrying, InFlight
<1>2. match[m].status = "pending_confirmation" /\ Range(match[m].four) \subseteq People
  BY <1>1, FourOf
<1>3. InHand(m) = Range(match[m].four)
  BY <1>1 DEF InHand, InFlight
<1> QED BY <1>1, <1>2, <1>3

\* An uncommitted row belongs to a seal that carries its player.
LEMMA OpenRowIsCarried ==
  ASSUME TypeOK, SealShape, RowsWritten, NEW p \in People, NEW e \in ledger[p], ~Committed(e)
  PROVE  e.match \in Matches /\ Carrying(e.match) /\ p \in Range(match[e.match].four)
<1>1. e.match \in Matches
  BY DEF TypeOK, SealTypeOK, Event
<1>2. PICK i \in WrittenPlaces(e.match) : match[e.match].four[i] = p
  BY <1>1 DEF RowsWritten
<1>3. i \in 1..4 /\ match[e.match].four \in [1..4 -> People]
  BY <1>1, PlacesAreFour
<1>4. p \in Range(match[e.match].four)
  BY <1>2, <1>3 DEF Range
<1>5. Carrying(e.match)
  <2>1. match[e.match].status # "verified"
    BY DEF Committed
  <2>2. CASE txn[e.match].at \in {"insert", "update"}
    BY <2>2 DEF Carrying
  <2>3. CASE txn[e.match].at = "credit"
    BY <1>2, <2>3 DEF Carrying, WrittenPlaces
  <2>4. CASE txn[e.match].at \notin {"insert", "update", "credit"}
    BY <1>2, <2>1, <2>4 DEF WrittenPlaces
  <2> QED BY <2>2, <2>3, <2>4
<1> QED BY <1>1, <1>4, <1>5

\* A player carried by two transactions is raced.
LEMMA CarriedOnce ==
  ASSUME TypeOK, SealShape, RacesNoted, NEW m \in Matches, Carrying(m),
         NEW t \in Transactions, t # m, NEW p \in Range(match[m].four), p \in InHand(t)
  PROVE  ~Unraced(p)
<1>1. p \in InHand(m)
  BY CarriesFour
<1> QED BY <1>1 DEF RacesNoted, Unraced, Transactions

\* Whoever lets players go makes no race, and whoever takes them notices one.
LEMMA RacesStay ==
  ASSUME RacesNoted, \A t \in Transactions : InHand(t)' \subseteq InHand(t), raced \subseteq raced'
  PROVE  RacesNoted'
BY DEF RacesNoted

LEMMA RacesAreNoted ==
  ASSUME TypeOK', NoteRaces
  PROVE  RacesNoted'
<1>1. ASSUME NEW m \in Matches
      PROVE  Range(match'[m].four) \subseteq People
  <2>1. match'[m].four \in Seq(People)
    BY DEF TypeOK, SealTypeOK, MatchRow
  <2> QED BY <2>1 DEF Range
<1>2. ASSUME NEW t \in Transactions
      PROVE  InHand(t)' \subseteq People
  <2>1. CASE t \in Matches
    BY <1>1, <2>1 DEF InHand
  <2>2. CASE t \notin Matches
    BY <2>2, MergeRows DEF InHand, Transactions
  <2> QED BY <2>1, <2>2
<1> QED BY <1>2 DEF RacesNoted, NoteRaces

\* Rows that say the same of the matches, the ratings before them and their order.
LEMMA ImageAddsUp ==
  ASSUME NEW S, NEW T, NEW r, AddsUp(S, r),
         \A x \in T : \E e \in S : x.match = e.match /\ x.before = e.before,
         \A f \in S : \E y \in T :
           y.match = f.match /\ \A e \in S : e.match \in f.earlier => e.match \in y.earlier
  PROVE  AddsUp(T, r)
<1>1. {e.match : e \in T} = {e.match : e \in S}
  <2>1. \A x \in T : x.match \in {e.match : e \in S}
    OBVIOUS
  <2>2. \A f \in S : f.match \in {e.match : e \in T}
    OBVIOUS
  <2> QED BY <2>1, <2>2
<1>2. ASSUME NEW l, IsLatest(l, T)
      PROVE  After(l) = r.rating
  <2>1. l \in T /\ \A y \in T : l.match \notin y.earlier
    BY <1>2 DEF IsLatest
  <2>2. PICK e \in S : l.match = e.match /\ l.before = e.before
    BY <2>1
  <2>3. \A f \in S : e.match \notin f.earlier
    BY <2>1, <2>2
  <2>4. After(e) = r.rating
    BY <2>3 DEF AddsUp, IsLatest
  <2> QED BY <2>2, <2>4 DEF After
<1> QED BY <1>1, <1>2 DEF AddsUp

\* What a seal reads of an unraced player is what users says.
LEMMA LoadsWhatItSees ==
  ASSUME TypeOK, TrailsHaveALast, MirrorsAddUp, NEW p \in People, Unraced(p), Loadable(p)
  PROVE  Loaded(p) = glass[p]
<1>1. glass[p] \in PlayerState /\ AddsUp(LiveEvents(p), glass[p])
  BY DEF TypeOK, SealTypeOK, MirrorsAddUp
<1>2. glass[p].rating \subseteq Matches /\ IsFiniteSet(glass[p].rating)
  BY <1>1, OwnerAssumption, FS_Subset DEF PlayerState
<1>3. CASE glass[p].count = 0
  <2>1. glass[p].rating = {}
    BY <1>1, <1>2, <1>3, FS_EmptySet DEF AddsUp
  <2> QED BY <1>1, <1>3, <2>1 DEF Loaded, Fresh, PlayerState
<1>4. CASE glass[p].count # 0
  <2>1. LiveEvents(p) # {} /\ \E e : IsLatest(e, LiveEvents(p))
    BY <1>4 DEF Loadable, TrailsHaveALast
  <2>2. IsLatest(Latest(LiveEvents(p)), LiveEvents(p))
    BY <2>1, LatestIsLast
  <2>3. After(Latest(LiveEvents(p))) = glass[p].rating
    BY <1>1, <2>2 DEF AddsUp
  <2>4. Loaded(p) = [count |-> glass[p].count, rating |-> glass[p].rating]
    BY <1>4, <2>1, <2>3 DEF Loaded, Trajectory
  <2> QED BY <1>1, <2>4 DEF PlayerState
<1> QED BY <1>3, <1>4


\* Where neither Ledger nor users is written, whoever adds up still does.
LEMMA MirrorsStay ==
  ASSUME LedgerInv, RatingInv, UNCHANGED <<ledger, glass, ident>>, raced \subseteq raced',
         \A m \in Matches :
           /\ match'[m].status = "verified" <=> match[m].status = "verified"
           /\ Carrying(m) => txn'[m].seen = txn[m].seen
  PROVE  OpenRows' /\ MirrorsAddUp' /\ \A p \in People : Unraced(p)' => Unraced(p)
<1>1. \A p \in People : Unraced(p)' => Unraced(p)
  BY DEF Unraced
<1>2. \A p \in People : Trail(p)' = Trail(p)
  BY TrailsStay DEF LedgerInv
<1>3. \A p \in People : LiveEvents(p)' = LiveEvents(p)
  <2>1. ASSUME NEW p \in People
        PROVE  LiveEvents(p)' = LiveEvents(p)
    BY <1>2 DEF LiveEvents
  <2> QED BY <2>1
<1>4. \A p \in People : \A e \in ledger[p] : Committed(e)' <=> Committed(e)
  BY DEF Committed, LedgerInv, TypeOK, SealTypeOK, Event
<1>5. \A p \in People : \A e \in ledger[p] : ~Committed(e) => txn'[e.match].seen = txn[e.match].seen
  BY OpenRowIsCarried DEF LedgerInv
<1>6. OpenRows'
  BY <1>1, <1>3, <1>4, <1>5 DEF RatingInv, OpenRows
<1>7. MirrorsAddUp'
  BY <1>1, <1>3 DEF RatingInv, MirrorsAddUp
<1> QED BY <1>1, <1>6, <1>7

LEMMA RatingStays ==
  ASSUME LedgerInv, RatingInv, UNCHANGED <<ledger, glass, ident>>, raced \subseteq raced', RacesNoted',
         \A m \in Matches :
           /\ match'[m].status = "verified" <=> match[m].status = "verified"
           /\ Carrying(m)' => Carrying(m)
           /\ Carrying(m) => txn'[m].seen = txn[m].seen /\ match'[m].four = match[m].four
  PROVE  RatingInv'
<1>1. OpenRows' /\ MirrorsAddUp' /\ \A p \in People : Unraced(p)' => Unraced(p)
  BY MirrorsStay
<1>2. SeenIsCurrent'
  <2>1. ASSUME NEW m \in Matches, Carrying(m)', NEW p \in Range(match'[m].four), Unraced(p)'
        PROVE  txn'[m].seen[p] = glass'[p]
    <3>1. Carrying(m) /\ p \in Range(match[m].four)
      BY <2>1
    <3>2. p \in People
      BY <3>1, CarriesFour DEF LedgerInv
    <3> QED BY <1>1, <2>1, <3>1, <3>2 DEF RatingInv, SeenIsCurrent
  <2> QED BY <2>1 DEF SeenIsCurrent
<1> QED BY <1>1, <1>2 DEF RatingInv

\* An answer, a record and a dispute are of matches that nobody is sealing.
LEMMA BookRating ==
  ASSUME LedgerInv, RatingInv, [Next]_vars, UNCHANGED vars \/ Answering \/ Recording
         \/ \E m \in Matches : DisputeMatch(m) /\ UNCHANGED mergeVars
  PROVE  RatingInv'
<1>1. UNCHANGED <<ledger, glass, txn, mergeVars>>
  BY DEF vars, sealVars, Answering, SayIn, SayOut, Recording, RecordMatch, RecordAdHocMatch, InsertMatch,
     DisputeMatch
<1>2. match \in [Matches -> MatchRow] /\ SealShape /\ TypeOK
  BY DEF LedgerInv, TypeOK, SealTypeOK
<1>3. ASSUME NEW n \in Matches
      PROVE  match'[n] = match[n] \/
             (txn[n] = NoTxn /\ match[n].status # "verified" /\ match'[n].status # "verified")
  <2>1. CASE UNCHANGED vars
    BY <2>1 DEF vars, sealVars
  <2>2. CASE Answering
    BY <2>2 DEF Answering, SayIn, SayOut
  <2>3. CASE Recording
    <3>1. PICK r \in Reports, s \in Sessions \cup {AdHoc} : InsertMatch(r, s)
      BY <2>3, OwnerAssumption DEF Recording, RecordMatch, RecordAdHocMatch
    <3>2. /\ match[r.match].status = "absent" /\ r.match \in Matches
          /\ match'[r.match].status = "pending_confirmation"
          /\ \A k \in Matches : k # r.match => match'[k] = match[k]
      BY <1>2, <3>1, ReportShape DEF InsertMatch
    <3>3. txn[r.match] = NoTxn
      BY <1>2, <3>2 DEF SealShape, Shape
    <3> QED BY <3>2, <3>3
  <2>4. ASSUME NEW m \in Matches, DisputeMatch(m)
        PROVE  match'[n] = match[n] \/
               (txn[n] = NoTxn /\ match[n].status # "verified" /\ match'[n].status # "verified")
    <3>1. /\ match[m].status = "pending_confirmation" /\ match'[m].status = "disputed"
          /\ \A k \in Matches : k # m => match'[k] = match[k]
      BY <1>2, <2>4 DEF DisputeMatch, MatchRow
    <3>2. lock[m] # m
      BY <2>4, OwnerAssumption DEF DisputeMatch
    <3>3. txn[m] = NoTxn
      BY <1>2, <3>2 DEF LedgerInv, LocksHeld, SealShape, Shape
    <3> QED BY <3>1, <3>3
  <2> QED BY <2>1, <2>2, <2>3, <2>4
<1>4. \A n \in Matches : /\ match'[n].status = "verified" <=> match[n].status = "verified"
                         /\ Carrying(n)' => Carrying(n)
                         /\ Carrying(n) => txn'[n].seen = txn[n].seen /\ match'[n].four = match[n].four
  BY <1>1, <1>3 DEF Carrying, NoTxn
<1>5. \A t \in Transactions : InHand(t)' \subseteq InHand(t)
  BY <1>1, <1>3 DEF InHand, NoTxn, Transactions, mergeVars
<1>6. RacesNoted'
  BY <1>1, <1>5, RacesStay DEF RatingInv, mergeVars
<1> QED BY <1>1, <1>4, <1>6, RatingStays DEF mergeVars

\* A seal that loads its four reads the truth of whoever is unraced then.
LEMMA LoadRating ==
  ASSUME LedgerInv, RatingInv, LedgerInv', NEW m \in Matches, LoadPlayerStates(m),
         UNCHANGED <<ident, merge>>, NoteRaces
  PROVE  RatingInv'
<1> DEFINE seen == [p \in People |-> IF p \in Range(match[m].four) THEN Loaded(p) ELSE Fresh]
           at == IF match[m].kind = "skipped" THEN "credit" ELSE "insert"
<1>1. /\ txn[m].at = "load" /\ \A p \in Range(match[m].four) : Loadable(p)
      /\ txn' = [txn EXCEPT ![m].seen = seen, ![m].at = at]
      /\ UNCHANGED <<match, ledger, glass>>
  BY DEF LoadPlayerStates, bookVars, ledgerVars
<1>2. txn \in [Matches -> Txn] /\ TypeOK /\ SealShape /\ raced \subseteq raced'
  BY DEF LedgerInv, TypeOK, SealTypeOK, NoteRaces
<1>3. at = "credit" => match[m].kind # "rated"
  OBVIOUS
<1>4. \A p \in People : p \in Range(match[m].four) => seen[p] = Loaded(p)
  OBVIOUS
<1> HIDE DEF seen, at
<1>5. /\ txn'[m].seen = seen /\ txn'[m].at = at /\ ~Carrying(m)
      /\ \A n \in Matches : n # m => txn'[n] = txn[n]
  <2>1. txn'[m] = [[txn[m] EXCEPT !.seen = seen] EXCEPT !.at = at]
    BY <1>1, <1>2
  <2> QED BY <1>1, <1>2, <2>1 DEF Txn, Carrying
<1>6. OpenRows' /\ MirrorsAddUp' /\ \A p \in People : Unraced(p)' => Unraced(p)
  BY <1>1, <1>2, <1>5, MirrorsStay
<1>7. RacesNoted'
  BY RacesAreNoted DEF LedgerInv
<1>8. SeenIsCurrent'
  <2>1. ASSUME NEW n \in Matches, Carrying(n)', NEW p \in Range(match'[n].four), Unraced(p)'
        PROVE  txn'[n].seen[p] = glass'[p]
    <3>1. CASE n # m
      <4>1. Carrying(n) /\ p \in Range(match[n].four)
        BY <1>1, <1>5, <2>1, <3>1 DEF Carrying
      <4>2. p \in People
        BY <1>2, <4>1, CarriesFour
      <4> QED BY <1>1, <1>5, <1>6, <2>1, <3>1, <4>1, <4>2 DEF RatingInv, SeenIsCurrent
    <3>2. CASE n = m
      <4>1. p \in Range(match[m].four) /\ p \in People
        <5>1. InFlight(m)
          BY <1>1 DEF InFlight
        <5> QED BY <1>1, <1>2, <2>1, <3>2, <5>1, FourOf
      <4>2. Loaded(p) = glass[p]
        BY <1>1, <1>2, <1>6, <2>1, <4>1, LoadsWhatItSees DEF LedgerInv, RatingInv
      <4> QED BY <1>1, <1>4, <1>5, <3>2, <4>1, <4>2
    <3> QED BY <3>1, <3>2
  <2> QED BY <2>1 DEF SeenIsCurrent
<1> QED BY <1>6, <1>7, <1>8 DEF RatingInv

\* A new row was created after every committed one.
LEMMA InsertRating ==
  ASSUME LedgerInv, RatingInv, LedgerInv', NEW m \in Matches, InsertRatingEvent(m),
         UNCHANGED <<ident, merge>>, NoteRaces
  PROVE  RatingInv'
<1> DEFINE p == Player(m)
           e == [match |-> m, before |-> txn[m].seen[p].rating, merged |-> FALSE,
                 earlier |-> {f.match : f \in ledger[p]}]
<1>1. /\ txn[m].at = "insert" /\ ledger' = [ledger EXCEPT ![p] = @ \cup {e}]
      /\ txn' = [txn EXCEPT ![m].at = "update"] /\ UNCHANGED <<match, glass>>
  BY DEF InsertRatingEvent, bookVars
<1>2. /\ txn \in [Matches -> Txn] /\ TypeOK /\ SealShape /\ raced \subseteq raced'
      /\ ledger \in [People -> SUBSET Event]
  BY DEF LedgerInv, TypeOK, SealTypeOK, NoteRaces
<1>3. /\ e.match = m /\ e.before = txn[m].seen[p].rating
      /\ \A f \in ledger[p] : f.match \in e.earlier
  OBVIOUS
<1> HIDE DEF e
<1>4. \A q \in People : ledger'[q] = IF q = p THEN ledger[p] \cup {e} ELSE ledger[q]
  BY <1>1, <1>2
<1>5. /\ \A n \in Matches : txn'[n].seen = txn[n].seen /\ (Carrying(n)' <=> Carrying(n))
  BY <1>1, <1>2 DEF Txn, Carrying
<1>6. match[m].status # "verified"
  BY <1>1 DEF LedgerInv, SealShape, Shape, InFlight
<1>7. \A q \in People : \A f \in ledger[q] : f.match \in Matches /\ (Committed(f)' <=> Committed(f))
  BY <1>1, <1>2 DEF Committed, Event
<1>8. ASSUME NEW q \in People
      PROVE  LiveEvents(q)' = LiveEvents(q)
  <2>1. Trail(q)' = Trail(q)
    BY <1>1, <1>3, <1>4, <1>6, <1>7 DEF Trail, Committed
  <2> QED BY <2>1 DEF LiveEvents
<1>9. \A q \in People : Unraced(q)' => Unraced(q)
  BY <1>2 DEF Unraced
<1>10. MirrorsAddUp'
  BY <1>1, <1>8, <1>9 DEF RatingInv, MirrorsAddUp
<1>11. OpenRows'
  <2>1. ASSUME NEW q \in People, NEW x \in ledger'[q], ~Committed(x)'
        PROVE  /\ x.before = txn'[x.match].seen[q].rating
               /\ Unraced(q)' => \A f \in LiveEvents(q)' : f.match \in x.earlier
    <3>1. CASE x \in ledger[q]
      BY <1>5, <1>7, <1>8, <1>9, <2>1, <3>1 DEF RatingInv, OpenRows
    <3>2. CASE x \notin ledger[q]
      <4>1. x = e /\ q = p
        BY <1>4, <2>1, <3>2
      <4>2. LiveEvents(p) \subseteq ledger[p]
        BY DEF LiveEvents, Trail
      <4>3. LiveEvents(q)' = LiveEvents(p)
        BY <1>8, <4>1
      <4> QED BY <1>3, <1>5, <4>1, <4>2, <4>3
    <3> QED BY <3>1, <3>2
  <2> QED BY <2>1 DEF OpenRows
<1>12. SeenIsCurrent'
  <2>1. ASSUME NEW n \in Matches, Carrying(n)', NEW q \in Range(match'[n].four), Unraced(q)'
        PROVE  txn'[n].seen[q] = glass'[q]
    <3>1. Carrying(n) /\ q \in Range(match[n].four)
      BY <1>1, <1>5, <2>1
    <3>2. q \in People
      BY <1>2, <3>1, CarriesFour
    <3> QED BY <1>1, <1>5, <1>9, <2>1, <3>1, <3>2 DEF RatingInv, SeenIsCurrent
  <2> QED BY <2>1 DEF SeenIsCurrent
<1>13. RacesNoted'
  BY RacesAreNoted DEF LedgerInv
<1> QED BY <1>10, <1>11, <1>12, <1>13 DEF RatingInv


\* The steps of a seal that write neither Ledger nor users' ratings.
LEMMA MoveRating ==
  ASSUME LedgerInv, RatingInv, LedgerInv', NEW m \in Matches,
         ConfirmMatch(m) \/ UpdateRating(m) \/ CreditShowUp(m), UNCHANGED <<ident, merge>>, NoteRaces
  PROVE  RatingInv'
<1>1. txn \in [Matches -> Txn] /\ TypeOK /\ SealShape /\ raced \subseteq raced' /\ Shape(m)
  BY DEF LedgerInv, TypeOK, SealTypeOK, NoteRaces, SealShape
<1>2. UNCHANGED <<match, ledger, glass>>
  BY DEF ConfirmMatch, UpdateRating, CreditShowUp, bookVars, ledgerVars
<1>3. CASE ConfirmMatch(m)
  <2>1. /\ match[m].status = "pending_confirmation" /\ lock[m] # m
        /\ txn' = [txn EXCEPT ![m].at = IF match[m].kind = "friendly" THEN "credit" ELSE "load"]
    BY <1>3, OwnerAssumption DEF ConfirmMatch
  <2>2. \A n \in Matches : txn'[n].seen = txn[n].seen /\ (Carrying(n)' => Carrying(n))
    BY <1>1, <1>2, <2>1 DEF Carrying, Txn
  <2> QED BY <1>1, <1>2, <2>2, RatingStays, RacesAreNoted DEF LedgerInv
<1>4. CASE UpdateRating(m)
  <2>1. /\ txn[m].at = "update"
        /\ txn' = IF txn[m].next < 4
                   THEN [txn EXCEPT ![m].at = "insert", ![m].next = @ + 1]
                   ELSE [txn EXCEPT ![m].at = "credit", ![m].next = 1]
    BY <1>4 DEF UpdateRating
  <2>2. \A n \in Matches : txn'[n].seen = txn[n].seen /\ (Carrying(n)' => Carrying(n))
    BY <1>1, <1>2, <2>1 DEF Carrying, Txn
  <2> QED BY <1>1, <1>2, <2>2, RatingStays, RacesAreNoted DEF LedgerInv
<1>5. CASE CreditShowUp(m)
  <2> DEFINE i == Min(ToCredit(m))
  <2>1. /\ txn[m].at = "credit"
        /\ txn' = [txn EXCEPT ![m].shows = @ \cup {match[m].four[i]}, ![m].next = i + 1]
    BY <1>5 DEF CreditShowUp
  <2> HIDE DEF i
  <2>2. \A n \in Matches : txn'[n].seen = txn[n].seen /\ txn'[n].at = txn[n].at
    BY <1>1, <2>1 DEF Txn
  <2>3. \A n \in Matches : Carrying(n)' => Carrying(n)
    BY <1>2, <2>2 DEF Carrying
  <2> QED BY <1>1, <1>2, <2>2, <2>3, RatingStays, RacesAreNoted DEF LedgerInv
<1> QED BY <1>3, <1>4, <1>5

\* A seal that commits adds its match to the rating, and its row to the trail, of every
\* unraced player it carries: nobody else carries them.
LEMMA CommitRating ==
  ASSUME LedgerInv, RatingInv, LedgerInv', NEW m \in Matches, CommitSeal(m),
         UNCHANGED <<ident, merge>>, NoteRaces
  PROVE  RatingInv'
<1> DEFINE rated == IF match[m].kind = "rated" THEN Range(match[m].four) ELSE {}
<1>1. /\ txn[m].at = "credit" /\ txn' = [txn EXCEPT ![m] = NoTxn]
      /\ match' = [match EXCEPT ![m].status = "verified"]
      /\ glass' = [p \in People |->
           IF p \in rated
           THEN [count |-> txn[m].seen[p].count + 1, rating |-> txn[m].seen[p].rating \cup {m}]
           ELSE glass[p]]
      /\ UNCHANGED ledger
  BY DEF CommitSeal
<1>2. /\ txn \in [Matches -> Txn] /\ TypeOK /\ SealShape /\ RowsWritten /\ raced \subseteq raced'
      /\ ledger \in [People -> SUBSET Event] /\ match \in [Matches -> MatchRow]
      /\ glass \in [People -> PlayerState]
  BY DEF LedgerInv, TypeOK, SealTypeOK, NoteRaces
<1>3. match[m].status = "pending_confirmation" /\ InFlight(m)
  BY <1>1 DEF LedgerInv, SealShape, Shape, InFlight
<1>4. /\ match'[m].status = "verified" /\ txn'[m].at = "idle"
      /\ \A n \in Matches : /\ n # m => match'[n] = match[n] /\ txn'[n] = txn[n]
                            /\ match'[n].four = match[n].four /\ match'[n].kind = match[n].kind
  BY <1>1, <1>2 DEF MatchRow, NoTxn
<1>5. \A p \in People : Unraced(p)' => Unraced(p)
  BY <1>2 DEF Unraced
<1>6. \A n \in Matches : Carrying(n)' => n # m /\ Carrying(n)
  BY <1>4 DEF Carrying
<1>7. rated # {} => Carrying(m) /\ rated = Range(match[m].four)
  BY <1>1 DEF Carrying
<1>8. ASSUME NEW n \in Matches, n # m, Carrying(n), NEW p \in Range(match[n].four), p \in rated
      PROVE  ~Unraced(p)
  <2>1. p \in InHand(m) /\ m \in Transactions
    BY <1>2, <1>7, <1>8, CarriesFour DEF Transactions
  <2> QED BY <1>2, <1>8, <2>1, CarriedOnce DEF RatingInv
<1>9. \A p \in People : p \notin rated => glass'[p] = glass[p]
  BY <1>1
<1>10. SeenIsCurrent'
  <2>1. ASSUME NEW n \in Matches, Carrying(n)', NEW p \in Range(match'[n].four), Unraced(p)'
        PROVE  txn'[n].seen[p] = glass'[p]
    <3>1. n # m /\ Carrying(n) /\ p \in Range(match[n].four) /\ txn'[n] = txn[n]
      BY <1>4, <1>6, <2>1
    <3>2. p \in People
      BY <1>2, <3>1, CarriesFour
    <3>3. p \notin rated
      BY <1>5, <1>8, <2>1, <3>1, <3>2
    <3> QED BY <1>5, <1>9, <2>1, <3>1, <3>2, <3>3 DEF RatingInv, SeenIsCurrent
  <2> QED BY <2>1 DEF SeenIsCurrent
<1>11. \A p \in People : \A e \in ledger[p] :
         /\ e.match \in Matches /\ (e.match = m => ~Committed(e))
         /\ Committed(e)' <=> (Committed(e) \/ e.match = m)
  BY <1>2, <1>3, <1>4 DEF Committed, Event
<1>12. ASSUME NEW p \in People, NEW e \in ledger[p], e.match = m
       PROVE  p \in rated
  <2>1. Carrying(m) /\ p \in Range(match[m].four)
    BY <1>2, <1>11, <1>12, OpenRowIsCarried
  <2>2. match[m].kind = "rated"
    BY <1>2, <2>1, CarriesFour
  <2> QED BY <2>1, <2>2
<1>13. ASSUME NEW p \in People, p \in rated
       PROVE  \E e \in ledger[p] : e.match = m
  <2>1. match[m].kind = "rated" /\ p \in Range(match[m].four)
    BY <1>13
  <2>2. PICK i \in 1..4 : match[m].four[i] = p
    BY <1>2, <1>3, <2>1, FourOf
  <2>3. WrittenPlaces(m) = 1..4
    BY <1>1, <2>1 DEF WrittenPlaces
  <2> QED BY <1>2, <2>2, <2>3 DEF RowsWritten
<1> HIDE DEF rated
<1>14. ASSUME NEW p \in People, p \notin rated
       PROVE  LiveEvents(p)' = LiveEvents(p)
  <2>1. Trail(p)' = Trail(p)
    BY <1>1, <1>11, <1>12, <1>14 DEF Trail
  <2> QED BY <2>1 DEF LiveEvents
<1>15. OpenRows'
  <2>1. ASSUME NEW p \in People, NEW e \in ledger'[p], ~Committed(e)'
        PROVE  /\ e.before = txn'[e.match].seen[p].rating
               /\ Unraced(p)' => \A f \in LiveEvents(p)' : f.match \in e.earlier
    <3>1. e \in ledger[p] /\ ~Committed(e) /\ e.match # m /\ e.match \in Matches
      BY <1>1, <1>11, <2>1
    <3>2. Carrying(e.match) /\ p \in Range(match[e.match].four)
      BY <1>2, <3>1, OpenRowIsCarried
    <3>3. e.before = txn'[e.match].seen[p].rating
      BY <1>4, <3>1 DEF RatingInv, OpenRows
    <3>4. ASSUME Unraced(p)'
          PROVE  \A f \in LiveEvents(p)' : f.match \in e.earlier
      <4>1. p \notin rated
        BY <1>5, <1>8, <3>1, <3>2, <3>4
      <4>2. \A f \in LiveEvents(p) : f.match \in e.earlier
        BY <1>5, <3>1, <3>4 DEF RatingInv, OpenRows
      <4> QED BY <1>14, <4>1, <4>2
    <3> QED BY <3>3, <3>4
  <2> QED BY <2>1 DEF OpenRows
<1>16. MirrorsAddUp'
  <2>1. ASSUME NEW p \in People, Unraced(p)'
        PROVE  AddsUp(LiveEvents(p)', glass'[p])
    <3>1. AddsUp(LiveEvents(p), glass[p])
      BY <1>5, <2>1 DEF RatingInv, MirrorsAddUp
    <3>2. CASE p \notin rated
      BY <1>9, <1>14, <3>1, <3>2
    <3>3. CASE p \in rated
      <4>1. PICK e \in ledger[p] : e.match = m
        BY <1>13, <3>3
      <4>2. ~Committed(e) /\ \A f \in ledger[p] : f.match = m => f = e
        BY <1>2, <1>11, <4>1 DEF RowsWritten
      <4>3. ~e.merged
        BY <4>2 DEF LedgerInv, RowsOrdered
      <4>4. Trail(p)' = Trail(p) \cup {e}
        BY <1>1, <1>11, <4>1, <4>2 DEF Trail
      <4>5. LiveEvents(p)' = LiveEvents(p) \cup {e}
        BY <4>3, <4>4 DEF LiveEvents
      <4>6. e.before = txn[m].seen[p].rating /\ \A f \in LiveEvents(p) : f.match \in e.earlier
        BY <1>5, <2>1, <4>1, <4>2 DEF RatingInv, OpenRows
      <4>7. txn[m].seen[p] = glass[p]
        BY <1>5, <1>7, <2>1, <3>3 DEF RatingInv, SeenIsCurrent
      <4>8. glass'[p] = [count |-> glass[p].count + 1, rating |-> glass[p].rating \cup {m}]
        BY <1>1, <3>3, <4>7
      <4>9. \A f \in LiveEvents(p) : f.match # m
        BY <1>11 DEF LiveEvents, Trail
      <4>10. m \notin glass[p].rating /\ IsFiniteSet(glass[p].rating)
        <5>1. m \notin glass[p].rating
          BY <3>1, <4>9 DEF AddsUp
        <5>2. glass[p].rating \subseteq Matches
          BY <1>2 DEF PlayerState
        <5> QED BY <5>1, <5>2, OwnerAssumption, FS_Subset
      <4>11. Cardinality(glass[p].rating \cup {m}) = glass[p].count + 1
        BY <3>1, <4>10, FS_AddElement DEF AddsUp
      <4>12. {f.match : f \in LiveEvents(p)'} = {f.match : f \in LiveEvents(p)} \cup {m}
        BY <4>1, <4>5
      <4>13. ASSUME NEW l, IsLatest(l, LiveEvents(p)')
             PROVE  After(l) = glass[p].rating \cup {m}
        <5>1. l \in LiveEvents(p) \cup {e} /\ l.match \notin e.earlier
          BY <4>5, <4>13 DEF IsLatest
        <5>2. l = e
          BY <4>6, <5>1
        <5> QED BY <4>1, <4>6, <4>7, <5>2 DEF After
      <4> QED BY <3>1, <4>8, <4>11, <4>12, <4>13 DEF AddsUp
    <3> QED BY <3>2, <3>3
  <2> QED BY <2>1 DEF MirrorsAddUp
<1>17. RacesNoted'
  BY RacesAreNoted DEF LedgerInv
<1> QED BY <1>10, <1>15, <1>16, <1>17 DEF RatingInv

\* A seal that is rolled back leaves the committed rows as they were, but for the place
\* of its own row in their order.
LEMMA RollbackRating ==
  ASSUME LedgerInv, RatingInv, LedgerInv', NEW m \in Matches, Rollback(m), UNCHANGED ident,
         raced \subseteq raced', RacesNoted'
  PROVE  RatingInv'
<1> DEFINE Kept(p) == {x \in ledger[p] : x.match # m}
           Cut(e) == [e EXCEPT !.earlier = @ \ {m}]
<1>1. /\ txn[m].at # "idle" /\ txn' = [txn EXCEPT ![m] = NoTxn]
      /\ UNCHANGED <<match, glass>>
      /\ ledger' = [p \in People |-> {Cut(e) : e \in Kept(p)}]
  BY DEF Rollback, bookVars
<1>2. /\ txn \in [Matches -> Txn] /\ TypeOK /\ SealShape /\ ledger \in [People -> SUBSET Event]
  BY DEF LedgerInv, TypeOK, SealTypeOK
<1>3. match[m].status = "pending_confirmation"
  BY <1>1 DEF LedgerInv, SealShape, Shape, InFlight
<1>4. ASSUME NEW e \in Event
      PROVE  /\ Cut(e).match = e.match /\ Cut(e).before = e.before
             /\ Cut(e).merged = e.merged /\ Cut(e).earlier = e.earlier \ {m}
  BY DEF Event
<1>5. ASSUME NEW p \in People
      PROVE  /\ ledger'[p] = {Cut(e) : e \in Kept(p)} /\ ledger[p] \subseteq Event
             /\ Kept(p) \subseteq ledger[p]
             /\ \A x \in ledger'[p] : \E e \in ledger[p] : e.match # m /\ x = Cut(e)
             /\ \A e \in ledger[p] : e.match # m => Cut(e) \in ledger'[p]
  BY <1>1, <1>2
<1> HIDE DEF Cut, Kept
<1>6. \A p \in People : Unraced(p)' => Unraced(p)
  BY DEF Unraced
<1>7. /\ txn'[m].at = "idle" /\ \A n \in Matches : n # m => txn'[n] = txn[n]
  BY <1>1, <1>2 DEF NoTxn
<1>8. SeenIsCurrent'
  <2>1. ASSUME NEW n \in Matches, Carrying(n)', NEW p \in Range(match'[n].four), Unraced(p)'
        PROVE  txn'[n].seen[p] = glass'[p]
    <3>1. Carrying(n) /\ p \in Range(match[n].four) /\ txn'[n] = txn[n]
      BY <1>1, <1>7, <2>1 DEF Carrying
    <3>2. p \in People
      BY <1>2, <3>1, CarriesFour
    <3> QED BY <1>1, <1>6, <2>1, <3>1, <3>2 DEF RatingInv, SeenIsCurrent
  <2> QED BY <2>1 DEF SeenIsCurrent
<1>9. ASSUME NEW p \in People
      PROVE  /\ \A x \in LiveEvents(p)' : \E e \in LiveEvents(p) : x = Cut(e)
             /\ \A e \in LiveEvents(p) : Cut(e) \in LiveEvents(p)' /\ e.match # m
             /\ LiveEvents(p) \subseteq Event
  <2>1. \A x \in LiveEvents(p)' : \E e \in LiveEvents(p) : x = Cut(e)
    BY <1>1, <1>4, <1>5 DEF LiveEvents, Trail, Committed
  <2>2. \A e \in LiveEvents(p) : e.match # m /\ e \in ledger[p]
    BY <1>3 DEF LiveEvents, Trail, Committed
  <2>3. \A e \in LiveEvents(p) : Cut(e) \in LiveEvents(p)'
    BY <1>1, <1>4, <1>5, <2>2 DEF LiveEvents, Trail, Committed
  <2> QED BY <1>5, <2>1, <2>2, <2>3
<1>10. MirrorsAddUp'
  <2>1. ASSUME NEW p \in People, Unraced(p)'
        PROVE  AddsUp(LiveEvents(p)', glass'[p])
    <3>1. AddsUp(LiveEvents(p), glass[p])
      BY <1>6, <2>1 DEF RatingInv, MirrorsAddUp
    <3>2. \A x \in LiveEvents(p)' : \E e \in LiveEvents(p) : x.match = e.match /\ x.before = e.before
      BY <1>4, <1>9
    <3>3. ASSUME NEW f \in LiveEvents(p)
          PROVE  \E y \in LiveEvents(p)' : /\ y.match = f.match
                   /\ \A e \in LiveEvents(p) : e.match \in f.earlier => e.match \in y.earlier
      <4>1. Cut(f) \in LiveEvents(p)' /\ Cut(f).match = f.match /\ Cut(f).earlier = f.earlier \ {m}
        BY <1>4, <1>9
      <4> QED BY <1>9, <4>1
    <3>4. AddsUp(LiveEvents(p)', glass[p])
      BY <3>1, <3>2, <3>3, ImageAddsUp
    <3> QED BY <1>1, <3>4
  <2> QED BY <2>1 DEF MirrorsAddUp
<1>11. OpenRows'
  <2>1. ASSUME NEW p \in People, NEW x \in ledger'[p], ~Committed(x)'
        PROVE  /\ x.before = txn'[x.match].seen[p].rating
               /\ Unraced(p)' => \A y \in LiveEvents(p)' : y.match \in x.earlier
    <3>1. PICK e \in ledger[p] : e.match # m /\ x = Cut(e)
      BY <1>5
    <3>2. /\ x.match = e.match /\ x.before = e.before /\ x.earlier = e.earlier \ {m}
          /\ e.match \in Matches /\ ~Committed(e)
      BY <1>1, <1>4, <1>5, <2>1, <3>1 DEF Committed, Event
    <3>3. x.before = txn'[x.match].seen[p].rating
      BY <1>7, <3>1, <3>2 DEF RatingInv, OpenRows
    <3>4. ASSUME Unraced(p)', NEW y \in LiveEvents(p)'
          PROVE  y.match \in x.earlier
      <4>1. PICK f \in LiveEvents(p) : y = Cut(f)
        BY <1>9
      <4>2. f.match \in e.earlier /\ f.match # m /\ y.match = f.match
        BY <1>4, <1>6, <1>9, <3>2, <3>4, <4>1 DEF RatingInv, OpenRows
      <4> QED BY <3>2, <4>2
    <3> QED BY <3>3, <3>4
  <2> QED BY <2>1 DEF OpenRows
<1> QED BY <1>8, <1>10, <1>11 DEF RatingInv


\* Steps of a merge that take rows or let them go.
LEMMA MergeRating ==
  ASSUME LedgerInv, RatingInv, LedgerInv', NEW g \in Guests,
         (LockFirst(g) /\ NoteRaces) \/ LockSecond(g) \/ LockMatchRow(g) \/ MergeRollback(g)
  PROVE  RatingInv'
<1>1. UNCHANGED <<match, ledger, glass, txn, ident>>
  BY DEF LockFirst, LockSecond, LockMatchRow, MergeRollback, mergeVars
<1>2. merge \in [Guests -> {"idle", "first", "both"}] /\ Matches \cap Guests = {}
  BY OwnerAssumption DEF LedgerInv, TypeOK, People
<1>3. \A m \in Matches : Carrying(m)' <=> Carrying(m)
  BY <1>1 DEF Carrying
<1>4. raced \subseteq raced' /\ RacesNoted'
  <2>1. CASE LockFirst(g) /\ NoteRaces
    BY <2>1, RacesAreNoted DEF LedgerInv, NoteRaces
  <2>2. CASE LockSecond(g) \/ LockMatchRow(g) \/ MergeRollback(g)
    <3>1. \A h \in Guests : merge[h] = "idle" => merge'[h] = "idle"
      BY <1>2, <2>2 DEF LockSecond, LockMatchRow, MergeRollback, mergeVars
    <3>2. \A t \in Transactions : InHand(t)' \subseteq InHand(t)
      BY <1>1, <3>1 DEF InHand, Transactions
    <3>3. raced' = raced
      BY <2>2 DEF LockSecond, LockMatchRow, MergeRollback, mergeVars
    <3> QED BY <3>2, <3>3, RacesStay DEF RatingInv
  <2> QED BY <2>1, <2>2
<1> QED BY <1>1, <1>3, <1>4, RatingStays

\* A merge hands the account the guest's trail and what users says of it, or sets the
\* trail aside beside the account's own: nobody who carries either is missed.
LEMMA ReattributeRating ==
  ASSUME LedgerInv, RatingInv, LedgerInv', MergesGuests, NEW g \in Guests, ReattributeGuestData(g)
  PROVE  RatingInv'
<1> DEFINE a == MergeInto[g]
           Marked(e) == [e EXCEPT !.merged = @ \/ ledger[a] # {}]
<1>1. /\ a \in People /\ g \in People /\ a # g /\ a \in Accounts /\ a \notin Guests
      /\ g \in Transactions /\ g \notin Matches
  BY MergeRows, SealPeopleAssumption, OwnerAssumption DEF Transactions
<1>2. /\ TypeOK /\ SealShape /\ ledger \in [People -> SUBSET Event] /\ match \in [Matches -> MatchRow]
      /\ glass \in [People -> PlayerState] /\ merge \in [Guests -> {"idle", "first", "both"}]
      /\ ident \in [Guests -> {"guest", "husk"}] /\ RowsWritten
  BY DEF LedgerInv, TypeOK, SealTypeOK
<1>3. /\ merge[g] = "both" /\ ToRepoint(g) = {} /\ match' = Repointed(g, a)
      /\ ledger' = Reattributed(g, a)
      /\ glass' = IF Adopts(g, a) THEN [glass EXCEPT ![a] = glass[g]] ELSE glass
      /\ ident' = [ident EXCEPT ![g] = "husk"] /\ merge' = [merge EXCEPT ![g] = "idle"]
      /\ raced' = (IF g \in raced THEN raced \cup {a} ELSE raced) /\ txn' = txn
  BY DEF ReattributeGuestData
<1>4. lock[g] = g /\ lock[a] = g /\ Sharers(g) = {} /\ Sharers(a) = {}
  <2>1. /\ lock[FirstRow(g)] = g /\ Sharers(FirstRow(g)) = {}
        /\ lock[SecondRow(g)] = g /\ Sharers(SecondRow(g)) = {}
    BY <1>3 DEF LedgerInv, LocksHeld
  <2> QED BY <2>1 DEF FirstRow, SecondRow
<1>5. \A e \in ledger[g] \cup ledger[a] : Committed(e)
  BY <1>4 DEF Sharers
<1>6. ASSUME NEW e \in Event
      PROVE  /\ Marked(e).match = e.match /\ Marked(e).before = e.before
             /\ Marked(e).earlier = e.earlier
             /\ Marked(e).merged <=> (e.merged \/ ledger[a] # {})
  BY DEF Event
<1>7. ASSUME NEW m \in Matches
      PROVE  /\ match'[m].status = match[m].status /\ match'[m].kind = match[m].kind
             /\ InFlight(m) => Range(match'[m].four) = Range(match[m].four)
  <2>1. /\ match'[m].status = match[m].status /\ match'[m].kind = match[m].kind
        /\ DOMAIN match'[m].four = DOMAIN match[m].four
        /\ \A i \in DOMAIN match[m].four :
             match'[m].four[i] = IF match[m].four[i] = g THEN a ELSE match[m].four[i]
    BY <1>1, <1>2, <1>3, RepointedRow
  <2>2. ASSUME InFlight(m)
        PROVE  Range(match'[m].four) = Range(match[m].four)
    <3>1. lock[m] = m
      BY <2>2 DEF LedgerInv, LocksHeld
    <3>2. g \notin Range(match[m].four)
      BY <1>1, <1>3, <3>1 DEF ToRepoint
    <3>3. \A i \in DOMAIN match[m].four : match'[m].four[i] = match[m].four[i]
      BY <2>1, <3>2 DEF Range
    <3> QED BY <2>1, <3>3 DEF Range
  <2> QED BY <2>1, <2>2
<1>8. \A q \in People :
        ledger'[q] = IF q = g THEN {}
                     ELSE IF q = a THEN ledger[a] \cup {Marked(e) : e \in ledger[g]}
                     ELSE ledger[q]
  BY <1>1, <1>2, <1>3 DEF Reattributed
<1>9. /\ ledger[g] \subseteq Event /\ ledger[a] \subseteq Event
      /\ \A e \in ledger[g] : Marked(e) \in ledger'[a]
      /\ \A x \in ledger'[a] : x \in ledger[a] \/ \E e \in ledger[g] : x = Marked(e)
  <2>1. ledger'[a] = ledger[a] \cup {Marked(e) : e \in ledger[g]}
    BY <1>1, <1>8
  <2> HIDE DEF Marked
  <2> QED BY <1>1, <1>2, <2>1
<1>10. ASSUME NEW q \in People, q \notin {a, g}
       PROVE  ledger'[q] = ledger[q]
  BY <1>8, <1>10
<1>11. ledger'[g] = {} /\ ledger[a] \subseteq ledger'[a]
  BY <1>1, <1>8
<1> HIDE DEF Marked
<1>12. \A q \in People : \A e \in ledger[q] : e.match \in Matches /\ (Committed(e)' <=> Committed(e))
  BY <1>2, <1>7 DEF Committed, Event
<1>13. \A q \in People : Unraced(q)' => Unraced(q) /\ q # g /\ (q = a => Unraced(g))
  <2>1. ident[g] = "guest"
    BY <1>3 DEF MergesGuests
  <2> QED BY <1>1, <1>2, <1>3, <2>1 DEF Unraced
<1>14. ASSUME NEW m \in Matches
       PROVE  /\ Carrying(m)' <=> Carrying(m)
              /\ Carrying(m) => Range(match'[m].four) = Range(match[m].four)
              /\ InHand(m)' = InHand(m)
  <2>1. Carrying(m)' <=> Carrying(m)
    BY <1>3, <1>7 DEF Carrying
  <2>2. Carrying(m) => InFlight(m)
    BY DEF Carrying, InFlight
  <2>3. InHand(m)' = InHand(m)
    BY <1>3, <1>7 DEF InHand, InFlight
  <2> QED BY <1>7, <2>1, <2>2, <2>3
<1>15. RacesNoted'
  <2>1. ASSUME NEW t \in Transactions
        PROVE  InHand(t)' \subseteq InHand(t)
    <3>1. CASE t \in Matches
      BY <1>14, <3>1
    <3>2. CASE t \notin Matches
      BY <1>2, <1>3, <3>2 DEF InHand, Transactions
    <3> QED BY <3>1, <3>2
  <2>2. raced \subseteq raced'
    BY <1>3
  <2> QED BY <2>1, <2>2, RacesStay DEF RatingInv
<1>16. ASSUME NEW q \in People, q # a, q # g
       PROVE  LiveEvents(q)' = LiveEvents(q) /\ glass'[q] = glass[q]
  <2>1. Trail(q)' = Trail(q)
    BY <1>10, <1>12, <1>16 DEF Trail
  <2>2. glass'[q] = glass[q]
    BY <1>1, <1>2, <1>3, <1>16
  <2> QED BY <2>1, <2>2 DEF LiveEvents
<1>17. SeenIsCurrent'
  <2>1. ASSUME NEW m \in Matches, Carrying(m)', NEW p \in Range(match'[m].four), Unraced(p)'
        PROVE  txn'[m].seen[p] = glass'[p]
    <3>1. Carrying(m) /\ p \in Range(match[m].four)
      BY <1>14, <2>1
    <3>2. p \in People
      BY <1>2, <3>1, CarriesFour
    <3>3. Unraced(p) /\ p # g
      BY <1>13, <2>1, <3>2
    <3>4. p # a
      <4>1. a \in InHand(g) /\ g # m
        BY <1>1, <1>3 DEF InHand
      <4> QED BY <1>1, <1>2, <3>1, <3>3, <4>1, CarriedOnce DEF RatingInv
    <3> QED BY <1>3, <1>16, <3>1, <3>2, <3>3, <3>4 DEF RatingInv, SeenIsCurrent
  <2> QED BY <2>1 DEF SeenIsCurrent
<1>18. OpenRows'
  <2>1. ASSUME NEW p \in People, NEW x \in ledger'[p], ~Committed(x)'
        PROVE  /\ x.before = txn'[x.match].seen[p].rating
               /\ Unraced(p)' => \A f \in LiveEvents(p)' : f.match \in x.earlier
    <3>1. p # g
      BY <1>11, <2>1
    <3>2. p # a
      <4>1. \A e \in ledger[g] : match'[Marked(e).match].status = "verified"
        BY <1>1, <1>5, <1>6, <1>9, <1>12 DEF Committed
      <4>2. \A e \in ledger[a] : match'[e.match].status = "verified"
        BY <1>1, <1>5, <1>12 DEF Committed
      <4>3. match'[x.match].status # "verified"
        BY <2>1 DEF Committed
      <4> QED BY <1>9, <2>1, <4>1, <4>2, <4>3
    <3>3. x \in ledger[p] /\ ~Committed(x)
      BY <1>10, <1>12, <2>1, <3>1, <3>2
    <3> QED BY <1>3, <1>13, <1>16, <3>1, <3>2, <3>3 DEF RatingInv, OpenRows
  <2> QED BY <2>1 DEF OpenRows
<1>19. ASSUME Unraced(a)'
       PROVE  AddsUp(LiveEvents(a)', glass'[a])
  <2>1. AddsUp(LiveEvents(a), glass[a]) /\ AddsUp(LiveEvents(g), glass[g])
    BY <1>1, <1>13, <1>19 DEF RatingInv, MirrorsAddUp
  <2>2. Trail(a) = ledger[a] /\ Trail(g) = ledger[g]
    BY <1>5 DEF Trail
  <2>3. CASE ledger[a] # {}
    <3>1. \A x \in LiveEvents(a)' : x \in LiveEvents(a)
      BY <1>1, <1>6, <1>9, <2>2, <2>3 DEF LiveEvents, Trail
    <3>2. \A x \in LiveEvents(a) : x \in LiveEvents(a)'
      BY <1>1, <1>11, <1>12 DEF LiveEvents, Trail
    <3>3. LiveEvents(a)' = LiveEvents(a)
      BY <3>1, <3>2
    <3>4. glass'[a] = glass[a]
      BY <1>3, <2>3 DEF Adopts
    <3> QED BY <2>1, <3>3, <3>4
  <2>4. CASE ledger[a] = {} /\ ledger[g] = {}
    <3>1. ledger'[a] = {}
      BY <1>9, <2>4
    <3>2. LiveEvents(a)' = LiveEvents(a)
      BY <2>4, <3>1 DEF LiveEvents, Trail
    <3>3. glass'[a] = glass[a]
      BY <1>3, <2>4 DEF Adopts
    <3> QED BY <2>1, <3>2, <3>3
  <2>5. CASE ledger[a] = {} /\ ledger[g] # {}
    <3>1. glass'[a] = glass[g]
      BY <1>1, <1>2, <1>3, <2>5 DEF Adopts
    <3>2. \A x \in LiveEvents(a)' : \E e \in LiveEvents(g) : x.match = e.match /\ x.before = e.before
      BY <1>1, <1>6, <1>9, <2>2, <2>5 DEF LiveEvents, Trail
    <3>3. \A e \in LiveEvents(g) :
            Marked(e) \in LiveEvents(a)' /\ Marked(e).match = e.match /\ Marked(e).earlier = e.earlier
      BY <1>1, <1>5, <1>6, <1>9, <1>12, <2>5 DEF LiveEvents, Trail, Committed
    <3>4. \A f \in LiveEvents(g) : \E y \in LiveEvents(a)' :
            y.match = f.match /\ \A e \in LiveEvents(g) : e.match \in f.earlier => e.match \in y.earlier
      BY <3>3
    <3> QED BY <2>1, <3>1, <3>2, <3>4, ImageAddsUp
  <2> QED BY <2>3, <2>4, <2>5
<1>20. MirrorsAddUp'
  <2>1. ASSUME NEW p \in People, Unraced(p)'
        PROVE  AddsUp(LiveEvents(p)', glass'[p])
    <3>1. p # g /\ Unraced(p)
      BY <1>13, <2>1
    <3>2. CASE p # a
      BY <1>16, <3>1, <3>2 DEF RatingInv, MirrorsAddUp
    <3> QED BY <1>19, <2>1, <3>2
  <2> QED BY <2>1 DEF MirrorsAddUp
<1> QED BY <1>15, <1>17, <1>18, <1>20 DEF RatingInv

\* At first nobody is on a match.
LEMMA InitRating ==
  ASSUME Init
  PROVE  RatingInv
<1>1. /\ match = [m \in Matches |-> NotRecorded] /\ ledger = [p \in People |-> {}]
      /\ glass = [p \in People |-> Fresh] /\ txn = [m \in Matches |-> NoTxn]
      /\ merge = [g \in Guests |-> "idle"]
  BY DEF Init, SealInit
<1>2. \A m \in Matches : txn[m].at = "idle" /\ ~Carrying(m)
  BY <1>1 DEF NoTxn, Carrying
<1>3. \A t \in Transactions : InHand(t) = {}
  BY <1>1, <1>2 DEF InHand, Transactions
<1>4. RacesNoted /\ SeenIsCurrent /\ OpenRows
  BY <1>1, <1>2, <1>3 DEF RacesNoted, SeenIsCurrent, OpenRows
<1>5. ASSUME NEW p \in People
      PROVE  AddsUp(LiveEvents(p), glass[p])
  <2>1. LiveEvents(p) = {}
    BY <1>1 DEF LiveEvents, Trail
  <2>2. glass[p].rating = {} /\ glass[p].count = 0
    BY <1>1 DEF Fresh
  <2> QED BY <2>1, <2>2, FS_EmptySet DEF AddsUp, IsLatest
<1> QED BY <1>4, <1>5 DEF RatingInv, MirrorsAddUp

\* Every step keeps the mirrors of the unraced.
LEMMA NextRating ==
  ASSUME LedgerInv, RatingInv, MergesGuests, [Next]_vars, LedgerInv'
  PROVE  RatingInv'
<1>1. CASE UNCHANGED vars \/ Answering \/ Recording
  BY <1>1, BookRating
<1>2. ASSUME NEW m \in Matches, DisputeMatch(m), UNCHANGED mergeVars
      PROVE  RatingInv'
  BY <1>2, BookRating
<1>3. ASSUME NEW m \in Matches, Rollback(m), UNCHANGED mergeVars
      PROVE  RatingInv'
  <2>1. \A t \in Transactions : InHand(t)' \subseteq InHand(t)
    <3>1. \A n \in Matches : txn'[n] = txn[n] \/ txn'[n].at = "idle"
      BY <1>3 DEF Rollback, NoTxn, LedgerInv, TypeOK, SealTypeOK
    <3>2. UNCHANGED <<match, merge>>
      BY <1>3 DEF Rollback, bookVars, mergeVars
    <3> QED BY <3>1, <3>2 DEF InHand, Transactions
  <2>2. UNCHANGED <<ident, raced>>
    BY <1>3 DEF mergeVars
  <2>3. RacesNoted'
    BY <2>1, <2>2, RacesStay DEF RatingInv
  <2> QED BY <1>3, <2>2, <2>3, RollbackRating
<1>4. ASSUME NEW m \in Matches, Seal(m) \/ Confirm(m)
      PROVE  RatingInv'
  <2>1. UNCHANGED <<ident, merge>> /\ NoteRaces /\ raced \subseteq raced'
        /\ (SealStep(m) \/ ConfirmMatch(m))
    BY <1>4 DEF Seal, Confirm, NoteRaces
  <2>2. CASE LoadThrows(m)
    <3>1. RacesNoted'
      BY <2>1, RacesAreNoted DEF LedgerInv
    <3> QED BY <2>1, <2>2, <3>1, RollbackRating DEF LoadThrows
  <2> QED BY <2>1, <2>2, LoadRating, InsertRating, MoveRating, CommitRating DEF SealStep
<1>5. ASSUME NEW g \in Guests, MergeStep(g) \/ MergeRollback(g)
      PROVE  RatingInv'
  BY <1>5, MergeRating, ReattributeRating DEF MergeStep
<1>6. ASSUME NEW t \in Transactions, AbortDeadlocked(t)
      PROVE  RatingInv'
  BY <1>3, <1>5, <1>6 DEF AbortDeadlocked, Transactions
<1> QED BY <1>1, <1>2, <1>3, <1>4, <1>5, <1>6 DEF Next, Crash

LEMMA RatingHolds == Spec => []RatingInv
<1> QED BY InitRating, NextRating, LedgerHolds, GuestsMerge, PTL DEF Spec

\* Whoever never had two transactions open on them has a rating that absorbs every
\* sealed match of their live trail, and a count that is its length, over every order of
\* seals, crashes, deadlocks and merges (applyGlassAndPersist, reattributeGuestData).
THEOREM UnracedTrailsAddUp == Spec => []UnracedTrailAddsUp
<1>1. ASSUME LedgerInv, RatingInv
      PROVE  UnracedTrailAddsUp
  <2> SUFFICES ASSUME NEW p \in Accounts, p \notin raced
               PROVE  TrailAddsUp(p)
    BY DEF UnracedTrailAddsUp
  <2> DEFINE live == LiveEvents(p)
             ids == {e.match : e \in live}
  <2>1. p \in People /\ Unraced(p)
    BY SealPeopleAssumption DEF Unraced, People
  <2>2. AddsUp(live, glass[p]) /\ TypeOK
    BY <1>1, <2>1 DEF RatingInv, MirrorsAddUp, LedgerInv
  <2>3. glass[p].rating = ids /\ glass[p].count = Cardinality(ids)
    BY <2>2 DEF AddsUp
  <2>4. Cardinality(live) = Cardinality(ids)
    <3>1. \A e, f \in live : e.match = f.match => e = f
      BY <1>1, <2>1 DEF LedgerInv, RowsWritten, LiveEvents, Trail
    <3>2. ids \subseteq Matches /\ IsFiniteSet(ids)
      <4>1. ids \subseteq Matches
        BY <2>1, <2>2 DEF LiveEvents, Trail, TypeOK, SealTypeOK, Event
      <4> QED BY <4>1, OwnerAssumption, FS_Subset
    <3> DEFINE Row == [e \in live |-> e.match]
    <3>3. Row \in [live -> ids] /\ \A e, f \in live : Row[e] = Row[f] => e = f
      BY <3>1
    <3>4. \A n \in ids : \E e \in live : Row[e] = n
      OBVIOUS
    <3>5. Row \in Bijection(live, ids)
      <4> HIDE DEF Row, live, ids
      <4> QED BY <3>3, <3>4, Fun_IsBij
    <3>6. ExistsBijection(ids, live)
      <4>1. ExistsBijection(live, ids)
        BY <3>5 DEF ExistsBijection
      <4> HIDE DEF live, ids
      <4> QED BY <4>1, Fun_ExistsBijSymmetric
    <3> HIDE DEF live, ids
    <3> QED BY <3>2, <3>6, FS_Bijection
  <2>5. ASSUME live # {}
        PROVE  After(Latest(live)) = glass[p].rating
    <3>1. \E e : IsLatest(e, live)
      <4>1. Trail(p) # {}
        BY <2>5 DEF LiveEvents
      <4> QED BY <1>1, <2>1, <4>1 DEF LedgerInv, TrailsHaveALast
    <3>2. IsLatest(Latest(live), live)
      BY <3>1, LatestIsLast
    <3> QED BY <2>2, <3>2 DEF AddsUp
  <2> QED BY <2>3, <2>4, <2>5 DEF TrailAddsUp
<1> QED BY <1>1, LedgerHolds, RatingHolds, PTL
===============================================================================
