------------------------------- MODULE Tab_proofs -------------------------------
(***************************************************************************)
(* Proofs about Tab for every circle, every set of bills and any number of *)
(* splits being created at once.                                           *)
(***************************************************************************)
EXTENDS Tab, FiniteSetTheorems, WellFoundedInduction, TLAPS

Request == [session : Sessions \cup {None}, payer : Accounts, debtors : SUBSET People, stale : BOOLEAN]
Row == Splits \X People

-------------------------------------------------------------------------------
(* What the actions do to one request and one entry. *)

\* A share is a whole number of minor units.
LEMMA ShareType ==
  ASSUME NEW D \in SUBSET People
  PROVE  ShareMinor(Total, Cardinality(D)) \in Nat
<1>1. Cardinality(D) \in Nat
  BY TabAssumption, FS_Subset, FS_CardinalityType
<1>2. \A n \in Nat : Total \div (n + 1) \in Nat
  BY TabAssumption
<1> QED BY <1>1, <1>2 DEF ShareMinor

LEMMA OutdatedRequests ==
  ASSUME request \in [Requests -> Request \cup {NoRequest}], NEW r
  PROVE  /\ Outdated(r) \in [Requests -> Request \cup {NoRequest}]
         /\ \A q \in Requests : Outdated(r)[q] # NoRequest =>
              /\ request[q] \in Request /\ request[q] # NoRequest
              /\ Outdated(r)[q].payer = request[q].payer
              /\ Outdated(r)[q].debtors = request[q].debtors
              /\ Outdated(r)[q].stale
<1>1. /\ Outdated(r) \in [Requests -> Request \cup {NoRequest}]
      /\ \A q \in Requests : Outdated(r)[q] # NoRequest =>
           /\ request[q] # NoRequest
           /\ Outdated(r)[q] = [request[q] EXCEPT !.stale = TRUE]
  BY DEF Outdated, Request
<1> QED BY <1>1 DEF Request

LEMMA AskedRequest ==
  ASSUME TypeOK, Next, NEW r \in Requests, NEW s, NEW payer, NEW D, Ask(r, s, payer, D)
  PROVE  /\ request' = [request EXCEPT ![r] =
                          [session |-> s, payer |-> payer, debtors |-> D, stale |-> FALSE]]
         /\ UNCHANGED <<who, split, entry>>
BY DEF Ask

\* Both doors ask for a split among others than its payer.
LEMMA Asking ==
  ASSUME TypeOK, NEW r \in Requests,
         (\E s \in Sessions : CheckSessionSplit(r, s)) \/ (\E bill \in Bills : CheckSplit(r, bill))
  PROVE  \E s \in Sessions \cup {None}, payer \in Accounts, D \in SUBSET People :
           /\ Ask(r, s, payer, D)
           /\ payer \notin D /\ D \subseteq Confirmed
           /\ s # None => ~OnTheTab(s)
<1>1. Confirmed \subseteq People
  BY DEF TypeOK, Confirmed
<1>2. ASSUME NEW s \in Sessions, CheckSessionSplit(r, s)
      PROVE  /\ Ask(r, s, Organiser, Confirmed \ {Organiser}) /\ ~OnTheTab(s)
             /\ Confirmed \ {Organiser} \in SUBSET People /\ Organiser \in Accounts
  BY <1>1, <1>2, TabAssumption DEF CheckSessionSplit
<1>3. ASSUME NEW bill \in Bills, CheckSplit(r, bill)
      PROVE  /\ Ask(r, None, bill.payer, bill.debtors)
             /\ bill.payer \notin bill.debtors /\ bill.debtors \subseteq Confirmed
             /\ bill.payer \in Accounts /\ bill.debtors \in SUBSET People
  BY <1>3, TabAssumption DEF CheckSplit
<1>4. CASE \E s \in Sessions : CheckSessionSplit(r, s)
  <2>1. PICK s \in Sessions : CheckSessionSplit(r, s)
    BY <1>4
  <2> QED BY <1>2, <2>1
<1>5. CASE \E bill \in Bills : CheckSplit(r, bill)
  <2>1. PICK bill \in Bills : CheckSplit(r, bill)
    BY <1>5
  <2> QED BY <1>3, <2>1
<1> QED BY <1>4, <1>5

\* A merge changes an entry's people and nothing else, or takes the entry away.
LEMMA MergedEntry ==
  ASSUME TypeOK, NEW g \in Guests, NEW a \in Accounts, NEW x \in EntryType \cup {NoEntry}
  PROVE  LET y == WithoutSelfDebt(Repointed(x, g, a))
         IN  \/ y = NoEntry
             \/ /\ x \in EntryType /\ y \in EntryType /\ y.payer # y.debtor
                /\ y.payer = IF x.payer = g THEN a ELSE x.payer
                /\ y.debtor = IF x.debtor = g THEN a ELSE x.debtor
                /\ y.claimedBy = x.claimedBy /\ y.status = x.status
                /\ y.agreed = x.agreed /\ y.raced = x.raced
<1> USE DEF EntryType, NoEntry
<1>1. CASE x = NoEntry
  BY <1>1 DEF WithoutSelfDebt, Repointed
<1>2. CASE x \in EntryType
  <2>1. x.claimedBy # g /\ x.status # "none" /\ a \in People
    BY <1>2, TabAssumption DEF People
  <2> QED BY <1>2, <2>1 DEF WithoutSelfDebt, Repointed
<1> QED BY <1>1, <1>2

-------------------------------------------------------------------------------
(* Type correctness. *)

LEMMA TypeStep ==
  ASSUME TypeOK, [Next]_vars
  PROVE  TypeOK'
<1>1. /\ who \in [People -> People]
      /\ request \in [Requests -> Request \cup {NoRequest}]
      /\ split \in [Splits -> Sessions \cup {None, "free"}]
      /\ entry \in [Row -> EntryType \cup {NoEntry}]
  BY DEF TypeOK, Request, Row
<1>2. ASSUME who' \in [People -> People],
             request' \in [Requests -> Request \cup {NoRequest}],
             split' \in [Splits -> Sessions \cup {None, "free"}],
             entry' \in [Row -> EntryType \cup {NoEntry}]
      PROVE  TypeOK'
  BY <1>2 DEF TypeOK, Request, Row
<1>3. ASSUME NEW r \in Requests,
             (\E s \in Sessions : CheckSessionSplit(r, s)) \/ (\E bill \in Bills : CheckSplit(r, bill))
      PROVE  TypeOK'
  <2>1. PICK s \in Sessions \cup {None}, payer \in Accounts, D \in SUBSET People : Ask(r, s, payer, D)
    BY <1>3, Asking
  <2>2. request' \in [Requests -> Request \cup {NoRequest}]
    BY <1>1, <2>1 DEF Ask, Request
  <2> QED BY <1>1, <1>2, <2>1, <2>2 DEF Ask
<1>4. ASSUME NEW r \in Requests, AddSplitEntry(r)
      PROVE  TypeOK'
  <2> DEFINE q == request[r]
  <2>1. q \in Request
    BY <1>1, <1>4 DEF AddSplitEntry
  <2>2. PICK n \in Splits :
          /\ split' = [split EXCEPT ![n] = q.session]
          /\ entry' = [e \in Row |->
                         IF e[1] = n /\ e[2] \in q.debtors THEN NewEntry(q, e[2]) ELSE entry[e]]
    BY <1>4 DEF AddSplitEntry, Row
  <2>3. \A d \in People : NewEntry(q, d) \in EntryType
    <3>1. ShareMinor(Total, Cardinality(q.debtors)) \in Nat
      BY <2>1, ShareType DEF Request
    <3> QED BY <2>1, <3>1 DEF NewEntry, EntryType, Request, People
  <2>4. entry' \in [Row -> EntryType \cup {NoEntry}]
    BY <1>1, <2>2, <2>3 DEF Row
  <2>5. request' \in [Requests -> Request \cup {NoRequest}] /\ who' = who
    BY <1>1, <1>4, OutdatedRequests DEF AddSplitEntry
  <2>6. split' \in [Splits -> Sessions \cup {None, "free"}]
    BY <1>1, <2>1, <2>2 DEF Request
  <2> QED BY <1>1, <1>2, <2>4, <2>5, <2>6
<1>5. ASSUME NEW e \in Entries, NudgeEntry(e)
      PROVE  TypeOK'
  <2>1. e \in Row /\ entry[e] \in EntryType
    BY <1>1 DEF Entries, Row, NoEntry
  <2>2. entry' \in [Row -> EntryType \cup {NoEntry}]
    BY <1>1, <1>5, <2>1 DEF NudgeEntry, EntryType
  <2> QED BY <1>1, <1>2, <1>5, <2>2 DEF NudgeEntry
<1>6. ASSUME NEW e \in Entries, NEW p \in Accounts, ProposeOrConfirmSettle(e, p)
      PROVE  TypeOK'
  <2>1. e \in Row /\ entry[e] \in EntryType
    BY <1>1 DEF Entries, Row, NoEntry
  <2>2. entry' \in [Row -> EntryType \cup {NoEntry}]
    BY <1>1, <1>6, <2>1 DEF ProposeOrConfirmSettle, EntryType
  <2> QED BY <1>1, <1>2, <1>6, <2>2 DEF ProposeOrConfirmSettle
<1>7. ASSUME NEW g \in Guests, NEW a \in Accounts, MergeGuest(g, a)
      PROVE  TypeOK'
  <2>1. entry' = [e \in Row |-> WithoutSelfDebt(Repointed(entry[e], g, a))]
    BY <1>7 DEF MergeGuest, Row
  <2>2. \A e \in Row : WithoutSelfDebt(Repointed(entry[e], g, a)) \in EntryType \cup {NoEntry}
    BY <1>1, MergedEntry
  <2>3. request' \in [Requests -> Request \cup {NoRequest}]
    BY <1>1, <1>7, OutdatedRequests DEF MergeGuest
  <2>4. who' \in [People -> People] /\ split' = split
    BY <1>1, <1>7 DEF MergeGuest, People
  <2> QED BY <1>1, <1>2, <2>1, <2>2, <2>3, <2>4
<1>8. CASE UNCHANGED vars
  BY <1>1, <1>2, <1>8 DEF vars
<1> QED BY <1>3, <1>4, <1>5, <1>6, <1>7, <1>8 DEF Next

\* Every variable keeps its type, for every circle and any number of splits.
THEOREM TypeCorrect == Spec => []TypeOK
<1>1. Init => TypeOK
  BY DEF Init, TypeOK
<1> QED BY <1>1, TypeStep, PTL DEF Spec
-------------------------------------------------------------------------------
(* The steps of the Tab, as far as the invariants below depend on them. *)

LEMMA RealEntries ==
  ASSUME NEW en \in [Row -> EntryType \cup {NoEntry}]
  PROVE  \A e \in Row : en[e].status # "none" <=> en[e] # NoEntry
<1>1. \A x \in EntryType : x.status # "none" /\ x # NoEntry
  BY DEF EntryType, NoEntry
<1> QED BY <1>1 DEF NoEntry

LEMMA TypedNext ==
  ASSUME TypeOK, Next
  PROVE  /\ entry' \in [Row -> EntryType \cup {NoEntry}]
         /\ Entries' = {e \in Row : entry'[e] # NoEntry}
<1>1. entry' \in [Row -> EntryType \cup {NoEntry}]
  BY TypeStep DEF TypeOK, Row
<1> QED BY <1>1, RealEntries DEF Entries, Row

LEMMA Typed ==
  ASSUME TypeOK
  PROVE  /\ who \in [People -> People]
         /\ request \in [Requests -> Request \cup {NoRequest}]
         /\ split \in [Splits -> Sessions \cup {None, "free"}]
         /\ entry \in [Row -> EntryType \cup {NoEntry}]
         /\ Entries = {e \in Row : entry[e] # NoEntry}
         /\ \A e \in Entries : e \in Row /\ entry[e] \in EntryType
<1>1. /\ who \in [People -> People]
      /\ request \in [Requests -> Request \cup {NoRequest}]
      /\ split \in [Splits -> Sessions \cup {None, "free"}]
      /\ entry \in [Row -> EntryType \cup {NoEntry}]
  BY DEF TypeOK, Request, Row
<1>2. \A x \in EntryType : x.status # "none"
  BY DEF EntryType
<1>3. Entries = {e \in Row : entry[e] # NoEntry}
  BY <1>1, <1>2 DEF Entries, Row, NoEntry
<1> QED BY <1>1, <1>3

\* A split is added at the first free place, one new row per debtor.
LEMMA AddedSplit ==
  ASSUME TypeOK, NEW r \in Requests, AddSplitEntry(r)
  PROVE  /\ request[r] \in Request /\ who' = who
         /\ request' = Outdated(r)
         /\ \E n \in Splits :
              /\ split[n] = "free" /\ \A m \in Splits : m < n => split[m] # "free"
              /\ split' = [split EXCEPT ![n] = request[r].session]
              /\ entry' \in [Row -> EntryType \cup {NoEntry}]
              /\ \A e \in Row :
                   entry'[e] = IF e[1] = n /\ e[2] \in request[r].debtors
                               THEN NewEntry(request[r], e[2]) ELSE entry[e]
<1>1. request[r] \in Request
  BY Typed DEF AddSplitEntry
<1>2. entry' \in [Row -> EntryType \cup {NoEntry}]
  BY TypedNext DEF Next
<1>3. PICK n \in Splits :
        /\ split[n] = "free" /\ \A m \in Splits : m < n => split[m] # "free"
        /\ split' = [split EXCEPT ![n] = request[r].session]
        /\ entry' = [e \in Row |-> IF e[1] = n /\ e[2] \in request[r].debtors
                                    THEN NewEntry(request[r], e[2]) ELSE entry[e]]
  BY DEF AddSplitEntry, Row
<1>4. \A e \in Row :
        entry'[e] = IF e[1] = n /\ e[2] \in request[r].debtors
                    THEN NewEntry(request[r], e[2]) ELSE entry[e]
  BY <1>3
<1>5. who' = who /\ request' = Outdated(r)
  BY DEF AddSplitEntry
<1> QED BY <1>1, <1>2, <1>3, <1>4, <1>5

LEMMA NewEntryFields ==
  ASSUME NEW q, NEW d
  PROVE  /\ NewEntry(q, d).status = "open" /\ NewEntry(q, d).payer = q.payer
         /\ NewEntry(q, d).debtor = d /\ NewEntry(q, d).claimedBy = None
         /\ NewEntry(q, d).raced = q.stale /\ NewEntry(q, d) # NoEntry
<1>1. /\ NewEntry(q, d).status = "open" /\ NewEntry(q, d).payer = q.payer
      /\ NewEntry(q, d).debtor = d /\ NewEntry(q, d).claimedBy = None
      /\ NewEntry(q, d).raced = q.stale
  BY DEF NewEntry
<1>2. NoEntry.status = "none"
  BY DEF NoEntry
<1> QED BY <1>1, <1>2

\* A merge leaves each entry as it was but for the guest's name.
LEMMA Merged ==
  ASSUME TypeOK, NEW g \in Guests, NEW a \in Accounts, MergeGuest(g, a)
  PROVE  /\ who[g] = g /\ who' = [who EXCEPT ![g] = a] /\ split' = split
         /\ request' = Outdated(None)
         /\ Entries' \subseteq Entries
         /\ \A e \in Entries' :
              /\ entry[e] \in EntryType /\ entry'[e] \in EntryType
              /\ entry'[e].payer # entry'[e].debtor
              /\ entry'[e].payer = IF entry[e].payer = g THEN a ELSE entry[e].payer
              /\ entry'[e].debtor = IF entry[e].debtor = g THEN a ELSE entry[e].debtor
              /\ entry'[e].claimedBy = entry[e].claimedBy /\ entry'[e].status = entry[e].status
              /\ entry'[e].agreed = entry[e].agreed /\ entry'[e].raced = entry[e].raced
<1>2. Entries' = {e \in Row : entry'[e] # NoEntry}
  BY TypedNext DEF Next
<1>3. \A e \in Row : /\ entry'[e] = WithoutSelfDebt(Repointed(entry[e], g, a))
                     /\ entry[e] \in EntryType \cup {NoEntry}
  BY Typed DEF MergeGuest, Row
<1>4. \A e \in Entries' :
              /\ entry[e] \in EntryType /\ entry'[e] \in EntryType
              /\ entry'[e].payer # entry'[e].debtor
              /\ entry'[e].payer = IF entry[e].payer = g THEN a ELSE entry[e].payer
              /\ entry'[e].debtor = IF entry[e].debtor = g THEN a ELSE entry[e].debtor
              /\ entry'[e].claimedBy = entry[e].claimedBy /\ entry'[e].status = entry[e].status
              /\ entry'[e].agreed = entry[e].agreed /\ entry'[e].raced = entry[e].raced
  BY <1>2, <1>3, MergedEntry
<1>5. Entries' \subseteq Entries
  <2>1. \A x \in EntryType : x # NoEntry
    BY DEF EntryType, NoEntry
  <2> QED BY <1>2, <1>4, <2>1, Typed
<1> QED BY <1>4, <1>5 DEF MergeGuest

\* A nudge or a word about the settlement changes one entry's state.
LEMMA Touched ==
  ASSUME TypeOK, NEW e \in Entries,
         NudgeEntry(e) \/ \E p \in Accounts : ProposeOrConfirmSettle(e, p)
  PROVE  /\ UNCHANGED <<who, request, split>> /\ Entries' = Entries
         /\ \A f \in Entries : f # e => entry'[f] = entry[f]
         /\ entry'[e].payer = entry[e].payer /\ entry'[e].debtor = entry[e].debtor
         /\ entry'[e].raced = entry[e].raced
<1>1. e \in Row /\ entry[e] \in EntryType /\ entry \in [Row -> EntryType \cup {NoEntry}]
  BY Typed
<1>2. Entries' = {f \in Row : entry'[f] # NoEntry}
  BY TypedNext DEF Next
<1>3. CASE NudgeEntry(e)
  <2>1. /\ UNCHANGED <<who, request, split>>
        /\ entry' = [entry EXCEPT ![e] = [@ EXCEPT !.status = "nudged", !.nudged = TRUE]]
    BY <1>3 DEF NudgeEntry
  <2>2. entry'[e] # NoEntry /\ \A f \in Row : f # e => entry'[f] = entry[f]
    BY <1>1, <2>1 DEF EntryType, NoEntry
  <2>4. Entries' = Entries
    BY <1>1, <1>2, <2>2, Typed
  <2> QED BY <1>1, <2>1, <2>2, <2>4, Typed DEF EntryType
<1>4. CASE \E p \in Accounts : ProposeOrConfirmSettle(e, p)
  <2>1. PICK p \in Accounts :
          /\ UNCHANGED <<who, request, split>>
          /\ entry' = [entry EXCEPT
               ![e].status = IF ClaimedByOther(e, p) THEN "settled" ELSE @,
               ![e].claimedBy = p,
               ![e].agreed = @ \cup {p}]
    BY <1>4 DEF ProposeOrConfirmSettle
  <2>2. entry'[e] # NoEntry /\ \A f \in Row : f # e => entry'[f] = entry[f]
    BY <1>1, <2>1 DEF EntryType, NoEntry
  <2>4. Entries' = Entries
    BY <1>1, <1>2, <2>2, Typed
  <2> QED BY <1>1, <2>1, <2>2, <2>4, Typed DEF EntryType
<1> QED BY <1>3, <1>4

-------------------------------------------------------------------------------
(* Settling. *)

\* Nobody owes themselves, and a claim was made by the side it names.
Sides ==
  \A e \in Entries :
    /\ entry[e].payer # entry[e].debtor
    /\ entry[e].claimedBy # None =>
         entry[e].claimedBy \in {entry[e].payer, entry[e].debtor} /\ entry[e].claimedBy \in entry[e].agreed
PayersAskOthers ==
  \A r \in Requests : request[r] # NoRequest => request[r].payer \notin request[r].debtors

SettleInv == SettledByBoth /\ Sides /\ PayersAskOthers

LEMMA SettleStep ==
  ASSUME TypeOK, SettleInv, [Next]_vars
  PROVE  SettleInv'
<1> USE DEF SettleInv, SettledByBoth, Sides, PayersAskOthers
<1>1. ASSUME NEW r \in Requests,
             (\E s \in Sessions : CheckSessionSplit(r, s)) \/ (\E bill \in Bills : CheckSplit(r, bill))
      PROVE  SettleInv'
  <2>1. PICK s \in Sessions \cup {None}, payer \in Accounts, D \in SUBSET People :
          Ask(r, s, payer, D) /\ payer \notin D
    BY <1>1, Asking
  <2>2. entry' = entry /\ Entries' = Entries
    BY <2>1 DEF Ask, Entries
  <2>3. PayersAskOthers'
    BY <2>1, Typed DEF Ask
  <2> QED BY <2>2, <2>3
<1>2. ASSUME NEW r \in Requests, AddSplitEntry(r)
      PROVE  SettleInv'
  <2>1. PICK n \in Splits : \A e \in Row :
          entry'[e] = IF e[1] = n /\ e[2] \in request[r].debtors
                      THEN NewEntry(request[r], e[2]) ELSE entry[e]
    BY <1>2, AddedSplit
  <2>2. request[r] \in Request /\ request[r].payer \notin request[r].debtors
    BY <1>2, AddedSplit DEF AddSplitEntry
  <2>3. Entries' = {e \in Row : entry'[e] # NoEntry}
    BY <1>2, TypedNext DEF Next
  <2>4. \A e \in Entries' : \/ e \in Entries /\ entry'[e] = entry[e]
                            \/ e[2] \in request[r].debtors /\ entry'[e] = NewEntry(request[r], e[2])
    BY <2>1, <2>3, Typed
  <2>5. SettledByBoth' /\ Sides'
    BY <2>2, <2>4, NewEntryFields
  <2>6. PayersAskOthers'
    <3>1. request' = Outdated(r)
      BY <1>2, AddedSplit
    <3> QED BY <3>1, Typed, OutdatedRequests
  <2> QED BY <2>5, <2>6
<1>3. ASSUME NEW e \in Entries, NudgeEntry(e)
      PROVE  SettleInv'
  <2>1. entry[e] \in EntryType /\ entry \in [Row -> EntryType \cup {NoEntry}] /\ e \in Row
    BY Typed
  <2>2. /\ entry'[e].status = "nudged" /\ entry'[e].claimedBy = entry[e].claimedBy
        /\ entry'[e].agreed = entry[e].agreed
    BY <1>3, <2>1 DEF NudgeEntry, EntryType
  <2>3. SettledByBoth' /\ Sides'
    BY <1>3, <2>2, Touched
  <2> QED BY <1>3, <2>3, Touched
<1>4. ASSUME NEW e \in Entries, NEW p \in Accounts, ProposeOrConfirmSettle(e, p)
      PROVE  SettleInv'
  <2>1. entry[e] \in EntryType /\ entry \in [Row -> EntryType \cup {NoEntry}] /\ e \in Row
    BY Typed
  <2>2. /\ entry'[e].status = IF ClaimedByOther(e, p) THEN "settled" ELSE entry[e].status
        /\ entry'[e].claimedBy = p /\ entry'[e].agreed = entry[e].agreed \cup {p}
        /\ p \in {entry[e].payer, entry[e].debtor} /\ entry[e].status # "settled"
    BY <1>4, <2>1 DEF ProposeOrConfirmSettle, EntryType
  <2>3. /\ Entries' = Entries /\ \A f \in Entries : f # e => entry'[f] = entry[f]
        /\ entry'[e].payer = entry[e].payer /\ entry'[e].debtor = entry[e].debtor
        /\ request' = request
    BY <1>4, Touched
  <2>4. Sides'
    BY <2>2, <2>3
  <2>5. entry'[e].status = "settled" => {entry'[e].payer, entry'[e].debtor} \subseteq entry'[e].agreed
    BY <2>2, <2>3 DEF ClaimedByOther
  <2>6. SettledByBoth'
    BY <2>3, <2>5
  <2> QED BY <2>3, <2>4, <2>6
<1>5. ASSUME NEW g \in Guests, NEW a \in Accounts, MergeGuest(g, a)
      PROVE  SettleInv'
  <2>1. \A e \in Entries' : e \in Entries /\ entry[e].agreed \subseteq Accounts /\ g \notin entry[e].agreed
    BY <1>5, Merged, TabAssumption DEF EntryType
  <2>2. \A e \in Entries' :
          /\ entry'[e].payer # entry'[e].debtor
          /\ entry'[e].claimedBy # None =>
               entry'[e].claimedBy \in {entry'[e].payer, entry'[e].debtor} /\ entry'[e].claimedBy \in entry'[e].agreed
    BY <1>5, <2>1, Merged
  <2>3. \A e \in Entries' :
          entry'[e].status = "settled" => {entry'[e].payer, entry'[e].debtor} \subseteq entry'[e].agreed
    BY <1>5, <2>1, Merged
  <2>4. PayersAskOthers'
    <3>1. request' = Outdated(None)
      BY <1>5, Merged
    <3> QED BY <3>1, Typed, OutdatedRequests
  <2> QED BY <2>2, <2>3, <2>4
<1>6. CASE UNCHANGED vars
  BY <1>6 DEF vars, Entries
<1> QED BY <1>1, <1>2, <1>3, <1>4, <1>5, <1>6 DEF Next

LEMMA SettleHolds == Spec => []SettleInv
<1>1. Init => SettleInv
  BY DEF Init, SettleInv, SettledByBoth, Sides, PayersAskOthers, Entries, NoEntry
<1>2. TypeOK /\ SettleInv /\ [Next]_vars => SettleInv'
  BY SettleStep
<1> QED BY <1>1, <1>2, TypeCorrect, PTL DEF Spec

\* A debt is settled only when both of its sides have said so, whatever nudges,
\* repeated taps and merges come between (proposeOrConfirmSettle).
THEOREM SettlementNeedsBoth == Spec => []SettledByBoth
<1>1. SettleInv => SettledByBoth
  BY DEF SettleInv
<1> QED BY <1>1, SettleHolds, PTL

-------------------------------------------------------------------------------
(* Merges. *)

\* An identity is itself or has merged into an account, which is itself.
Identities == \A p \in People : who[p] = p \/ (p \in Guests /\ who[p] \in Accounts)
FreshRequestsFollow ==
  \A r \in Requests :
    request[r] # NoRequest /\ ~request[r].stale => \A d \in request[r].debtors : who[d] = d

MergeInv == DebtsFollowMerges /\ Identities /\ FreshRequestsFollow

LEMMA MergeInvStep ==
  ASSUME TypeOK, MergeInv, [Next]_vars
  PROVE  MergeInv'
<1> USE DEF MergeInv, DebtsFollowMerges, Identities, FreshRequestsFollow
<1>1. ASSUME NEW r \in Requests,
             (\E s \in Sessions : CheckSessionSplit(r, s)) \/ (\E bill \in Bills : CheckSplit(r, bill))
      PROVE  MergeInv'
  <2>1. PICK s \in Sessions \cup {None}, payer \in Accounts, D \in SUBSET People :
          Ask(r, s, payer, D) /\ D \subseteq Confirmed
    BY <1>1, Asking
  <2>2. \A d \in Confirmed : who[d] = d
    BY TabAssumption DEF Confirmed, People
  <2>3. UNCHANGED <<who, entry>> /\ Entries' = Entries
    BY <2>1 DEF Ask, Entries
  <2>4. FreshRequestsFollow'
    BY <2>1, <2>2, <2>3, Typed DEF Ask
  <2> QED BY <2>3, <2>4
<1>2. ASSUME NEW r \in Requests, AddSplitEntry(r)
      PROVE  MergeInv'
  <2>1. PICK n \in Splits : \A e \in Row :
          entry'[e] = IF e[1] = n /\ e[2] \in request[r].debtors
                      THEN NewEntry(request[r], e[2]) ELSE entry[e]
    BY <1>2, AddedSplit
  <2>2. /\ request[r] # NoRequest /\ who' = who /\ request' = Outdated(r)
        /\ Entries' = {e \in Row : entry'[e] # NoEntry}
    BY <1>2, AddedSplit, TypedNext DEF AddSplitEntry, Next
  <2>3. \A e \in Entries' : \/ e \in Entries /\ entry'[e] = entry[e]
                            \/ e[2] \in request[r].debtors /\ entry'[e] = NewEntry(request[r], e[2])
    BY <2>1, <2>2, Typed
  <2>4. DebtsFollowMerges'
    BY <2>2, <2>3, NewEntryFields
  <2>5. FreshRequestsFollow'
    BY <2>2, Typed, OutdatedRequests
  <2> QED BY <2>2, <2>4, <2>5
<1>3. ASSUME NEW e \in Entries,
             NudgeEntry(e) \/ \E p \in Accounts : ProposeOrConfirmSettle(e, p)
      PROVE  MergeInv'
  <2>1. \A f \in Entries' : /\ f \in Entries /\ entry'[f].debtor = entry[f].debtor
                            /\ entry'[f].raced = entry[f].raced
    BY <1>3, Touched
  <2> QED BY <1>3, <2>1, Touched
<1>4. ASSUME NEW g \in Guests, NEW a \in Accounts, MergeGuest(g, a)
      PROVE  MergeInv'
  <2>1. /\ who' = [who EXCEPT ![g] = a] /\ request' = Outdated(None)
        /\ who \in [People -> People] /\ g \in People /\ a \in People
    BY <1>4, Merged, Typed DEF People
  <2>2. a # g /\ who[a] = a
    BY TabAssumption DEF People
  <2>3. Identities'
    BY <2>1, <2>2
  <2>4. FreshRequestsFollow'
    BY <2>1, Typed, OutdatedRequests
  <2>5. ASSUME NEW e \in Entries', ~entry'[e].raced
        PROVE  who'[entry'[e].debtor] = entry'[e].debtor
    <3>1. /\ e \in Entries /\ ~entry[e].raced /\ entry[e].debtor \in People
          /\ entry'[e].debtor = IF entry[e].debtor = g THEN a ELSE entry[e].debtor
      BY <1>4, <2>5, Merged DEF EntryType
    <3>2. who[entry[e].debtor] = entry[e].debtor
      BY <3>1
    <3> QED BY <2>1, <2>2, <3>1, <3>2
  <2> QED BY <2>3, <2>4, <2>5
<1>5. CASE UNCHANGED vars
  BY <1>5 DEF vars, Entries
<1> QED BY <1>1, <1>2, <1>3, <1>4, <1>5 DEF Next

\* No debt is left with a merged guest, unless the merge committed between a
\* split's checks and its insert (reattributeGuestData, addSplitEntry).
THEOREM DebtsMoveWithTheirDebtor == Spec => []DebtsFollowMerges
<1>1. Init => MergeInv
  <2> SUFFICES ASSUME Init
               PROVE  MergeInv
      OBVIOUS
  <2>1. Entries = {}
    <3>1. entry = [e \in Splits \X People |-> NoEntry] /\ NoEntry.status = "none"
      BY DEF Init, NoEntry
    <3> QED BY <3>1 DEF Entries
  <2>2. Identities
    <3>1. who = [p \in People |-> p]
      BY DEF Init
    <3> QED BY <3>1 DEF Identities
  <2>3. \A r \in Requests : request[r] = NoRequest
    BY DEF Init
  <2> QED BY <2>1, <2>2, <2>3 DEF FreshRequestsFollow, MergeInv, DebtsFollowMerges
<1>2. TypeOK /\ MergeInv /\ [Next]_vars => MergeInv'
  BY MergeInvStep
<1>3. MergeInv => DebtsFollowMerges
  BY DEF MergeInv
<1> QED BY <1>1, <1>2, <1>3, TypeCorrect, PTL DEF Spec

-------------------------------------------------------------------------------
(* One split per session. *)

\* Splits are taken in order, and only they have entries.
SplitsInOrder ==
  /\ \A n, m \in Splits : split[n] = "free" /\ n < m => split[m] = "free"
  /\ \A e \in Entries : split[e[1]] # "free"
FreshRequestsAreFirst ==
  \A r \in Requests :
    request[r] # NoRequest /\ ~request[r].stale /\ request[r].session # None
      => ~OnTheTab(request[r].session)

OnceInv == OnlyRacedSplitsRepeat /\ SplitsInOrder /\ FreshRequestsAreFirst

LEMMA OnceStep ==
  ASSUME TypeOK, OnceInv, [Next]_vars
  PROVE  OnceInv'
<1> USE DEF OnceInv, OnlyRacedSplitsRepeat, SplitsInOrder, FreshRequestsAreFirst
<1>1. ASSUME NEW r \in Requests,
             (\E s \in Sessions : CheckSessionSplit(r, s)) \/ (\E bill \in Bills : CheckSplit(r, bill))
      PROVE  OnceInv'
  <2>1. PICK s \in Sessions \cup {None}, payer \in Accounts, D \in SUBSET People :
          Ask(r, s, payer, D) /\ (s # None => ~OnTheTab(s))
    BY <1>1, Asking
  <2>2. UNCHANGED <<split, entry>> /\ Entries' = Entries
    BY <2>1 DEF Ask, Entries
  <2>3. \A q \in Requests : request'[q] = request[q] \/ (q = r /\ request'[q].session = s)
    BY <2>1, Typed DEF Ask
  <2>4. FreshRequestsAreFirst'
    BY <2>1, <2>2, <2>3 DEF OnTheTab
  <2> QED BY <2>2, <2>4
<1>2. ASSUME NEW r \in Requests, AddSplitEntry(r)
      PROVE  OnceInv'
  <2>1. PICK n \in Splits :
          /\ split[n] = "free" /\ \A m \in Splits : m < n => split[m] # "free"
          /\ split' = [split EXCEPT ![n] = request[r].session]
          /\ \A e \in Row :
               entry'[e] = IF e[1] = n /\ e[2] \in request[r].debtors
                           THEN NewEntry(request[r], e[2]) ELSE entry[e]
    BY <1>2, AddedSplit
  <2>2. /\ request[r] # NoRequest /\ request' = Outdated(r)
        /\ request[r].session \in Sessions \cup {None}
        /\ Entries' = {e \in Row : entry'[e] # NoEntry}
    BY <1>2, AddedSplit, TypedNext DEF AddSplitEntry, Next, Request
  <2>3. \A m \in Splits : split'[m] = IF m = n THEN request[r].session ELSE split[m]
    BY <2>1, Typed
  <2>4. \A e \in Row : e[1] \in Splits
    BY DEF Row
  <2>5. ASSUME NEW e \in Entries'
        PROVE  /\ e \in Row
               /\ \/ e[1] # n /\ e \in Entries /\ entry'[e] = entry[e] /\ e[1] < n
                  \/ e[1] = n /\ entry'[e] = NewEntry(request[r], e[2])
    <3>1. CASE e[1] # n
      <4>1. e \in Entries /\ entry'[e] = entry[e]
        BY <2>1, <2>2, <3>1, Typed
      <4>2. ~(n < e[1])
        BY <2>1, <2>2, <2>4, <4>1
      <4> QED BY <2>2, <2>4, <3>1, <4>1, <4>2, TabAssumption DEF Splits
    <3>2. CASE e[1] = n
      <4>1. e \notin Entries
        BY <2>1, <3>2
      <4> QED BY <2>1, <2>2, <3>2, <4>1, Typed
    <3> QED BY <3>1, <3>2
  <2>6. ASSUME NEW e \in Entries', NEW f \in Entries',
               e[1] < f[1], split'[e[1]] = split'[f[1]], split'[e[1]] # None
        PROVE  entry'[f].raced
    <3>1. e[1] # n /\ e \in Entries /\ e[1] \in Splits
      <4>1. e[1] \in Splits /\ f[1] \in Splits
        BY <2>4, <2>5
      <4> QED BY <2>5, <2>6, <4>1, TabAssumption DEF Splits
    <3>2. CASE f[1] = n
      <4>1. split[e[1]] = request[r].session /\ request[r].session # None
        BY <2>3, <2>6, <3>1, <3>2
      <4>2. OnTheTab(request[r].session)
        BY <3>1, <4>1 DEF OnTheTab
      <4>3. request[r].stale
        BY <2>2, <4>1, <4>2
      <4> QED BY <2>5, <3>2, <4>3, NewEntryFields
    <3>3. CASE f[1] # n
      <4>1. f \in Entries /\ entry'[f] = entry[f] /\ f[1] \in Splits
        BY <2>4, <2>5, <3>3
      <4> QED BY <2>3, <2>6, <3>1, <3>3, <4>1
    <3> QED BY <3>2, <3>3
  <2>7. SplitsInOrder'
    <3>1. ASSUME NEW k \in Splits, NEW m \in Splits, split'[k] = "free", k < m
          PROVE  split'[m] = "free"
      <4>1. k # n /\ split[k] = "free"
        BY <2>2, <2>3, <3>1, TabAssumption
      <4>2. ~(k < n)
        BY <2>1, <4>1
      <4>3. m # n /\ split[m] = "free"
        BY <3>1, <4>1, <4>2
      <4> QED BY <2>3, <4>3
    <3>2. \A e \in Entries' : split'[e[1]] # "free"
      BY <2>2, <2>3, <2>4, <2>5, TabAssumption
    <3> QED BY <3>1, <3>2
  <2>8. FreshRequestsAreFirst'
    BY <2>2, Typed, OutdatedRequests
  <2> QED BY <2>6, <2>7, <2>8
<1>3. ASSUME NEW e \in Entries,
             NudgeEntry(e) \/ \E p \in Accounts : ProposeOrConfirmSettle(e, p)
      PROVE  OnceInv'
  <2>1. UNCHANGED <<split, request>> /\ Entries' = Entries
    BY <1>3, Touched
  <2>2. \A f \in Entries : entry'[f].raced = entry[f].raced
    BY <1>3, Touched
  <2>3. FreshRequestsAreFirst'
    BY <2>1 DEF OnTheTab
  <2> QED BY <2>1, <2>2, <2>3
<1>4. ASSUME NEW g \in Guests, NEW a \in Accounts, MergeGuest(g, a)
      PROVE  OnceInv'
  <2>1. /\ split' = split /\ request' = Outdated(None) /\ Entries' \subseteq Entries
        /\ \A e \in Entries' : entry'[e].raced = entry[e].raced
    BY <1>4, Merged
  <2>2. FreshRequestsAreFirst'
    BY <2>1, Typed, OutdatedRequests
  <2> QED BY <2>1, <2>2
<1>5. CASE UNCHANGED vars
  BY <1>5 DEF vars, Entries, OnTheTab
<1> QED BY <1>1, <1>2, <1>3, <1>4, <1>5 DEF Next

\* A session goes on the Tab once, unless two requests had both checked before
\* either inserted (hasTabSplitForSession, createTabSplitForSession).
THEOREM SplitsRepeatOnlyRaced == Spec => []OnlyRacedSplitsRepeat
<1>1. Init => OnceInv
  BY DEF Init, OnceInv, OnlyRacedSplitsRepeat, SplitsInOrder, FreshRequestsAreFirst, Entries, NoEntry
<1>2. TypeOK /\ OnceInv /\ [Next]_vars => OnceInv'
  BY OnceStep
<1>3. OnceInv => OnlyRacedSplitsRepeat
  BY DEF OnceInv
<1> QED BY <1>1, <1>2, <1>3, TypeCorrect, PTL DEF Spec

-------------------------------------------------------------------------------
(* Sums over finite sets. *)

Pick(s) == CHOOSE x \in s : TRUE

\* The sums of fun over the subsets of S, as SumFunction recurs through them.
SumsUp(g, fun, S) ==
  g = [s \in SUBSET S |-> IF s = {} THEN 0 ELSE fun[Pick(s)] + g[s \ {Pick(s)}]]
Partial(fun, S) == CHOOSE g : SumsUp(g, fun, S)

LEMMA SumIsPartial ==
  ASSUME NEW fun
  PROVE  SumFunction(fun) = Partial(fun, DOMAIN fun)[DOMAIN fun]
BY DEF SumFunction, SumFunctionOnSet, FoldFunctionOnSet, MapThenFoldSet, Partial, SumsUp, Pick

\* A set of numbers that has 0 and the successor of each of its members has them all.
LEMMA SetOfNaturals ==
  ASSUME NEW G, 0 \in G, \A n \in Nat : n \in G => n + 1 \in G
  PROVE  \A n \in Nat : n \in G
<1> SUFFICES ASSUME NEW k \in Nat \ G
             PROVE  FALSE
    OBVIOUS
<1>1. PICK n \in Nat \ G : \A y \in Nat \ G : <<y, n>> \notin OpToRel(<, Nat)
  BY NatLessThanWellFounded, WFMin
<1>2. n - 1 \in Nat /\ n - 1 < n
  <2>1. n \in Nat /\ n # 0
    BY <1>1
  <2> QED BY <2>1
<1>3. n - 1 \notin G
  BY <1>2
<1>4. <<n - 1, n>> \in OpToRel(<, Nat)
  BY <1>1, <1>2 DEF OpToRel
<1> QED BY <1>1, <1>2, <1>3, <1>4

\* The same for a set of subsets of a finite set that are built one pick at a time.
LEMMA SetOfSubsets ==
  ASSUME NEW S, IsFiniteSet(S), NEW G, {} \in G,
         \A s \in SUBSET S : s # {} /\ s \ {Pick(s)} \in G => s \in G
  PROVE  \A s \in SUBSET S : s \in G
<1> SUFFICES ASSUME NEW k \in (SUBSET S) \ G
             PROVE  FALSE
    OBVIOUS
<1> DEFINE R == StrictSubsetOrdering(S)
<1>1. IsWellFoundedOn(R, SUBSET S)
  <2>1. FiniteSubsetsOf(S) = SUBSET S
    BY FS_FiniteSubsetsOfFinite, Zenon
  <2>2. IsWellFoundedOn(StrictSubsetOrdering(S), FiniteSubsetsOf(S))
    BY FS_StrictSubsetOrderingWellFounded, Zenon
  <2> QED BY <2>1, <2>2, Zenon
<1>2. PICK s \in (SUBSET S) \ G : \A y \in (SUBSET S) \ G : <<y, s>> \notin R
  <2> DEFINE T == (SUBSET S) \ G
  <2>1. T \subseteq SUBSET S /\ T # {}
    OBVIOUS
  <2> HIDE DEF R, T
  <2>2. \E s \in T : \A y \in T : <<y, s>> \notin R
    BY <1>1, <2>1, WFMin
  <2> QED BY <2>2 DEF T
<1>3. s # {} /\ Pick(s) \in s
  BY <1>2 DEF Pick
<1>4. s \ {Pick(s)} \in (SUBSET S) \ G
  BY <1>2, <1>3
<1>5. <<s \ {Pick(s)}, s>> \in R
  BY <1>3 DEF StrictSubsetOrdering
<1> QED BY <1>2, <1>4, <1>5

\* The recursion has a solution: by the size of the subsets.
LEMMA SumsExist ==
  ASSUME NEW S, IsFiniteSet(S), NEW fun \in [S -> Int]
  PROVE  /\ SumsUp(Partial(fun, S), fun, S)
         /\ Partial(fun, S) \in [SUBSET S -> Int]
<1> DEFINE Small(n) == {s \in SUBSET S : Cardinality(s) =< n}
           Body(g, s) == IF s = {} THEN 0 ELSE fun[Pick(s)] + g[s \ {Pick(s)}]
           G == {n \in Nat : \E g \in [Small(n) -> Int] : \A s \in Small(n) : g[s] = Body(g, s)}
<1>1. \A s \in SUBSET S : IsFiniteSet(s) /\ Cardinality(s) \in Nat /\ Cardinality(s) =< Cardinality(S)
  BY FS_Subset, FS_CardinalityType
<1>2. \A s \in SUBSET S : s # {} =>
        /\ Pick(s) \in s /\ s \ {Pick(s)} \in SUBSET S
        /\ Cardinality(s \ {Pick(s)}) = Cardinality(s) - 1
  BY <1>1, FS_RemoveElement DEF Pick
<1>3. 0 \in G
  <2>1. \A s \in Small(0) : s = {}
    BY <1>1, FS_EmptySet
  <2>2. [s \in Small(0) |-> 0] \in [Small(0) -> Int]
    OBVIOUS
  <2> QED BY <2>1, <2>2
<1>4. ASSUME NEW n \in Nat, n \in G
      PROVE  n + 1 \in G
  <2>1. PICK g \in [Small(n) -> Int] : \A s \in Small(n) : g[s] = Body(g, s)
    BY <1>4
  <2> DEFINE h == [s \in Small(n + 1) |-> Body(g, s)]
  <2>2. \A s \in Small(n + 1) : s # {} => s \ {Pick(s)} \in Small(n)
    BY <1>1, <1>2
  <2>3. \A s \in Small(n + 1) : s # {} => Body(g, s) \in Int
    BY <1>2, <2>2
  <2>4. h \in [Small(n + 1) -> Int]
    BY <2>3
  <2>5. \A s \in Small(n) : s \in Small(n + 1) /\ h[s] = g[s]
    BY <1>1, <2>1
  <2>6. \A s \in Small(n + 1) : h[s] = Body(h, s)
    <3> SUFFICES ASSUME NEW s \in Small(n + 1)
                 PROVE  h[s] = Body(h, s)
        OBVIOUS
    <3>1. CASE s = {}
      BY <3>1
    <3>2. CASE s # {}
      BY <3>2, <2>2, <2>5
    <3> QED BY <3>1, <3>2
  <2>7. \E k \in [Small(n + 1) -> Int] : \A s \in Small(n + 1) : k[s] = Body(k, s)
    <3> HIDE DEF h, Small, Body
    <3> QED BY <2>4, <2>6
  <2> HIDE DEF h, Small, Body
  <2>8. n + 1 \in Nat
    OBVIOUS
  <2> QED BY <2>7, <2>8 DEF G
<1>5. Cardinality(S) \in G
  <2> HIDE DEF G
  <2> QED BY <1>3, <1>4, SetOfNaturals, FS_CardinalityType
<1>6. PICK g \in [SUBSET S -> Int] : \A s \in SUBSET S : g[s] = Body(g, s)
  <2>1. Small(Cardinality(S)) = SUBSET S
    BY <1>1
  <2> QED BY <1>5, <2>1
<1>7. SumsUp(g, fun, S)
  BY <1>6 DEF SumsUp
<1>8. SumsUp(Partial(fun, S), fun, S)
  BY <1>7 DEF Partial
<1> DEFINE p == Partial(fun, S)
<1>9. \A s \in SUBSET S : p[s] = Body(p, s)
  BY <1>8 DEF SumsUp
<1>10. \A s \in SUBSET S : p[s] \in Int
  <2> DEFINE H == {s \in SUBSET S : p[s] \in Int}
  <2> HIDE DEF p
  <2>1. p[{}] = 0 /\ {} \in SUBSET S
    BY <1>9
  <2>2. ASSUME NEW s \in SUBSET S, s # {}, s \ {Pick(s)} \in H
        PROVE  s \in H
    <3>1. fun[Pick(s)] \in Int /\ p[s \ {Pick(s)}] \in Int
      BY <1>2, <2>2
    <3>2. p[s] = fun[Pick(s)] + p[s \ {Pick(s)}]
      BY <1>9, <2>2
    <3> QED BY <3>1, <3>2
  <2>3. \A s \in SUBSET S : s \in H
    <3> HIDE DEF H
    <3>1. {} \in H
      BY <2>1 DEF H
    <3> QED BY <3>1, <2>2, SetOfSubsets
  <2> QED BY <2>3
<1>11. p = [s \in SUBSET S |-> p[s]]
  BY <1>8 DEF SumsUp
<1> QED BY <1>8, <1>10, <1>11

\* What the other proofs use of it.
LEMMA PartialSums ==
  ASSUME NEW S, IsFiniteSet(S), NEW fun \in [S -> Int]
  PROVE  /\ SumFunction(fun) = Partial(fun, S)[S]
         /\ \A s \in SUBSET S : Partial(fun, S)[s] \in Int
         /\ Partial(fun, S)[{}] = 0
<1> DEFINE p == Partial(fun, S)
<1>1. SumFunction(fun) = p[S]
  BY SumIsPartial
<1>2. SumsUp(p, fun, S) /\ p \in [SUBSET S -> Int]
  BY SumsExist
<1> HIDE DEF p
<1>3. p[{}] = 0
  BY <1>2 DEF SumsUp
<1> QED BY <1>1, <1>2, <1>3 DEF p

\* The sum over s is the picked term and the sum over the others.
PicksOne(fun, S, s) ==
  /\ Pick(s) \in s /\ Pick(s) \in S /\ s \ {Pick(s)} \in SUBSET S
  /\ fun[Pick(s)] \in Int /\ Partial(fun, S)[s \ {Pick(s)}] \in Int
  /\ Partial(fun, S)[s] = fun[Pick(s)] + Partial(fun, S)[s \ {Pick(s)}]

LEMMA PartialStep ==
  ASSUME NEW S, IsFiniteSet(S), NEW fun \in [S -> Int], NEW s \in SUBSET S, s # {}
  PROVE  PicksOne(fun, S, s)
<1>1. Pick(s) \in s
  BY DEF Pick
<1>2. Partial(fun, S)[s \ {Pick(s)}] \in Int
  BY PartialSums
<1>3. SumsUp(Partial(fun, S), fun, S)
  BY SumsExist
<1>4. Partial(fun, S)[s] = fun[Pick(s)] + Partial(fun, S)[s \ {Pick(s)}]
  BY <1>3 DEF SumsUp
<1> QED BY <1>1, <1>2, <1>4 DEF PicksOne

\* The terms with the opposite sign sum to the opposite.
LEMMA OppositeSum ==
  ASSUME NEW S, IsFiniteSet(S), NEW f \in [S -> Int], NEW g \in [S -> Int],
         \A x \in S : g[x] = -f[x]
  PROVE  SumFunction(f) \in Int /\ SumFunction(g) = -SumFunction(f)
<1> DEFINE G == {s \in SUBSET S : Partial(g, S)[s] = -Partial(f, S)[s]}
<1>1. {} \in G
  BY PartialSums
<1>2. ASSUME NEW s \in SUBSET S, s # {}, s \ {Pick(s)} \in G
      PROVE  s \in G
  <2>1. PicksOne(f, S, s) /\ PicksOne(g, S, s)
    BY <1>2, PartialStep
  <2>2. Pick(s) \in S /\ g[Pick(s)] = -f[Pick(s)]
    BY <2>1 DEF PicksOne
  <2> QED BY <1>2, <2>1, <2>2 DEF PicksOne
<1>3. S \in G
  <2> HIDE DEF G
  <2> QED BY <1>1, <1>2, SetOfSubsets
<1> QED BY <1>3, PartialSums

\* Sums add term by term.
TermsAdd(h, f, g, S) == \A x \in S : h[x] = f[x] + g[x]

LEMMA SumOfSums ==
  ASSUME NEW S, IsFiniteSet(S), NEW f \in [S -> Int], NEW g \in [S -> Int], NEW h \in [S -> Int],
         TermsAdd(h, f, g, S)
  PROVE  SumFunction(h) = SumFunction(f) + SumFunction(g)
<1> DEFINE G == {s \in SUBSET S : Partial(h, S)[s] = Partial(f, S)[s] + Partial(g, S)[s]}
<1>1. {} \in G
  BY PartialSums
<1>2. ASSUME NEW s \in SUBSET S, s # {}, s \ {Pick(s)} \in G
      PROVE  s \in G
  <2>1. PicksOne(f, S, s) /\ PicksOne(g, S, s) /\ PicksOne(h, S, s)
    BY <1>2, PartialStep
  <2>2. Pick(s) \in S /\ h[Pick(s)] = f[Pick(s)] + g[Pick(s)]
    BY <2>1 DEF PicksOne, TermsAdd
  <2> QED BY <1>2, <2>1, <2>2 DEF PicksOne
<1>3. S \in G
  <2> HIDE DEF G
  <2> QED BY <1>1, <1>2, SetOfSubsets
<1> QED BY <1>3, PartialSums

\* A sum with at most one term that is not 0 is that term.
LEMMA SumOfOne ==
  ASSUME NEW S, IsFiniteSet(S), NEW q \in S, NEW f \in [S -> Int],
         \A x \in S : x # q => f[x] = 0
  PROVE  SumFunction(f) = f[q]
<1> DEFINE G == {s \in SUBSET S : Partial(f, S)[s] = IF q \in s THEN f[q] ELSE 0}
<1>1. {} \in G
  BY PartialSums
<1>2. ASSUME NEW s \in SUBSET S, s # {}, s \ {Pick(s)} \in G
      PROVE  s \in G
  <2>1. PicksOne(f, S, s)
    BY <1>2, PartialStep
  <2>2. f[q] \in Int
    OBVIOUS
  <2>3. CASE Pick(s) = q
    BY <1>2, <2>1, <2>2, <2>3 DEF PicksOne
  <2>4. CASE Pick(s) # q
    BY <1>2, <2>1, <2>2, <2>4 DEF PicksOne
  <2> QED BY <2>3, <2>4
<1>3. S \in G
  <2> HIDE DEF G
  <2> QED BY <1>1, <1>2, SetOfSubsets
<1> QED BY <1>3, PartialSums

\* Rows and columns sum to the same: c[y] has the terms of column y, r sums each row.
LEMMA SumByColumns ==
  ASSUME NEW S, IsFiniteSet(S), NEW T, IsFiniteSet(T),
         NEW c \in [T -> [S -> Int]], NEW r \in [S -> Int],
         \A x \in S : r[x] = SumFunction([y \in T |-> c[y][x]])
  PROVE  SumFunction(r) = SumFunction([y \in T |-> SumFunction(c[y])])
<1> DEFINE P(s) == [y \in T |-> Partial(c[y], S)[s]]
           G == {s \in SUBSET S : Partial(r, S)[s] = SumFunction(P(s))}
<1>1. ASSUME NEW y \in T
      PROVE  /\ c[y] \in [S -> Int] /\ SumFunction(c[y]) = Partial(c[y], S)[S]
             /\ Partial(c[y], S)[{}] = 0
             /\ \A s \in SUBSET S : Partial(c[y], S)[s] \in Int
  <2>1. c[y] \in [S -> Int]
    BY <1>1
  <2> QED BY <2>1, PartialSums
<1>2. \A s \in SUBSET S : P(s) \in [T -> Int]
  BY <1>1
<1>3. {} \in G
  <2> DEFINE zero == [y \in T |-> 0]
  <2>1. P({}) = zero
    BY <1>1
  <2>2. zero \in [T -> Int] /\ \A y \in T : zero[y] = 0
    OBVIOUS
  <2> HIDE DEF zero
  <2>3. SumFunction(zero) \in Int /\ SumFunction(zero) = -SumFunction(zero)
    BY <2>2, OppositeSum
  <2>4. SumFunction(zero) = 0
    BY <2>3
  <2>5. SumFunction(P({})) = 0
    BY <2>1, <2>4
  <2> QED BY <2>5, PartialSums
<1>4. ASSUME NEW s \in SUBSET S, s # {}, s \ {Pick(s)} \in G
      PROVE  s \in G
  <2> DEFINE x == Pick(s)
             less == s \ {Pick(s)}
             row == [y \in T |-> c[y][x]]
             after == P(s)
             before == P(less)
  <2>1. /\ Partial(r, S)[s] = r[x] + Partial(r, S)[less]
        /\ x \in S /\ less \in SUBSET S
    BY <1>4, PartialStep DEF PicksOne
  <2>2. row \in [T -> Int] /\ r[x] = SumFunction(row)
    BY <2>1
  <2>3. ASSUME NEW y \in T
        PROVE  after[y] = row[y] + before[y]
    <3>1. Partial(c[y], S)[s] = c[y][x] + Partial(c[y], S)[less]
      BY <1>1, <1>4, PartialStep DEF PicksOne
    <3> QED BY <3>1
  <2>4. after \in [T -> Int] /\ before \in [T -> Int]
    BY <1>2, <2>1
  <2>5. SumFunction(after) = SumFunction(row) + SumFunction(before)
    <3> HIDE DEF after, before, row, G, P, x, less
    <3>1. TermsAdd(after, row, before, T)
      BY <2>3 DEF TermsAdd
    <3> QED BY <2>2, <2>4, <3>1, SumOfSums
  <2> QED BY <1>4, <2>1, <2>2, <2>5
<1>5. S \in G
  <2> HIDE DEF G
  <2> QED BY <1>3, <1>4, SetOfSubsets
<1>6. P(S) = [y \in T |-> SumFunction(c[y])]
  BY <1>1
<1> QED BY <1>5, <1>6, PartialSums

-------------------------------------------------------------------------------
(* The balances. *)

LEMMA EntryTerms ==
  ASSUME TypeOK
  PROVE  /\ IsFiniteSet(Unsettled)
         /\ \A u \in People : OwedTo(u) \in [Unsettled -> Int]
         /\ \A u, v \in People : OwedBy(u, v) \in [Unsettled -> Int]
         /\ \A e \in Unsettled :
              e \in Entries /\ {entry[e].payer, entry[e].debtor} \subseteq People /\ entry[e].amount \in Nat
<1>1. IsFiniteSet(Splits) /\ IsFiniteSet(People)
  BY TabAssumption, FS_Interval DEF Splits
<1>2. IsFiniteSet(Unsettled)
  BY <1>1, FS_Product, FS_Subset DEF Unsettled, Entries
<1>3. ASSUME NEW e \in Unsettled
      PROVE  /\ e \in Entries /\ {entry[e].payer, entry[e].debtor} \subseteq People
             /\ entry[e].amount \in Nat
  <2>1. e \in Splits \X People /\ entry[e] \in EntryType
    BY DEF Unsettled, Entries, TypeOK, NoEntry
  <2> QED BY <2>1 DEF EntryType, Unsettled
<1>4. \A u \in People : OwedTo(u) \in [Unsettled -> Int]
  BY <1>3 DEF OwedTo
<1>5. \A u, v \in People : OwedBy(u, v) \in [Unsettled -> Int]
  BY <1>3 DEF OwedBy
<1> QED BY <1>2, <1>3, <1>4, <1>5

\* Two people's pages show the same debt, and each balance column adds up to the
\* net position above it (computeCounterpartyBalances, computeMemberNetPositions),
\* for any number of splits and people.
THEOREM EveryPageAddsUp == Spec => []PagesAgree
<1>1. ASSUME TypeOK, SettleInv, NEW u \in People, NEW v \in People
      PROVE  Balance(u, v) \in Int /\ Balance(v, u) \in Int /\ Balance(u, v) = -Balance(v, u)
  <2>1. \A e \in Unsettled : OwedBy(u, v)[e] = -OwedBy(v, u)[e]
    BY <1>1, EntryTerms DEF OwedBy, SettleInv, Sides
  <2> DEFINE f == OwedBy(v, u)
             g == OwedBy(u, v)
  <2>2. f \in [Unsettled -> Int] /\ g \in [Unsettled -> Int] /\ IsFiniteSet(Unsettled)
    BY <1>1, EntryTerms
  <2>3. \A e \in Unsettled : g[e] = -f[e]
    BY <2>1
  <2> HIDE DEF f, g
  <2>4. SumFunction(f) \in Int /\ SumFunction(g) = -SumFunction(f)
    BY <2>2, <2>3, OppositeSum
  <2> QED BY <2>4 DEF f, g, Balance
<1>2. ASSUME TypeOK, SettleInv, NEW u \in People, NEW e \in Unsettled
      PROVE  OwedTo(u)[e] = SumFunction([v \in People |-> OwedBy(u, v)[e]])
  <2> DEFINE other == IF entry[e].payer = u THEN entry[e].debtor ELSE entry[e].payer
             column == [v \in People |-> OwedBy(u, v)[e]]
  <2>1. entry[e].payer \in People /\ entry[e].debtor \in People /\ entry[e].amount \in Nat
    BY <1>2, EntryTerms
  <2>2. entry[e].payer # entry[e].debtor
    BY <1>2, EntryTerms DEF SettleInv, Sides
  <2>3. other \in People /\ column \in [People -> Int] /\ IsFiniteSet(People)
    BY <1>2, <2>1, EntryTerms, TabAssumption
  <2>4. column[other] = OwedTo(u)[e]
    BY <2>1, <2>2 DEF OwedBy, OwedTo
  <2>5. \A v \in People : v # other => column[v] = 0
    BY <2>1, <2>2 DEF OwedBy
  <2> HIDE DEF other, column
  <2>6. SumFunction(column) = column[other]
    BY <2>3, <2>5, SumOfOne
  <2> QED BY <2>4, <2>6 DEF column
<1>3. ASSUME TypeOK, SettleInv, NEW u \in People
      PROVE  NetPosition(u) = SumFunction([v \in People |-> Balance(u, v)])
  <2> DEFINE c == [v \in People |-> OwedBy(u, v)]
             r == OwedTo(u)
  <2>1. /\ c \in [People -> [Unsettled -> Int]] /\ r \in [Unsettled -> Int]
        /\ IsFiniteSet(Unsettled) /\ IsFiniteSet(People)
    BY <1>3, EntryTerms, TabAssumption
  <2>2. ASSUME NEW e \in Unsettled
        PROVE  r[e] = SumFunction([v \in People |-> c[v][e]])
    <3>1. [v \in People |-> c[v][e]] = [v \in People |-> OwedBy(u, v)[e]]
      OBVIOUS
    <3> QED BY <1>2, <1>3, <3>1
  <2> HIDE DEF c, r
  <2>3. SumFunction(r) = SumFunction([v \in People |-> SumFunction(c[v])])
    BY <2>1, <2>2, SumByColumns
  <2>4. [v \in People |-> SumFunction(c[v])] = [v \in People |-> Balance(u, v)]
    BY DEF c, Balance
  <2> QED BY <2>3, <2>4 DEF r, NetPosition
<1>4. TypeOK /\ SettleInv => PagesAgree
  BY <1>1, <1>3 DEF PagesAgree
<1> QED BY <1>4, TypeCorrect, SettleHolds, PTL
===============================================================================
