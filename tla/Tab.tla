---------------------------------- MODULE Tab ----------------------------------
(***************************************************************************)
(* The Tab of one circle (apps/web/src/server/tab.ts, session-tab.ts): who *)
(* owes whom for the court, one row per debtor, settled when both sides    *)
(* say so.  Nudging and settling lock the row; putting a session or a      *)
(* bill on the Tab checks first and inserts later, without a lock.         *)
(***************************************************************************)
EXTENDS Integers, FiniteSets, FiniteSetsExt

CONSTANTS
  Accounts,   \* the circle's signed-in members
  Guests,     \* its members without an account
  Organiser,  \* who pays for a session's court
  Sessions,   \* played sessions with a cost
  Bills,      \* splits members may add by hand: who paid, for whom
  Total,      \* what a split shares, in minor units
  Requests,   \* bound: how many splits are being created at once
  MaxSplits,  \* bound: splits one run puts on the Tab
  None        \* no session, no user

People == Accounts \cup Guests

ASSUME TabAssumption ==
  /\ IsFiniteSet(People) /\ Accounts \cap Guests = {}
  /\ Organiser \in Accounts /\ None \notin People \cup Sessions
  /\ "free" \notin Sessions \cup {None}
  /\ Bills \subseteq [payer : Accounts, debtors : SUBSET People]
  /\ Total \in Nat \ {0} /\ MaxSplits \in Nat

Splits == 1..MaxSplits

VARIABLES
  who,       \* whom each identity has become: itself, or the account it merged into
  request,   \* the splits whose checks have passed
  split,     \* the session each split is for, "free" while there is no such split
  entry      \* tab_entries: by split and the debtor's identity when it was written

vars == <<who, request, split, entry>>

NoRequest == [session |-> None, payer |-> None, debtors |-> {}, stale |-> FALSE]
NoEntry   == [status |-> "none"]

Entries == {e \in Splits \X People : entry[e].status # "none"}
Unsettled == {e \in Entries : entry[e].status # "settled"}

Init ==
  /\ who = [p \in People |-> p]
  /\ request = [r \in Requests |-> NoRequest]
  /\ split = [n \in Splits |-> "free"]
  /\ entry = [e \in Splits \X People |-> NoEntry]

-------------------------------------------------------------------------------
(* Putting a split on the Tab. *)

\* computeEqualSplit: every debtor's share is rounded down.
ShareMinor(total, debtors) == total \div (debtors + 1)
PayerShareMinor(total, debtors) == total - ShareMinor(total, debtors) * debtors

\* Mutant: entries already paid no longer count as the session's split.
OnTheTabUnpaid(s) == \E e \in Unsettled : split[e[1]] = s

\* hasTabSplitForSession.
OnTheTab(s) == \E e \in Entries : split[e[1]] = s

\* The session's slot-holders, as their rsvps and memberships name them now.
Confirmed == {who[p] : p \in People}

Ask(r, s, payer, debtors) ==
  /\ request[r] = NoRequest /\ debtors # {}
  /\ request' = [request EXCEPT ![r] =
       [session |-> s, payer |-> payer, debtors |-> debtors, stale |-> FALSE]]
  /\ UNCHANGED <<who, split, entry>>

\* createTabSplitForSession, as far as it only reads.
CheckSessionSplit(r, s) ==
  /\ ~OnTheTab(s)
  /\ Ask(r, s, Organiser, Confirmed \ {Organiser})

\* addSplitEntry from the Tab page: any member, any others.
CheckSplit(r, bill) ==
  /\ bill.payer \notin bill.debtors /\ bill.debtors \subseteq Confirmed
  /\ Ask(r, None, bill.payer, bill.debtors)

\* Every other request in flight has now decided on what it read before.
Outdated(r) ==
  [q \in Requests |-> IF q = r THEN NoRequest
                      ELSE IF request[q] = NoRequest THEN NoRequest
                      ELSE [request[q] EXCEPT !.stale = TRUE]]

NewEntry(q, debtor) ==
  [status |-> "open", payer |-> q.payer, debtor |-> debtor, nudged |-> FALSE, claimedBy |-> None,
   amount |-> ShareMinor(Total, Cardinality(q.debtors)), agreed |-> {}, raced |-> q.stale]

\* addSplitEntry's transaction: one row per debtor, the debtor as it was checked.
AddSplitEntry(r) ==
  LET q == request[r]
  IN  /\ q # NoRequest
      /\ \E n \in Splits :
           /\ split[n] = "free" /\ \A m \in Splits : m < n => split[m] # "free"
           /\ split' = [split EXCEPT ![n] = q.session]
           /\ entry' = [e \in Splits \X People |->
                IF e[1] = n /\ e[2] \in q.debtors THEN NewEntry(q, e[2]) ELSE entry[e]]
      /\ request' = Outdated(r)
      /\ UNCHANGED who

-------------------------------------------------------------------------------
(* Nudging and settling. *)

\* Mutant: a nudge has a status of its own.
NudgeAsReminder(e) ==
  /\ entry[e].status # "settled" /\ ~entry[e].nudged
  /\ entry' = [entry EXCEPT ![e].status = "reminded", ![e].nudged = TRUE]
  /\ UNCHANGED <<who, request, split>>

NudgeEntry(e) ==
  /\ entry[e].status # "settled" /\ ~entry[e].nudged
  /\ entry' = [entry EXCEPT ![e].status = "nudged", ![e].nudged = TRUE]
  /\ UNCHANGED <<who, request, split>>

\* Mutant: whoever calls second settles, even the one who called first.
ClaimedByAnyone(e, p) == entry[e].claimedBy # None

ClaimedByOther(e, p) == entry[e].claimedBy \notin {None, p}

\* The first to say so claims the settlement, the other side's word settles it.
ProposeOrConfirmSettle(e, p) ==
  /\ p \in {entry[e].payer, entry[e].debtor} /\ entry[e].status # "settled"
  /\ entry' = [entry EXCEPT
       ![e].status = IF ClaimedByOther(e, p) THEN "settled" ELSE @,
       ![e].claimedBy = p,
       ![e].agreed = @ \cup {p}]
  /\ UNCHANGED <<who, request, split>>

-------------------------------------------------------------------------------
(* A guest signs in to an account (reattributeGuestData, guest.ts). *)

\* Mutants: debts to oneself are kept; only payers are repointed.
KeptSelfDebt(x) == x
PayersOnly(x, g, a) ==
  IF x.status = "none" THEN x ELSE [x EXCEPT !.payer = IF @ = g THEN a ELSE @]

\* An entry whose payer and debtor are now one person is deleted.
WithoutSelfDebt(x) == IF x.status # "none" /\ x.payer = x.debtor THEN NoEntry ELSE x

Repointed(x, g, a) ==
  IF x.status = "none" THEN x
  ELSE [x EXCEPT !.payer     = IF @ = g THEN a ELSE @,
                 !.debtor    = IF @ = g THEN a ELSE @,
                 !.claimedBy = IF @ = g THEN a ELSE @]

MergeGuest(g, a) ==
  /\ who[g] = g
  /\ who' = [who EXCEPT ![g] = a]
  /\ entry' = [e \in Splits \X People |-> WithoutSelfDebt(Repointed(entry[e], g, a))]
  /\ request' = Outdated(None)
  /\ UNCHANGED split

Next ==
  \/ \E r \in Requests :
       \/ \E s \in Sessions : CheckSessionSplit(r, s)
       \/ \E bill \in Bills : CheckSplit(r, bill)
       \/ AddSplitEntry(r)
  \/ \E e \in Entries : NudgeEntry(e) \/ \E p \in Accounts : ProposeOrConfirmSettle(e, p)
  \/ \E g \in Guests, a \in Accounts : MergeGuest(g, a)

Spec == Init /\ [][Next]_vars

-------------------------------------------------------------------------------
(* The balances of the Tab page, over the unsettled entries. *)

\* What each entry adds to what v owes u, and to what the circle owes u.
OwedBy(u, v) ==
  [e \in Unsettled |->
     IF entry[e].payer = u
       THEN IF entry[e].debtor = v THEN entry[e].amount ELSE 0
       ELSE IF entry[e].debtor = u /\ entry[e].payer = v THEN -entry[e].amount ELSE 0]
OwedTo(u) ==
  [e \in Unsettled |-> (IF entry[e].payer = u THEN entry[e].amount ELSE 0)
                        - (IF entry[e].debtor = u THEN entry[e].amount ELSE 0)]

\* computeCounterpartyBalances, computeMemberNetPositions.
Balance(u, v) == SumFunction(OwedBy(u, v))
NetPosition(u) == SumFunction(OwedTo(u))

-------------------------------------------------------------------------------
EntryType ==
  [status : {"open", "nudged", "settled"}, payer : People, debtor : People,
   nudged : BOOLEAN, claimedBy : Accounts \cup {None}, amount : Nat,
   agreed : SUBSET Accounts, raced : BOOLEAN]

\* Every variable has its type.
TypeOK ==
  /\ who \in [People -> People]
  /\ request \in [Requests -> [session : Sessions \cup {None}, payer : Accounts,
                               debtors : SUBSET People, stale : BOOLEAN] \cup {NoRequest}]
  /\ split \in [Splits -> Sessions \cup {None, "free"}]
  /\ entry \in [Splits \X People -> EntryType \cup {NoEntry}]

\* A debt is settled only when both of its sides have said so, however nudges,
\* repeated taps and a guest's sign-in come between (proposeOrConfirmSettle
\* keeps the first claim in the column that later names the confirmer).
SettledByBoth ==
  \A e \in Entries : entry[e].status = "settled" => {entry[e].payer, entry[e].debtor} \subseteq entry[e].agreed

\* Two people's pages show the same debt, and each balance column adds up to the
\* net position shown above it, whoever has merged into whom.
PagesAgree ==
  \A u \in People :
    /\ \A v \in People : Balance(u, v) = -Balance(v, u)
    /\ NetPosition(u) = SumFunction([v \in People |-> Balance(u, v)])

\* No debt is left with a guest identity that has been merged away, unless the
\* merge committed between the split's checks and its insert.
DebtsFollowMerges ==
  \A e \in Entries : ~entry[e].raced => who[entry[e].debtor] = entry[e].debtor

\* A session is put on the Tab once, whatever of it has been paid or nudged
\* since, unless two requests had both checked before either inserted.
OnlyRacedSplitsRepeat ==
  \A e, f \in Entries :
    e[1] < f[1] /\ split[e[1]] = split[f[1]] /\ split[e[1]] # None => entry[f].raced
===============================================================================
