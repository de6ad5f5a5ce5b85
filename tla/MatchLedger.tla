------------------------------ MODULE MatchLedger ------------------------------
(***************************************************************************)
(* Seals of several matches beside the merge of a guest identity into an   *)
(* account (convertGuestOnAuth, apps/web/src/server/guest.ts): both write  *)
(* the Ledger and the players' ratings, each under row locks of its own.   *)
(***************************************************************************)
EXTENDS MatchSeal, Relation

CONSTANT MergeInto     \* the account each guest's sign-in resolves to

\* Who plays under an identity.
Person(p) == IF p \in Guests THEN MergeInto[p] ELSE p

ASSUME MergeAssumption ==
  /\ MergeInto \in [Guests -> Accounts]
  \* One person is one roster entry (the note in reattributeGuestData).
  /\ \A r \in Reports, i, j \in 1..4 : i # j => Person(r.four[i]) # Person(r.four[j])

VARIABLES
  ident,    \* users.isGuest; "husk" is a guest row drained by a merge
  merge,    \* how far each guest's merge has come
  raced     \* history: whose rating two open transactions had both in hand

mergeVars == <<ident, merge, raced>>
vars == <<sealVars, mergeVars>>

Init ==
  /\ SealInit
  /\ ident = [g \in Guests |-> "guest"]
  /\ merge = [g \in Guests |-> "idle"]
  /\ raced = {}

-------------------------------------------------------------------------------
(* The merge. *)

\* The two users rows, in the order of their ids.
FirstRow(g) == IF g < MergeInto[g] THEN g ELSE MergeInto[g]
SecondRow(g) == IF g < MergeInto[g] THEN MergeInto[g] ELSE g

\* An uncommitted Ledger row shares the users row it refers to.
Sharers(p) == {e.match : e \in {x \in ledger[p] : ~Committed(x)}}
CanLock(p) == lock[p] = Free /\ Sharers(p) = {}

LockFirst(g) ==
  /\ merge[g] = "idle" /\ ident[g] = "guest" /\ CanLock(FirstRow(g))
  /\ lock' = [lock EXCEPT ![FirstRow(g)] = g]
  /\ merge' = [merge EXCEPT ![g] = "first"]
  /\ UNCHANGED <<match, ledger, glass, answer, rsvpIn, showUp, txn, ident>>

LockSecond(g) ==
  /\ merge[g] = "first" /\ CanLock(SecondRow(g))
  /\ lock' = [lock EXCEPT ![SecondRow(g)] = g]
  /\ merge' = [merge EXCEPT ![g] = "both"]
  /\ UNCHANGED <<match, ledger, glass, answer, rsvpIn, showUp, txn, ident, raced>>

\* The matches rows it has yet to lock, column by column of the four.
ToRepoint(g) == {m \in Matches : g \in Range(match[m].four) /\ lock[m] # g}
Column(g, m) == CHOOSE i \in DOMAIN match[m].four : match[m].four[i] = g
NextToRepoint(g) == {m \in ToRepoint(g) : \A n \in ToRepoint(g) : Column(g, m) =< Column(g, n)}

LockMatchRow(g) ==
  /\ merge[g] = "both"
  /\ \E m \in NextToRepoint(g) : lock[m] = Free /\ lock' = [lock EXCEPT ![m] = g]
  /\ UNCHANGED <<match, ledger, glass, answer, rsvpIn, showUp, txn, mergeVars>>

\* Mutant: the second player of each team is not looked at.
FirstOfTeamsRepointed(g, a) ==
  [m \in Matches |-> [match[m] EXCEPT
     !.four = [i \in DOMAIN @ |-> IF @[i] = g /\ i \in {1, 3} THEN a ELSE @[i]]]]

Repointed(g, a) ==
  [m \in Matches |-> [match[m] EXCEPT !.four = [i \in DOMAIN @ |-> IF @[i] = g THEN a ELSE @[i]]]]

\* rsvps are unique per session: the guest's row moves, or is dropped on a clash.
Reanswered(g, a) ==
  [s \in Sessions |-> [answer[s] EXCEPT
     ![a] = IF @ = "none" THEN answer[s][g] ELSE @, ![g] = "none"]]

\* Mutant: beside the account's own trail the guest's rows are dropped.
OwnTrailKept(g, a) ==
  [ledger EXCEPT ![g] = {}, ![a] = IF @ = {} THEN ledger[g] ELSE @]

\* The Ledger rows change owner; beside an account's own trail they are marked.
Reattributed(g, a) ==
  [ledger EXCEPT ![g] = {},
                 ![a] = @ \cup {[e EXCEPT !.merged = @ \/ ledger[a] # {}] : e \in ledger[g]}]

\* Mutant: the guest's rating is adopted beside an own trail, too.
AdoptsAlways(g, a) == ledger[g] # {}

Adopts(g, a) == ledger[a] = {} /\ ledger[g] # {}

ReattributeGuestData(g) ==
  LET a == MergeInto[g]
  IN  /\ merge[g] = "both" /\ ToRepoint(g) = {}
      /\ match' = Repointed(g, a)
      /\ answer' = Reanswered(g, a)
      /\ ledger' = Reattributed(g, a)
      /\ glass' = IF Adopts(g, a) THEN [glass EXCEPT ![a] = glass[g]] ELSE glass
      /\ rsvpIn' = [rsvpIn EXCEPT ![a] = @ + rsvpIn[g]]
      /\ showUp' = [showUp EXCEPT ![a] = @ + showUp[g]]
      /\ ident' = [ident EXCEPT ![g] = "husk"]
      /\ merge' = [merge EXCEPT ![g] = "idle"]
      /\ lock' = Released(g)
      /\ raced' = IF g \in raced THEN raced \cup {a} ELSE raced
      /\ UNCHANGED txn

MergeRollback(g) ==
  /\ merge[g] # "idle"
  /\ merge' = [merge EXCEPT ![g] = "idle"]
  /\ lock' = Released(g)
  /\ UNCHANGED <<match, ledger, glass, answer, rsvpIn, showUp, txn, ident, raced>>

-------------------------------------------------------------------------------
(* Postgres: who waits for whom, and the victim of a cycle. *)

Transactions == Matches \cup Guests

WaitsFor(t) ==
  IF t \in Matches
  THEN CASE txn[t].at = "insert" -> {lock[Player(t)]} \cap Guests
         [] txn[t].at = "update" -> {lock[Player(t)]} \ {Free, t}
         [] txn[t].at = "credit" /\ ToCredit(t) # {} ->
                {lock[match[t].four[Min(ToCredit(t))]]} \ {Free, t}
         [] OTHER -> {}
  ELSE CASE merge[t] = "first" -> ({lock[SecondRow(t)]} \ {Free, t}) \cup Sharers(SecondRow(t))
         [] merge[t] = "both" -> {lock[m] : m \in NextToRepoint(t)} \ {Free}
         [] OTHER -> {}

Deadlocked(t) ==
  LET waits == [p \in Transactions \X Transactions |-> p[2] \in WaitsFor(p[1])]
  IN  WaitsFor(t) # {} /\ TransitiveClosure(waits, Transactions)[t, t]

\* Mutant: a deadlock is left to itself.
NoVictim(t) == FALSE

AbortDeadlocked(t) ==
  /\ Deadlocked(t)
  /\ IF t \in Matches THEN Rollback(t) /\ UNCHANGED mergeVars ELSE MergeRollback(t)

-------------------------------------------------------------------------------
(* The whole. *)

\* Players whom a seal has read, or a merge locked, and not yet let go.
InHand(t) ==
  IF t \in Matches
  THEN IF txn[t].at = "idle" \/ match[t].kind = "friendly" THEN {} ELSE Range(match[t].four)
  ELSE IF merge[t] = "idle" THEN {} ELSE {t, MergeInto[t]}

NoteRaces ==
  raced' = raced \cup
    {p \in People : \E t, u \in Transactions : t # u /\ p \in InHand(t)' \cap InHand(u)'}

Seal(m) == SealStep(m) /\ UNCHANGED <<ident, merge>> /\ NoteRaces
Confirm(m) == ConfirmMatch(m) /\ UNCHANGED <<ident, merge>> /\ NoteRaces
Crash(m) == Rollback(m) /\ UNCHANGED mergeVars

Answering ==
  \E s \in Sessions, p \in Tappers :
    /\ p \in Guests => ident[p] = "guest"
    /\ SayIn(s, p) \/ SayOut(s, p)
    /\ UNCHANGED mergeVars

\* A roster screen opened before a merge may still submit the guest's old id.
Recording ==
  \E r \in Reports :
    /\ RecordAdHocMatch(r) \/ \E s \in Sessions : RecordMatch(r, s)
    /\ UNCHANGED mergeVars

MergeStep(g) ==
  \/ LockFirst(g) /\ NoteRaces
  \/ LockSecond(g)
  \/ LockMatchRow(g)
  \/ ReattributeGuestData(g)

Next ==
  \/ Answering
  \/ Recording
  \/ \E m \in Matches : DisputeMatch(m) /\ UNCHANGED mergeVars
  \/ \E m \in Matches : Confirm(m) \/ Seal(m) \/ Crash(m)
  \/ \E g \in Guests : MergeStep(g) \/ MergeRollback(g)
  \/ \E t \in Transactions : AbortDeadlocked(t)

Spec == Init /\ [][Next]_vars

\* Postgres runs every open transaction on, hands a contended row to each of its
\* waiters in turn (strong fairness) and breaks every deadlock; nobody has to
\* record, answer, confirm or sign in.  A match is confirmed by taps of people, who
\* give up after so many failures: a row that two seals share in turn, each tried
\* again for ever, may keep a merge waiting for ever.
Fairness ==
  /\ \A m \in Matches : <>[][~ConfirmMatch(m)]_sealVars
  /\ \A m \in Matches : SF_sealVars(SealStep(m))
  /\ \A g \in Guests : SF_sealVars(LockSecond(g) \/ LockMatchRow(g) \/ ReattributeGuestData(g))
  /\ \A t \in Transactions : WF_sealVars(AbortDeadlocked(t))

FairSpec == Spec /\ Fairness

-------------------------------------------------------------------------------
(* Properties. *)

\* Every variable has its type.
TypeOK ==
  /\ SealTypeOK
  /\ ident \in [Guests -> {"guest", "husk"}]
  /\ merge \in [Guests -> {"idle", "first", "both"}]
  /\ raced \subseteq People

RowsOf(m, p) == {e \in Trail(p) : e.match = m}

\* A match is sealed once and as a whole: whatever crashes, deadlocks or races
\* with it, it has one Ledger row for each of its four players when it is
\* verified and counts for Glass, and none at all otherwise.
SealedOnceAsAWhole ==
  \A m \in Matches, p \in People :
    Cardinality(RowsOf(m, p)) =
      IF match[m].kind = "rated" /\ match[m].status = "verified" /\ p \in Range(match[m].four)
      THEN 1 ELSE 0

\* Reliability never passes 100%: nobody is credited with more games than they
\* said "in" to, over every order of records, seals, answers and merges
\* (creditShowUps, and recordMatch's one match per session).
ReliabilityHonest == \A p \in People : showUp[p] =< rsvpIn[p]

\* What the mirror on users promises: the count is the length of the player's
\* live trail, whose last row has absorbed every match of the trail.
TrailAddsUp(p) ==
  /\ glass[p].count = Cardinality(LiveEvents(p))
  /\ glass[p].rating = {e.match : e \in LiveEvents(p)}
  /\ LiveEvents(p) # {} => After(Latest(LiveEvents(p))) = glass[p].rating

\* A player's rating absorbs every sealed match as long as no two transactions
\* that carry the player were open together (loadPlayerState takes no lock), a
\* merged guest's trail included or set aside as a whole.
UnracedTrailAddsUp == \A p \in Accounts \ raced : TrailAddsUp(p)

\* The same without the condition, as the Ledger is documented.
EveryTrailAddsUp == \A p \in Accounts : TrailAddsUp(p)

SameRow(e, f) == f.match = e.match /\ f.before = e.before

\* The Ledger is append-only: a committed row stays word for word, or passes on
\* to the account its guest signed in to.  (It need not stay last: createdAt is
\* stamped by the insert, and a row stamped earlier may commit later.)
LedgerAppendOnly ==
  [][\A p \in People : \A e \in Trail(p) :
       \/ \E f \in Trail(p)' : SameRow(e, f) /\ f.merged = e.merged
       \/ /\ p \in Guests /\ ident[p] # ident'[p]
          /\ \E f \in Trail(MergeInto[p])' : SameRow(e, f)]_vars

\* The merge leaves nothing behind: when a guest becomes a husk no match, no
\* answer and no Ledger row, of a seal in flight either, still belongs to it.
MergeDrainsGuest ==
  [][\A g \in Guests : ident[g] # ident'[g] =>
       /\ \A m \in Matches : g \notin Range(match'[m].four)
       /\ \A s \in Sessions : answer'[s][g] = "none"
       /\ ledger'[g] = {}]_vars

\* A seal or a merge in flight comes to an end, although they wait for each
\* other's rows in any order.
EveryTransactionEnds ==
  /\ \A m \in Matches : txn[m].at # "idle" ~> txn[m].at = "idle"
  /\ \A g \in Guests : merge[g] # "idle" ~> merge[g] = "idle"
===============================================================================
