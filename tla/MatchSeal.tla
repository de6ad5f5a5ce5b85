------------------------------- MODULE MatchSeal -------------------------------
(***************************************************************************)
(* Recording, disputing and sealing matches                                *)
(* (apps/web/src/server/matches-db.ts).                                    *)
(*                                                                         *)
(* A record or a dispute decides and writes under one row lock, so it is   *)
(* one action.  The seal is not: confirmMatch locks the match row only,    *)
(* and applyGlassAndPersist then reads and writes four users rows that     *)
(* another seal may read and write too, so every statement that reads a    *)
(* player or takes a users row is an action of its own.  Statements read   *)
(* what is committed (READ COMMITTED): a transaction's updates wait in txn *)
(* until it commits, and its Ledger rows are visible once its match is     *)
(* verified, in the commit that writes both.                               *)
(*                                                                         *)
(* A rating is abstracted to the set of matches it has absorbed.           *)
(***************************************************************************)
EXTENDS Integers, FiniteSets, Sequences, SequencesExt

CONSTANTS
  Accounts,    \* signed-in players, numbered as their ids sort
  Guests,      \* guest identities on a court, numbered in the same order
  Matches,     \* the matches that may be recorded
  Sessions,    \* the sessions a match may be recorded for
  Reports,     \* the results players may send in
  Tappers,     \* bound: the players who answer for a session
  MaxTaps,     \* bound: the times a player says "in" (the code has none)
  AdHoc,       \* the session minted for a match recorded without one
  Free         \* no transaction holds the row

People == Accounts \cup Guests

ASSUME SealPeopleAssumption ==
  /\ People \subseteq Nat /\ IsFiniteSet(People) /\ Accounts \cap Guests = {}
  /\ Tappers \subseteq People /\ MaxTaps \in Nat
\* What validateRecordShape lets through: four is <<teamA1, teamA2, teamB1, teamB2>>;
\* kind is how Glass treats the match, "skipped" being a walkover or a retirement
\* without games.
Kind == {"rated", "friendly", "skipped"}
ASSUME ReportAssumption ==
  \A r \in Reports :
    /\ r.match \in Matches /\ r.kind \in Kind
    /\ r.four \in Seq(People) /\ Len(r.four) = 4 /\ IsInjective(r.four)
    /\ r.reporter \in Range(r.four) \cap Accounts
ASSUME OwnerAssumption ==
  /\ Free \notin Matches \cup Guests /\ Matches \cap People = {}
  /\ AdHoc \notin Sessions /\ IsFiniteSet(Sessions) /\ IsFiniteSet(Matches)

VARIABLES
  match,    \* the matches rows
  ledger,   \* each player's rating_events, uncommitted ones included
  glass,    \* users.verifiedMatchCount and users.rating
  answer,   \* rsvps.status of each player for each session
  rsvpIn,   \* users.rsvpInCount
  showUp,   \* users.showUpCount
  txn,      \* the seal in flight on each match
  lock      \* which transaction holds each users row and each matches row

bookVars == <<match, answer, rsvpIn>>
ledgerVars == <<ledger, glass, showUp>>
sealVars == <<match, ledger, glass, answer, rsvpIn, showUp, txn, lock>>

\* The rows that transactions lock; a seal goes by the match it is on.
Rows == People \cup Matches

PlayerState == [count : Nat, rating : SUBSET Matches]
Fresh == [count |-> 0, rating |-> {}]
\* createdAt only ever orders the rows of one player: a row names the matches of
\* the player's rows created before it.
Event ==
  [match : Matches, before : SUBSET Matches, merged : BOOLEAN, earlier : SUBSET Matches]

NotRecorded ==
  [status |-> "absent", four |-> <<>>, kind |-> "rated", session |-> AdHoc, reporter |-> "A"]
NoTxn == [at |-> "idle", next |-> 1, seen |-> [p \in People |-> Fresh], shows |-> {}]

SealInit ==
  /\ match = [m \in Matches |-> NotRecorded]
  /\ ledger = [p \in People |-> {}]
  /\ glass = [p \in People |-> Fresh]
  /\ answer = [s \in Sessions |-> [p \in People |-> "none"]]
  /\ rsvpIn = [p \in People |-> 0]
  /\ showUp = [p \in People |-> 0]
  /\ txn = [m \in Matches |-> NoTxn]
  /\ lock = [r \in Rows |-> Free]

-------------------------------------------------------------------------------
(* Answers for a session, as far as Reliability depends on them. *)

SayIn(s, p) ==
  /\ answer[s][p] # "in" /\ rsvpIn[p] < MaxTaps /\ lock[p] = Free
  /\ answer' = [answer EXCEPT ![s][p] = "in"]
  /\ rsvpIn' = [rsvpIn EXCEPT ![p] = @ + 1]
  /\ UNCHANGED <<match, ledger, glass, showUp, txn, lock>>

SayOut(s, p) ==
  /\ answer[s][p] = "in"
  /\ answer' = [answer EXCEPT ![s][p] = "out"]
  /\ UNCHANGED <<match, ledger, glass, rsvpIn, showUp, txn, lock>>

-------------------------------------------------------------------------------
(* Recording and disputing. *)

Live(m) == match[m].status # "absent"    \* no code path sets "void"
TeamOf(four, p) == IF p \in {four[1], four[2]} THEN "A" ELSE "B"

InsertMatch(r, session) ==
  /\ match[r.match].status = "absent"
  /\ \A p \in Range(r.four) : lock[p] \notin Guests   \* the foreign keys wait out a merge
  /\ match' = [match EXCEPT ![r.match] =
       [status |-> "pending_confirmation", four |-> r.four, kind |-> r.kind,
        session |-> session, reporter |-> TeamOf(r.four, r.reporter)]]
  /\ UNCHANGED <<ledger, glass, answer, rsvpIn, showUp, txn, lock>>

\* Mutant: a second match may be recorded for the session.
RecordMatchAgain(r, s) == InsertMatch(r, s)

\* One match per session: the guard is read under the session row's lock.
RecordMatch(r, s) ==
  /\ \A other \in Matches : Live(other) => match[other].session # s
  /\ InsertMatch(r, s)

\* All the matches of the model fall within AD_HOC_DUPE_WINDOW_MS of each other.
RecordAdHocMatch(r) ==
  /\ \A other \in Matches : Live(other) => Range(match[other].four) # Range(r.four)
  /\ InsertMatch(r, AdHoc)

\* Mutant: a disputed match is voided.
VoidMatch(m) ==
  /\ match[m].status = "pending_confirmation" /\ lock[m] = Free
  /\ match' = [match EXCEPT ![m].status = "void"]
  /\ UNCHANGED <<ledger, glass, answer, rsvpIn, showUp, txn, lock>>

DisputeMatch(m) ==
  /\ match[m].status = "pending_confirmation" /\ lock[m] = Free
  /\ Range(match[m].four) \cap Accounts # {}
  /\ match' = [match EXCEPT ![m].status = "disputed"]
  /\ UNCHANGED <<ledger, glass, answer, rsvpIn, showUp, txn, lock>>

-------------------------------------------------------------------------------
(* The seal: the confirmation of the team that did not report. *)

Player(m) == match[m].four[txn[m].next]

\* Mutant: a match that was disputed or sealed may be confirmed again.
ConfirmAgain(m) ==
  /\ Live(m) /\ lock[m] = Free
  /\ \E p \in Range(match[m].four) \cap Accounts :
       TeamOf(match[m].four, p) # match[m].reporter /\ lock[p] \notin Guests
  /\ lock' = [lock EXCEPT ![m] = m]
  /\ txn' = [txn EXCEPT ![m].at = IF match[m].kind = "friendly" THEN "credit" ELSE "load"]
  /\ UNCHANGED <<bookVars, ledgerVars>>

\* confirmMatch locks the match row; a guest has no login to confirm with.
ConfirmMatch(m) ==
  /\ match[m].status = "pending_confirmation" /\ lock[m] = Free
  /\ \E p \in Range(match[m].four) \cap Accounts :
       TeamOf(match[m].four, p) # match[m].reporter /\ lock[p] \notin Guests
  /\ lock' = [lock EXCEPT ![m] = m]
  /\ txn' = [txn EXCEPT ![m].at = IF match[m].kind = "friendly" THEN "credit" ELSE "load"]
  /\ UNCHANGED <<bookVars, ledgerVars>>

Committed(e) == match[e.match].status = "verified"
Trail(p) == {e \in ledger[p] : Committed(e)}

\* Rows merged from a guest are history, not part of the player's own trajectory.
LiveEvents(p) == {e \in Trail(p) : ~e.merged}
Trajectory(p) == IF LiveEvents(p) # {} THEN LiveEvents(p) ELSE Trail(p)

Latest(events) == CHOOSE e \in events : \A f \in events : e.match \notin f.earlier
After(e) == e.before \cup {e.match}

\* loadPlayerState throws for a player with a count and no rows: the husk of a
\* guest keeps verifiedMatchCount when its Ledger moves on.
Loadable(p) == glass[p].count = 0 \/ Trail(p) # {}

Loaded(p) ==
  IF glass[p].count = 0
  THEN Fresh
  ELSE [count |-> glass[p].count, rating |-> After(Latest(Trajectory(p)))]

\* The four reads are one step: the rows are written one player at a time from
\* what was read of that player, whenever it was read before the first write.
LoadPlayerStates(m) ==
  /\ txn[m].at = "load" /\ \A p \in Range(match[m].four) : Loadable(p)
  /\ txn' = [txn EXCEPT
       ![m].seen = [p \in People |-> IF p \in Range(match[m].four) THEN Loaded(p) ELSE Fresh],
       ![m].at = IF match[m].kind = "skipped" THEN "credit" ELSE "insert"]
  /\ UNCHANGED <<bookVars, ledgerVars, lock>>

\* The foreign key of the new row shares the users row: only a merge blocks it.
InsertRatingEvent(m) ==
  LET p == Player(m)
      e == [match |-> m, before |-> txn[m].seen[p].rating, merged |-> FALSE,
            earlier |-> {f.match : f \in ledger[p]}]
  IN  /\ txn[m].at = "insert" /\ lock[p] \notin Guests
      /\ ledger' = [ledger EXCEPT ![p] = @ \cup {e}]
      /\ txn' = [txn EXCEPT ![m].at = "update"]
      /\ UNCHANGED <<bookVars, glass, showUp, lock>>

CanWrite(m, p) == lock[p] \in {Free, m}

UpdateRating(m) ==
  LET p == Player(m)
  IN  /\ txn[m].at = "update" /\ CanWrite(m, p)
      /\ lock' = [lock EXCEPT ![p] = m]
      /\ txn' = IF txn[m].next < 4
                 THEN [txn EXCEPT ![m].at = "insert", ![m].next = @ + 1]
                 ELSE [txn EXCEPT ![m].at = "credit", ![m].next = 1]
      /\ UNCHANGED <<bookVars, ledgerVars>>

SaidIn(m, p) == match[m].session # AdHoc /\ answer[match[m].session][p] = "in"

\* The players still to credit, in the order of the four.
ToCredit(m) == {i \in txn[m].next..4 : SaidIn(m, match[m].four[i])}

CreditShowUp(m) ==
  LET i == Min(ToCredit(m))
      p == match[m].four[i]
  IN  /\ txn[m].at = "credit" /\ ToCredit(m) # {} /\ CanWrite(m, p)
      /\ lock' = [lock EXCEPT ![p] = m]
      /\ txn' = [txn EXCEPT ![m].shows = @ \cup {p}, ![m].next = i + 1]
      /\ UNCHANGED <<bookVars, ledgerVars>>

Released(t) == [r \in Rows |-> IF lock[r] = t THEN Free ELSE lock[r]]

\* verifiedMatchCount and rating are set to the computed values, not added to.
CommitSeal(m) ==
  LET t == txn[m]
      rated == IF match[m].kind = "rated" THEN Range(match[m].four) ELSE {}
  IN  /\ t.at = "credit" /\ ToCredit(m) = {}
      /\ match' = [match EXCEPT ![m].status = "verified"]
      /\ glass' = [p \in People |->
           IF p \in rated
           THEN [count |-> t.seen[p].count + 1, rating |-> t.seen[p].rating \cup {m}]
           ELSE glass[p]]
      /\ showUp' = [p \in People |-> IF p \in t.shows THEN showUp[p] + 1 ELSE showUp[p]]
      /\ txn' = [txn EXCEPT ![m] = NoTxn]
      /\ lock' = Released(m)
      /\ UNCHANGED <<ledger, answer, rsvpIn>>

\* The process dies, the connection drops or Postgres aborts the transaction.
Rollback(m) ==
  /\ txn[m].at # "idle"
  /\ ledger' = [p \in People |->
       {[e EXCEPT !.earlier = @ \ {m}] : e \in {x \in ledger[p] : x.match # m}}]
  /\ txn' = [txn EXCEPT ![m] = NoTxn]
  /\ lock' = Released(m)
  /\ UNCHANGED <<bookVars, glass, showUp>>

LoadThrows(m) ==
  /\ txn[m].at = "load" /\ \E p \in Range(match[m].four) : ~Loadable(p)
  /\ Rollback(m)

SealStep(m) ==
  \/ LoadPlayerStates(m)
  \/ LoadThrows(m)
  \/ InsertRatingEvent(m)
  \/ UpdateRating(m)
  \/ CreditShowUp(m)
  \/ CommitSeal(m)

MatchRow ==
  [status : {"absent", "pending_confirmation", "verified", "disputed"}, four : Seq(People),
   kind : Kind, session : Sessions \cup {AdHoc}, reporter : {"A", "B"}]
Txn ==
  [at : {"idle", "load", "insert", "update", "credit"}, next : 1..5,
   seen : [People -> PlayerState], shows : SUBSET People]

SealTypeOK ==
  /\ match \in [Matches -> MatchRow]
  /\ ledger \in [People -> SUBSET Event]
  /\ glass \in [People -> PlayerState]
  /\ answer \in [Sessions -> [People -> {"none", "in", "out"}]]
  /\ rsvpIn \in [People -> Nat] /\ showUp \in [People -> Nat]
  /\ txn \in [Matches -> Txn]
  /\ lock \in [Rows -> Matches \cup Guests \cup {Free}]
===============================================================================
