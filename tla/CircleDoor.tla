------------------------------ MODULE CircleDoor -------------------------------
(***************************************************************************)
(* The Open Door (apps/web/src/server/open-door.ts): strangers knock on a  *)
(* circle and an organiser lets them in, beside everything else that       *)
(* changes the circle's roster.                                            *)
(***************************************************************************)
EXTENDS Circle, Sequences

CONSTANT MaxKnocks     \* bound: knocks rows one run inserts

ASSUME KnocksAssumption == MaxKnocks \in Nat

VARIABLES
  knocks,    \* the knocks rows of this circle, in the order of their insertion
  asking,    \* who passed createCircleKnock's checks and has yet to insert
  deciding   \* decisions whose checks passed: an organiser and a knocks row

doorVars == <<knocks, asking, deciding>>
vars == <<circleVars, doorVars>>

KnockStatus == {"pending", "withdrawn", "accepted", "declined"}

Init == CircleInit /\ knocks = <<>> /\ asking = {} /\ deciding = {}

Pending(p) == {i \in DOMAIN knocks : knocks[i].by = p /\ knocks[i].status = "pending"}

-------------------------------------------------------------------------------
(* createCircleKnock: the checks, then the insert. *)

CheckKnock(p) ==
  /\ settings.openDoor /\ role[p] = "none" /\ p \notin asking /\ Len(knocks) < MaxKnocks
  /\ asking' = asking \cup {p}
  /\ UNCHANGED <<circleVars, knocks, deciding>>

InsertKnock(p) ==
  /\ p \in asking /\ Pending(p) = {} /\ Len(knocks) < MaxKnocks
  /\ knocks' = Append(knocks, [by |-> p, status |-> "pending"])
  /\ asking' = asking \ {p}
  /\ UNCHANGED <<circleVars, deciding>>

\* The partial unique index refuses a second open knock.
AlreadyKnocked(p) ==
  /\ p \in asking /\ Pending(p) # {}
  /\ asking' = asking \ {p}
  /\ UNCHANGED <<circleVars, knocks, deciding>>

\* One UPDATE ... WHERE status = 'pending'.
WithdrawCircleKnock(p) ==
  /\ Pending(p) # {}
  /\ knocks' = [i \in DOMAIN knocks |->
       IF i \in Pending(p) THEN [knocks[i] EXCEPT !.status = "withdrawn"] ELSE knocks[i]]
  /\ UNCHANGED <<circleVars, asking, deciding>>

-------------------------------------------------------------------------------
(* decideCircleKnock: the checks, then the transaction. *)

CheckDecision(o, i) ==
  /\ role[o] = "organiser" /\ knocks[i].status = "pending" /\ <<o, i>> \notin deciding
  /\ deciding' = deciding \cup {<<o, i>>}
  /\ UNCHANGED <<circleVars, knocks, asking>>

\* Mutant: the knock is not looked at again under its lock.
ReadBefore(i) == TRUE

StillPending(i) == knocks[i].status = "pending"

\* A full circle rolls the whole decision back: no step.
Accept(i) ==
  /\ InsertCircleMembership(knocks[i].by)
  /\ knocks' = [knocks EXCEPT ![i].status = "accepted"]
  /\ UNCHANGED <<settings, patch, rsvpVars, going>>

Decline(i) ==
  /\ knocks' = [knocks EXCEPT ![i].status = "declined"]
  /\ UNCHANGED circleVars

DecideCircleKnock(o, i) ==
  /\ <<o, i>> \in deciding
  /\ \/ StillPending(i) /\ (Accept(i) \/ Decline(i))
     \/ ~StillPending(i) /\ UNCHANGED <<circleVars, knocks>>
  /\ deciding' = deciding \ {<<o, i>>}
  /\ UNCHANGED asking

Next ==
  \/ CircleNext /\ UNCHANGED doorVars
  \/ \E p \in Accounts :
       CheckKnock(p) \/ InsertKnock(p) \/ AlreadyKnocked(p) \/ WithdrawCircleKnock(p)
  \/ \E o \in Accounts, i \in DOMAIN knocks : CheckDecision(o, i) \/ DecideCircleKnock(o, i)

Spec == Init /\ [][Next]_vars

\* Every variable has its type.
TypeOK ==
  /\ CircleTypeOK
  /\ knocks \in Seq([by : Accounts, status : KnockStatus])
  /\ asking \subseteq Accounts
  /\ deciding \subseteq Accounts \X DOMAIN knocks

-------------------------------------------------------------------------------
(* Invariants. *)

\* However leaving, handovers, removals and merges interleave, the organiser
\* role never falls to a guest, who could not sign in to use it
\* (transferOrganiser checks the target's account before its transaction).
GuestsNeverLead == Organisers \cap Guests = {}

\* Whoever has gone from the circle holds nothing in its upcoming sessions but
\* what they tapped while they were going, and availability that could not be
\* taken back because the line-up was locked or the rotation switched off after
\* they declared it (withdrawFutureRsvps works through a list of its own before
\* the membership is deleted, and ignores markUnavailable's answer).
OnlyLateOrRefusedLinger ==
  \A s \in Sessions : Coming(s) \subseteq Roster \cup late[s] \cup refused[s]

-------------------------------------------------------------------------------
(* Action properties. *)

\* A circle that has an organiser keeps one until its last member has gone: no
\* interleaving of leaves, removals and handovers takes the last organiser away
\* from members who stay.
LedToTheLast == [][Organisers # {} /\ Roster' # {} => Organisers' # {}]_vars

\* No door lets in a member over the limit in force: links, guest joins and
\* accepted knocks count each other, whatever the organiser saves meanwhile.
NoDoorOverfills ==
  [][Cardinality(Roster') > Cardinality(Roster)
       => settings.maxMembers = 0 \/ Cardinality(Roster') =< settings.maxMembers]_vars

\* A knock that was answered or withdrawn is never answered again, however many
\* organisers had it open.
KnockSettledOnce ==
  [][\A i \in DOMAIN knocks : knocks[i].status # "pending" => knocks'[i] = knocks[i]]_vars
===============================================================================
