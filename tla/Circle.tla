-------------------------------- MODULE Circle ---------------------------------
(***************************************************************************)
(* One circle's roster (apps/web/src/server/circles.ts): who is in it, who *)
(* runs it, its member limit, and what its members still hold in upcoming  *)
(* sessions when they go.                                                  *)
(*                                                                         *)
(* Whatever changes the roster locks the circles row and decides again     *)
(* under the lock; what a handler read or did before that is a step of its *)
(* own.  A session's taps lock the sessions row instead.                   *)
(***************************************************************************)
EXTENDS Integers, FiniteSets

CONSTANTS
  Accounts,    \* signed-in users
  Guests,      \* users who joined by link without an account
  Founder,     \* createdBy
  Sessions,    \* the circle's upcoming sessions
  Departures,  \* bound: how many leave or remove requests are in flight at once
  Patches,     \* the settings an organiser may save, one field at a time; limit 0 is null
  Nobody       \* no user

People == Accounts \cup Guests

ASSUME CircleAssumption ==
  /\ IsFiniteSet(People) /\ Accounts \cap Guests = {}
  /\ Founder \in Accounts /\ Nobody \notin People
  /\ Patches \subseteq [maxMembers : Nat] \cup [openDoor : BOOLEAN]

VARIABLES
  role,      \* circle_members.role, "none" without a row
  settings,  \* the circles row: maxMembers and openDoor
  patch,     \* the settings a save in flight is about to write, <<>> for no save
  rotation,  \* each session's game: "off", "gathering" availability, or "locked" for good
  available, \* whose rsvp to each session is 'available'
  held,      \* whose rsvp to each session is 'in' or 'reserve'
  tapping,   \* the tap that holds each sessions row
  going,     \* the leave and remove requests in flight
  late,      \* history: whose rsvp is a tap that landed after their departure had begun
  refused    \* history: whose rsvp a departure was refused to withdraw

rosterVars == <<role, settings, patch>>
rsvpVars   == <<rotation, available, held, tapping, late, refused>>
circleVars == <<rosterVars, rsvpVars, going>>

Roster     == {p \in People : role[p] # "none"}
Organisers == {p \in People : role[p] = "organiser"}
Caps       == {0} \cup {new.maxMembers : new \in {n \in Patches : "maxMembers" \in DOMAIN n}}
NoRequest  == [by |-> Nobody, who |-> Nobody, left |-> {}, declared |-> {}]
NoTap      == [who |-> Nobody, as |-> "held"]

\* Who has an open rsvp.
Coming(s) == available[s] \cup held[s]

\* createCircle: the circle, its door open, and its creator's membership in one transaction.
CircleInit ==
  /\ role = [p \in People |-> IF p = Founder THEN "organiser" ELSE "none"]
  /\ settings \in [maxMembers : Caps, openDoor : {TRUE}]
  /\ patch = <<>>
  /\ rotation \in [Sessions -> {"off", "gathering"}]
  /\ available = [s \in Sessions |-> {}]
  /\ held = [s \in Sessions |-> {}]
  /\ tapping = [s \in Sessions |-> NoTap]
  /\ going = [d \in Departures |-> NoRequest]
  /\ late = [s \in Sessions |-> {}]
  /\ refused = [s \in Sessions |-> {}]

-------------------------------------------------------------------------------
(* Joining. *)

\* Mutant: the limit compared with "more than" instead of "at least".
OverTheCap == settings.maxMembers # 0 /\ Cardinality(Roster) > settings.maxMembers

Full == settings.maxMembers # 0 /\ Cardinality(Roster) >= settings.maxMembers

\* insertCircleMembership: a member is never turned away and keeps the role.
InsertCircleMembership(p) ==
  \/ role[p] # "none" /\ UNCHANGED role
  \/ role[p] = "none" /\ ~Full /\ role' = [role EXCEPT ![p] = "member"]

JoinCircle(p) ==
  /\ p \notin Roster /\ InsertCircleMembership(p)
  /\ UNCHANGED <<settings, patch, rsvpVars, going>>

\* convertGuestOnAuth on circle_members: the guest's row moves to the account,
\* or is dropped where the account already is a member.
MergeGuest(g, a) ==
  /\ g \in Roster
  /\ role' = [role EXCEPT ![g] = "none", ![a] = IF @ = "none" THEN role[g] ELSE @]
  /\ UNCHANGED <<settings, patch, rsvpVars, going>>

-------------------------------------------------------------------------------
(* Settings: the organiser check and the member count are read unlocked. *)

CheckSettings(o, new) ==
  /\ patch = <<>> /\ role[o] = "organiser"
  /\ "maxMembers" \in DOMAIN new =>
       new.maxMembers = 0 \/ new.maxMembers >= Cardinality(Roster)
  /\ patch' = new
  /\ UNCHANGED <<role, settings, rsvpVars, going>>

\* Mutant: the row is overwritten by the fields that were sent.
PatchReplaces ==
  /\ patch # <<>>
  /\ settings' = patch
  /\ patch' = <<>>
  /\ UNCHANGED <<role, rsvpVars, going>>

UpdateCircleSettings ==
  /\ patch # <<>>
  /\ settings' = [f \in DOMAIN settings |-> IF f \in DOMAIN patch THEN patch[f] ELSE settings[f]]
  /\ patch' = <<>>
  /\ UNCHANGED <<role, rsvpVars, going>>

-------------------------------------------------------------------------------
(* The circle's sessions (games-service.ts).  A limited and an unlimited    *)
(* rotation are one here: the organiser may turn either into the other.    *)
(* Claims and session knocks, which ask for no membership, are left out.   *)

Departing(p) == \E d \in Departures : going[d].who = p

\* A tap holds the sessions row, which nobody who leaves the circle waits for.
CheckTap(p, s, as) ==
  /\ tapping[s] = NoTap /\ role[p] # "none"
  /\ tapping' = [tapping EXCEPT ![s] = [who |-> p, as |-> as]]
  /\ UNCHANGED <<rosterVars, rotation, available, held, late, refused, going>>

CheckRsvpIn(p, s) == p \notin held[s] /\ CheckTap(p, s, "held")

CheckMarkAvailable(p, s) ==
  rotation[s] = "gathering" /\ p \notin available[s] /\ CheckTap(p, s, "available")

Tap(s) ==
  LET p == tapping[s].who
  IN  /\ p # Nobody
      /\ available' = [available EXCEPT ![s] =
           IF tapping[s].as = "held" THEN @ \ {p} ELSE @ \cup {p}]
      /\ held' = [held EXCEPT ![s] = IF tapping[s].as = "held" THEN @ \cup {p} ELSE @ \ {p}]
      /\ tapping' = [tapping EXCEPT ![s] = NoTap]
      /\ late' = [late EXCEPT ![s] = IF Departing(p) \/ role[p] = "none" THEN @ \cup {p} ELSE @]
      /\ UNCHANGED <<rosterVars, rotation, refused, going>>

\* The rsvp becomes 'out', however it had come about.
Out(p, s) ==
  /\ available' = [available EXCEPT ![s] = @ \ {p}]
  /\ held' = [held EXCEPT ![s] = @ \ {p}]
  /\ late' = [late EXCEPT ![s] = @ \ {p}]
  /\ refused' = [refused EXCEPT ![s] = @ \ {p}]

\* "Out" and "not this week".
TapOut(p, s) ==
  /\ tapping[s] = NoTap /\ role[p] # "none" /\ p \in Coming(s)
  /\ Out(p, s)
  /\ UNCHANGED <<rosterVars, rotation, tapping, going>>

\* The declared become the line-up and its sit-outs, whether or not still in the circle.
LockRotationIfDue(s) ==
  /\ rotation[s] = "gathering" /\ tapping[s] = NoTap
  /\ rotation' = [rotation EXCEPT ![s] = "locked"]
  /\ available' = [available EXCEPT ![s] = {}]
  /\ held' = [held EXCEPT ![s] = @ \cup available[s]]
  /\ UNCHANGED <<rosterVars, tapping, late, refused, going>>

\* The organiser's edit of the standing game; it undoes no lock.
SwitchRotation(s, to) ==
  /\ rotation[s] # "locked"
  /\ rotation' = [rotation EXCEPT ![s] = to]
  /\ UNCHANGED <<rosterVars, available, held, tapping, late, refused, going>>

-------------------------------------------------------------------------------
(* Leaving and removing. *)

\* The only organiser of people who would be left without one.
LastOrganiser(p) == Organisers = {p} /\ Roster # {p}

\* Mutant: the check under the lock trusts the one made before it.
TrustedPreCheck(d) == TRUE

\* leaveCircle asks that it is not the last organiser, removeMember that the
\* requester is one; both asked again under the lock.
MayGo(d) ==
  LET r == going[d]
  IN  IF r.by = r.who THEN ~LastOrganiser(r.who) ELSE role[r.by] = "organiser"

\* The open rsvps withdrawFutureRsvps reads before it withdraws them one by one.
OpenRsvps(p) == {s \in Sessions : p \in Coming(s)}
Declared(p)  == {s \in Sessions : p \in available[s]}

Request(d, by, who) ==
  /\ going[d] = NoRequest /\ role[who] # "none"
  /\ going' = [going EXCEPT ![d] =
       [by |-> by, who |-> who, left |-> OpenRsvps(who), declared |-> Declared(who)]]
  /\ UNCHANGED <<rosterVars, rsvpVars>>

AskToLeave(d, p) == ~LastOrganiser(p) /\ Request(d, p, p)
AskToRemove(d, o, p) == o # p /\ role[o] = "organiser" /\ Request(d, o, p)

\* An rsvp read as 'available' is left to markUnavailable, which answers only
\* while availability is gathered; any other to rsvpOut.
Withdrawable(d, s) == s \in going[d].declared => rotation[s] = "gathering"

\* One of them, as the list has it and not as the row is by now; both refuse a
\* non-member, and a refusal is not looked at.
WithdrawFutureRsvp(d, s) ==
  LET p == going[d].who
  IN  /\ s \in going[d].left /\ tapping[s] = NoTap
      /\ \/ role[p] = "none" /\ UNCHANGED <<available, held, late, refused>>
         \/ role[p] # "none" /\ Withdrawable(d, s) /\ Out(p, s)
         \/ /\ role[p] # "none" /\ ~Withdrawable(d, s)
            /\ refused' = [refused EXCEPT ![s] = @ \cup ({p} \cap Coming(s))]
            /\ UNCHANGED <<available, held, late>>
      /\ going' = [going EXCEPT ![d].left = @ \ {s}]
      /\ UNCHANGED <<rosterVars, rotation, tapping>>

\* Mutant: the membership goes before the rsvps.
DeletedAtOnce(d) == going[d] # NoRequest

Withdrawn(d) == going[d] # NoRequest /\ going[d].left = {}

\* The member's row goes; the last one out shuts the door.
Depart(d) ==
  LET p == going[d].who
  IN  /\ Withdrawn(d) /\ role[p] # "none" /\ MayGo(d)
      /\ role' = [role EXCEPT ![p] = "none"]
      /\ settings' = IF Roster = {p} THEN [settings EXCEPT !.openDoor = FALSE] ELSE settings
      /\ going' = [going EXCEPT ![d] = NoRequest]
      /\ UNCHANGED <<patch, rsvpVars>>

\* Already gone, or refused under the lock: the rsvps stay withdrawn.
Refuse(d) ==
  /\ Withdrawn(d) /\ ~(role[going[d].who] # "none" /\ MayGo(d))
  /\ going' = [going EXCEPT ![d] = NoRequest]
  /\ UNCHANGED <<rosterVars, rsvpVars>>

-------------------------------------------------------------------------------
(* The handover. *)

\* Mutant: the target's account is not looked up.
TransferToAnyone(o, p) ==
  /\ o # p /\ role[o] = "organiser" /\ role[p] # "none"
  /\ role' = [role EXCEPT ![p] = "organiser", ![o] = "member"]
  /\ UNCHANGED <<settings, patch, rsvpVars, going>>

\* A clean swap; the checks made before the lock add nothing to these.
TransferOrganiser(o, p) ==
  /\ o # p /\ p \in Accounts
  /\ role[o] = "organiser" /\ role[p] # "none"
  /\ role' = [role EXCEPT ![p] = "organiser", ![o] = "member"]
  /\ UNCHANGED <<settings, patch, rsvpVars, going>>

CircleNext ==
  \/ \E p \in People : JoinCircle(p)
  \/ \E g \in Guests, a \in Accounts : MergeGuest(g, a)
  \/ \E o \in Accounts, new \in Patches : CheckSettings(o, new)
  \/ UpdateCircleSettings
  \/ \E p \in Accounts, s \in Sessions :
       CheckRsvpIn(p, s) \/ CheckMarkAvailable(p, s) \/ TapOut(p, s)
  \/ \E s \in Sessions :
       \/ Tap(s)
       \/ LockRotationIfDue(s)
       \/ \E to \in {"off", "gathering"} : SwitchRotation(s, to)
  \/ \E d \in Departures :
       \/ \E p \in Accounts : AskToLeave(d, p)
       \/ \E o \in Accounts, p \in People : AskToRemove(d, o, p)
       \/ \E s \in Sessions : WithdrawFutureRsvp(d, s)
       \/ Depart(d)
       \/ Refuse(d)
  \/ \E o \in Accounts, p \in People : TransferOrganiser(o, p)

Requests ==
  [by : Accounts, who : People, left : SUBSET Sessions, declared : SUBSET Sessions]

CircleTypeOK ==
  /\ role \in [People -> {"none", "member", "organiser"}]
  /\ settings \in [maxMembers : Caps, openDoor : BOOLEAN]
  /\ patch \in Patches \cup {<<>>}
  /\ rotation \in [Sessions -> {"off", "gathering", "locked"}]
  /\ tapping \in [Sessions -> [who : Accounts, as : {"held", "available"}] \cup {NoTap}]
  /\ going \in [Departures -> Requests \cup {NoRequest}]
  /\ {available, held, late, refused} \subseteq [Sessions -> SUBSET Accounts]
===============================================================================
