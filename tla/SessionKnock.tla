----------------------------- MODULE SessionKnock -----------------------------
(***************************************************************************)
(* Knocks on one session: a player who found the game on the Board asks in *)
(* and an organiser decides (apps/web/src/server/discovery.ts).            *)
(***************************************************************************)
EXTENDS SessionRsvp

CONSTANT Knockers   \* account holders outside the circle who find the game
ASSUME KnockersAssumption == Knockers \subseteq Outsiders

VARIABLES
  knock,        \* the status of each knocker's latest knock
  withdrawing   \* knockers between withdrawSessionKnock's read and its write

knockVars == <<knock, withdrawing>>

KnockStatus == {"none", "pending", "accepted", "declined", "withdrawn"}

KnockInit ==
  /\ knock = [p \in Knockers |-> "none"]
  /\ withdrawing = {}

SetKnock(p, to) == knock' = [knock EXCEPT ![p] = to]

NoRsvpChange == NobodyCounted /\ UNCHANGED <<row, position>> /\ UNCHANGED sessionVars

\* A new knock is a new row; while a withdrawal of the last one is under way
\* the model makes no new one, so that `knock` always is the row it withdraws.
CreateSessionKnock(p) ==
  /\ status = "upcoming" /\ ~Started /\ WindowOpen
  /\ row[p] # "in"
  /\ HasRoom
  /\ knock[p] # "pending" /\ p \notin withdrawing
  /\ SetKnock(p, "pending")
  /\ UNCHANGED withdrawing
  /\ NoRsvpChange

\* The knocker is written 'in' and counted even if a claim got there first.
AcceptKnock(p) ==
  /\ knock[p] = "pending"
  /\ status = "upcoming" /\ ~Started
  /\ HasRoom
  /\ SetKnock(p, "accepted")
  /\ TakeSlot(p)
  /\ UNCHANGED withdrawing
  /\ UNCHANGED sessionVars

DeclineKnock(p) ==
  /\ knock[p] = "pending"
  /\ SetKnock(p, "declined")
  /\ UNCHANGED withdrawing
  /\ NoRsvpChange

\* withdrawSessionKnock reads the pending knock without a lock and then updates
\* it by id, whatever its status has become.
WithdrawKnockRead(p) ==
  /\ knock[p] = "pending" /\ p \notin withdrawing
  /\ withdrawing' = withdrawing \cup {p}
  /\ UNCHANGED knock
  /\ NoRsvpChange

WithdrawKnockWrite(p) ==
  /\ p \in withdrawing
  /\ SetKnock(p, "withdrawn")
  /\ withdrawing' = withdrawing \ {p}
  /\ NoRsvpChange

KnockNext ==
  \E p \in Knockers :
    \/ CreateSessionKnock(p)
    \/ AcceptKnock(p)
    \/ DeclineKnock(p)
    \/ WithdrawKnockRead(p)
    \/ WithdrawKnockWrite(p)

KnockTypeOK ==
  /\ knock \in [Knockers -> KnockStatus]
  /\ withdrawing \subseteq Knockers
===============================================================================
