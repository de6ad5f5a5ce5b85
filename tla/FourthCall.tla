------------------------------ MODULE FourthCall ------------------------------
(***************************************************************************)
(* The Fourth Call of one session: the notifications that invite people to *)
(* an open slot and the claim they grant (apps/web/src/server/fourth-call. *)
(* ts and the rings of games-service.ts).  A rotation offer is such a      *)
(* notification too.                                                       *)
(***************************************************************************)
EXTENDS RotationLock

CONSTANTS
  Nearby,       \* whom the played-with and local rings can find
  LinkHolders   \* who follows the public ring-3 link with an account

ASSUME RingsAssumption == Nearby \subseteq People /\ LinkHolders \subseteq People

VARIABLES
  invites,  \* the session's fourth_call notifications
  spent     \* whose rotation offer was read or is older than its window

callVars == <<invites, spent>>

Rings == {"circle", "rotation_offer", "played_with", "local_ring"}
Invite == [to : People, via : Rings]

Called  == {i.to : i \in invites}
Offered == {i.to : i \in {j \in invites : j.via = "rotation_offer"}}

CallInit == invites = {} /\ spent = {}

SendInvites(chosen, via) ==
  /\ invites' = invites \cup {[to |-> p, via |-> via] : p \in chosen}
  /\ UNCHANGED <<spent, row, position>>
  /\ NobodyCounted
  /\ UNCHANGED sessionVars

StillOn == status = "upcoming" /\ ~Started

\* Ring 1.  Any fourth_call notification of the session, a rotation offer too,
\* counts as "already fired"; only members without a row are asked.
CheckFourthCallLevel1 ==
  LET silent == {m \in Members : row[m] = "none"}
  IN  /\ status = "upcoming"
      /\ FourthFrom =< clock /\ clock =< Starts
      /\ HasRoom
      /\ invites = {}
      /\ silent # {}
      /\ SendInvites(silent, "circle")

\* Rings 2a and 2b.  The 20-minute wait behind the earlier ring is the
\* organiser's to skip (forceEscalate), so it is no guard; the candidates were
\* computed before the transaction, which drops only those already called.
CheckFourthCallPlayedWith(chosen) ==
  /\ StillOn /\ HasRoom
  /\ chosen # {} /\ chosen \cap Called = {}
  /\ SendInvites(chosen, "played_with")

CheckFourthCallLocalRing(chosen) ==
  /\ StillOn /\ HasRoom
  /\ \A i \in invites : i.via # "local_ring"
  /\ chosen # {} /\ chosen \cap Called = {}
  /\ SendInvites(chosen, "local_ring")

\* First refusal for the sit-outs of a locked limited rotation, one at a time
\* and each once.
LiveOffers == Offered \cap (Reserves \ spent)

OfferRotationSlotIfNeeded ==
  LET unasked == Reserves \ Offered
  IN  /\ StillOn /\ LockedFour /\ HasRoom
      /\ LiveOffers = {}
      /\ \E q \in unasked :
           /\ \A r \in unasked : position[q] =< position[r]
           /\ SendInvites({q}, "rotation_offer")

\* The holder passes (the notification is read) or ROTATION_OFFER_WINDOW_MS goes by.
OfferSpent(p) ==
  /\ p \in Offered \ spent
  /\ spent' = spent \cup {p}
  /\ NobodyCounted
  /\ UNCHANGED <<invites, row, position>>
  /\ UNCHANGED sessionVars

\* Mutant: the claim does not count the confirmed.
ClaimUnchecked(p) ==
  /\ p \in Called \cup LinkHolders
  /\ StillOn
  /\ row[p] # "in"
  /\ TakeSlot(p)
  /\ UNCHANGED callVars
  /\ UNCHANGED sessionVars

\* "I can play": an invite never lapses as a grant, and a reserve who claims
\* leaves a gap in the queue.
ClaimFourthCallSlot(p) ==
  /\ p \in Called \cup LinkHolders
  /\ StillOn
  /\ row[p] # "in"
  /\ HasRoom
  /\ TakeSlot(p)
  /\ UNCHANGED callVars
  /\ UNCHANGED sessionVars

CallNext ==
  \/ CheckFourthCallLevel1
  \/ \E chosen \in SUBSET Nearby :
       CheckFourthCallPlayedWith(chosen) \/ CheckFourthCallLocalRing(chosen)
  \/ OfferRotationSlotIfNeeded
  \/ \E p \in People : OfferSpent(p) \/ ClaimFourthCallSlot(p)

CallTypeOK ==
  /\ invites \subseteq Invite
  /\ spent \subseteq People
===============================================================================
