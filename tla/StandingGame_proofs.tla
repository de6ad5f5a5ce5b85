-------------------------- MODULE StandingGame_proofs --------------------------
(***************************************************************************)
(* Proofs about StandingGame for a week, slots and a run of any length.    *)
(***************************************************************************)
EXTENDS StandingGame, SequenceTheorems, TLAPS

-------------------------------------------------------------------------------
(* Arithmetic of the week. *)

LEMMA SlotOfInstant ==
  ASSUME NEW q \in Int, NEW s \in 0..(Week - 1)
  PROVE  (q * Week + s) % Week = s
BY StandingGameAssumption

LEMMA InstantOfSlot ==
  ASSUME NEW a \in Int
  PROVE  /\ a % Week \in 0..(Week - 1)
         /\ \E q \in Int : a = q * Week + (a % Week)
<1>1. a % Week \in 0..(Week - 1)
  BY StandingGameAssumption
<1>2. a \div Week \in Int /\ a = (a \div Week) * Week + (a % Week)
  BY StandingGameAssumption
<1> QED BY <1>1, <1>2

\* The next occurrence is the one instant of the slot in the week after now.
LEMMA NextOccurrence ==
  ASSUME NEW slot \in Slots, NEW now \in Nat
  PROVE  /\ ComputeNextOccurrence(slot, now) \in Nat
         /\ now < ComputeNextOccurrence(slot, now)
         /\ ComputeNextOccurrence(slot, now) =< now + Week
         /\ ComputeNextOccurrence(slot, now) % Week = slot
<1> DEFINE a == slot - now - 1
           d == a % Week
<1>1. slot \in 0..(Week - 1) /\ Week \in Nat \ {0} /\ a \in Int
  BY StandingGameAssumption
<1>2. d \in 0..(Week - 1)
  BY <1>1, InstantOfSlot
<1>3. PICK q \in Int : a = q * Week + d
  BY <1>1, InstantOfSlot
<1>4. -q \in Int /\ now + 1 + d = (-q) * Week + slot
  BY <1>1, <1>2, <1>3
<1>5. (now + 1 + d) % Week = slot
  BY <1>1, <1>4, SlotOfInstant
<1> QED BY <1>1, <1>2, <1>5 DEF ComputeNextOccurrence

\* It is the only one: an instant of the slot within that week is the next occurrence.
LEMMA OnlyNextOccurrence ==
  ASSUME NEW slot \in Slots, NEW now \in Nat, NEW t \in Nat,
         now < t, t =< now + Week, t % Week = slot
  PROVE  t = ComputeNextOccurrence(slot, now)
<1> DEFINE n == ComputeNextOccurrence(slot, now)
<1>1. n \in Nat /\ now < n /\ n =< now + Week /\ n % Week = slot
  BY NextOccurrence
<1> HIDE DEF n
<1>2. slot \in 0..(Week - 1) /\ Week \in Nat \ {0}
  BY StandingGameAssumption
<1>3. PICK q \in Int : t = q * Week + slot
  BY InstantOfSlot
<1>4. PICK r \in Int : n = r * Week + slot
  BY <1>1, InstantOfSlot
<1>5. t - n = (q - r) * Week
  BY <1>2, <1>3, <1>4
<1>6. q - r \in Int /\ -Week < (q - r) * Week /\ (q - r) * Week < Week
  BY <1>1, <1>2, <1>5
<1>7. q - r = 0
  <2>1. CASE q - r >= 1
    <3>1. (q - r) * Week >= Week
      BY <1>2, <1>6, <2>1
    <3> QED BY <1>2, <1>6, <3>1
  <2>2. CASE q - r =< -1
    <3>1. (q - r) * Week =< -Week
      BY <1>2, <1>6, <2>2
    <3> QED BY <1>2, <1>6, <3>1
  <2> QED BY <1>6, <2>1, <2>2
<1>8. t = n
  BY <1>1, <1>2, <1>5, <1>7
<1> QED BY <1>8 DEF n

\* Time that has not reached the next occurrence leaves it where it is.
LEMMA NextOccurrenceStays ==
  ASSUME NEW slot \in Slots, NEW now \in Nat,
         now + 1 < ComputeNextOccurrence(slot, now)
  PROVE  ComputeNextOccurrence(slot, now + 1) = ComputeNextOccurrence(slot, now)
<1>1. now + 1 \in Nat /\ Week \in Nat
  BY StandingGameAssumption
<1> QED BY <1>1, NextOccurrence, OnlyNextOccurrence

-------------------------------------------------------------------------------
(* Sessions. *)

NextStartType == NextStart \in Nat /\ clock < NextStart /\ NextStart % Week = game.slot

LEMMA SessionRows ==
  ASSUME sessions \in Seq(SessionType)
  PROVE  /\ Len(sessions) \in Nat /\ DOMAIN sessions = 1..Len(sessions)
         /\ \A i \in DOMAIN sessions : sessions[i] \in SessionType
<1>1. \A i \in 1..Len(sessions) : sessions[i] \in SessionType
  BY ElementOfSeq
<1> QED BY <1>1

LEMMA NextStartIsComing ==
  ASSUME TypeOK
  PROVE  NextStartType
<1>1. game.slot \in Slots /\ clock \in Nat
  BY StandingGameAssumption DEF TypeOK
<1> QED BY <1>1, NextOccurrence DEF NextStart, NextStartType

\* One session may change in place.
LEMMA SessionInPlace ==
  ASSUME sessions \in Seq(SessionType), NEW i \in DOMAIN sessions, NEW new \in SessionType,
         sessions' = [sessions EXCEPT ![i] = new]
  PROVE  /\ sessions' \in Seq(SessionType) /\ DOMAIN sessions' = DOMAIN sessions
         /\ sessions'[i] = new
         /\ \A j \in DOMAIN sessions : j # i => sessions'[j] = sessions[j]
<1>1. sessions' \in [1..Len(sessions) -> SessionType]
  BY SessionRows
<1> QED BY <1>1, SessionRows, SeqDef

\* What a materialisation does to the sessions.
LEMMA Materialised ==
  ASSUME TypeOK, Materialise
  PROVE  /\ sessions' \in Seq(SessionType)
         /\ DOMAIN sessions \subseteq DOMAIN sessions'
         /\ \A i \in DOMAIN sessions : sessions'[i] = sessions[i]
         /\ \E i \in DOMAIN sessions' : sessions'[i].starts = NextStart
         /\ \A i \in DOMAIN sessions' \ DOMAIN sessions :
              ~AlreadyThere /\ sessions'[i] = NewSession /\ i = Len(sessions) + 1
         /\ raced' \in BOOLEAN
         /\ ~raced' => ~raced /\ (edit => UNCHANGED sessions)
<1>1. sessions \in Seq(SessionType) /\ raced \in BOOLEAN /\ edit \in BOOLEAN
  BY DEF TypeOK
<1>2. CASE AlreadyThere /\ UNCHANGED <<sessions, raced>>
  BY <1>1, <1>2 DEF AlreadyThere
<1>3. CASE ~AlreadyThere /\ sessions' = Append(sessions, NewSession) /\ raced' = (raced \/ edit)
  <2>1. NewSession \in SessionType
    BY NextStartIsComing DEF NewSession, SessionType, NextStartType
  <2>2. /\ sessions' \in Seq(SessionType) /\ DOMAIN sessions' = 1..(Len(sessions) + 1)
        /\ \A i \in 1..Len(sessions) : sessions'[i] = sessions[i]
        /\ sessions'[Len(sessions) + 1] = NewSession
    BY <1>1, <1>3, <2>1, AppendProperties
  <2>3. NewSession.starts = NextStart
    BY DEF NewSession
  <2>4. Len(sessions) \in Nat /\ DOMAIN sessions = 1..Len(sessions)
    BY <1>1
  <2>5. raced' \in BOOLEAN /\ (~raced' => ~raced /\ ~edit)
    BY <1>1, <1>3, Zenon
  <2>6. \A i \in DOMAIN sessions' \ DOMAIN sessions :
          ~AlreadyThere /\ sessions'[i] = NewSession /\ i = Len(sessions) + 1
    BY <1>3, <2>2, <2>4
  <2>7. /\ sessions' \in Seq(SessionType)
        /\ DOMAIN sessions \subseteq DOMAIN sessions'
        /\ \A i \in DOMAIN sessions : sessions'[i] = sessions[i]
        /\ \E i \in DOMAIN sessions' : sessions'[i].starts = NextStart
    BY <2>2, <2>3, <2>4
  <2> QED BY <2>5, <2>6, <2>7, Zenon
<1> QED BY <1>2, <1>3 DEF Materialise

-------------------------------------------------------------------------------
(* Types. *)

LEMMA TypeStep ==
  ASSUME TypeOK, [Next]_vars
  PROVE  TypeOK'
<1>1. /\ sessions \in Seq(SessionType) /\ clock \in Nat
      /\ \A i \in DOMAIN sessions : sessions[i] \in SessionType
  BY SessionRows DEF TypeOK
<1>2. NextStart \in Nat /\ NextStart % Week \in Slots /\ game.slot \in Slots
  BY NextStartIsComing DEF NextStartType, TypeOK
<1>3. ASSUME Materialise, UNCHANGED <<clock, game, edit>>, sweep' \in {"due", "busy", "done"}
      PROVE  TypeOK'
  <2>1. \A i \in DOMAIN sessions' : sessions'[i].starts % Week \in Slots
    BY <1>2, <1>3, Materialised DEF NewSession, TypeOK
  <2> QED BY <1>3, <2>1, Materialised DEF TypeOK
<1>4. ASSUME NEW i \in DOMAIN sessions, NEW new \in SessionType,
             sessions' = [sessions EXCEPT ![i] = new], new.starts % Week \in Slots,
             UNCHANGED <<clock, game, sweep, raced>>, edit' \in BOOLEAN
      PROVE  TypeOK'
  BY <1>1, <1>4, SessionInPlace DEF TypeOK
<1>5. CASE EnsureOnView
  BY <1>3, <1>5 DEF EnsureOnView, TypeOK
<1>6. CASE SweepReads
  BY <1>6 DEF SweepReads, TypeOK
<1>7. CASE SweepEnsures
  BY <1>3, <1>7 DEF SweepEnsures
<1>8. ASSUME NEW slot \in Slots, UpdateStandingGame(slot)
      PROVE  TypeOK'
  BY <1>8 DEF UpdateStandingGame, TypeOK
<1>9. CASE ToggleActive
  BY <1>9 DEF ToggleActive, TypeOK
<1>10. CASE Reschedule
  <2>1. CASE UNCHANGED sessions
    BY <1>10, <2>1 DEF Reschedule, TypeOK
  <2>2. ASSUME NEW i \in Soonest, sessions' = [sessions EXCEPT ![i].starts = NextStart]
        PROVE  TypeOK'
    <3>1. i \in DOMAIN sessions
      BY DEF Soonest, Future
    <3> DEFINE new == [sessions[i] EXCEPT !.starts = NextStart]
    <3>2. new \in SessionType /\ new.starts = NextStart
      BY <1>1, <1>2, <3>1 DEF SessionType
    <3>3. sessions' = [sessions EXCEPT ![i] = new]
      BY <2>2
    <3> HIDE DEF new
    <3> QED BY <1>2, <1>4, <1>10, <3>1, <3>2, <3>3 DEF Reschedule
  <2> QED BY <1>10, <2>1, <2>2 DEF Reschedule
<1>11. CASE Crash
  BY <1>11 DEF Crash, TypeOK
<1>12. ASSUME NEW i \in DOMAIN sessions, RsvpIn(i)
       PROVE  TypeOK'
  <2> DEFINE new == [sessions[i] EXCEPT !.came = TRUE]
  <2>1. new \in SessionType /\ new.starts = sessions[i].starts
    BY <1>1 DEF SessionType
  <2>2. sessions' = [sessions EXCEPT ![i] = new]
    BY <1>12 DEF RsvpIn
  <2> HIDE DEF new
  <2> QED BY <1>4, <1>12, <2>1, <2>2 DEF RsvpIn, TypeOK
<1>13. ASSUME NEW i \in DOMAIN sessions, EnsureSessionPlayedTransition(i)
       PROVE  TypeOK'
  <2> DEFINE new == [sessions[i] EXCEPT !.status = "played"]
  <2>1. new \in SessionType /\ new.starts = sessions[i].starts
    BY <1>1 DEF SessionType
  <2>2. sessions' = [sessions EXCEPT ![i] = new]
    BY <1>13 DEF EnsureSessionPlayedTransition
  <2> HIDE DEF new
  <2> QED BY <1>4, <1>13, <2>1, <2>2 DEF EnsureSessionPlayedTransition, TypeOK
<1>14. CASE Tick
  <2>1. clock' \in 0..LastTick
    BY <1>1, <1>14, StandingGameAssumption DEF Tick, TypeOK
  <2> QED BY <1>14, <2>1 DEF Tick, TypeOK
<1>15. CASE UNCHANGED vars
  BY <1>15 DEF vars, TypeOK
<1> QED BY <1>5, <1>6, <1>7, <1>8, <1>9, <1>10, <1>11, <1>12, <1>13, <1>14, <1>15 DEF Next

\* Every variable keeps its type, and sessions start at slots only
\* (computeNextOccurrence).
THEOREM TypeCorrect == Spec => []TypeOK
<1>1. Init => TypeOK
  <2> SUFFICES ASSUME Init
               PROVE  TypeOK
      OBVIOUS
  <2>1. sessions \in Seq(SessionType) /\ DOMAIN sessions = {}
    BY DEF Init
  <2>2. clock \in 0..LastTick
    BY StandingGameAssumption DEF Init
  <2> QED BY <2>1, <2>2 DEF Init, TypeOK
<1>2. TypeOK /\ [Next]_vars => TypeOK'
  BY TypeStep
<1> QED BY <1>1, <1>2, PTL DEF Spec

-------------------------------------------------------------------------------
(* One session per occurrence. *)

\* A session is only called played after its end.
PlayedIsPast == \A i \in DOMAIN sessions : sessions[i].status = "played" => sessions[i].starts =< clock

\* Without a race at most one session is to come, and it is where the game is.
OneToCome == ~raced => \A i, j \in Future : i = j
ToComeIsNext == ~raced /\ ~edit => \A i \in Future : sessions[i].starts = NextStart

GameInv == OneSessionUnlessRaced /\ PlayedIsPast /\ OneToCome /\ ToComeIsNext

\* The heartbeat has seen to the next kickoff.
KickoffInv == sweep = "done" /\ game.active => AlreadyThere

\* A session that changes neither its start nor its standing is where it was.
LEMMA SameSessions ==
  ASSUME TypeOK, GameInv, KickoffInv,
         UNCHANGED <<clock, game, edit, raced, sweep>>,
         DOMAIN sessions' = DOMAIN sessions,
         \A i \in DOMAIN sessions :
           /\ sessions'[i].starts = sessions[i].starts
           /\ sessions'[i].status \in {sessions[i].status, "played"}
           /\ sessions'[i].status = "played" => sessions[i].starts =< clock
  PROVE  GameInv' /\ KickoffInv'
<1>1. Future' \subseteq Future
  BY DEF Future, TypeOK, SessionType
<1>2. NextStart' = NextStart
  BY DEF NextStart
<1>3. AlreadyThere' <=> AlreadyThere
  BY <1>2 DEF AlreadyThere
<1>4. PlayedIsPast'
  BY DEF PlayedIsPast
<1>5. OneSessionUnlessRaced'
  BY DEF GameInv, OneSessionUnlessRaced, OneSessionPerStart
<1>6. OneToCome'
  BY <1>1 DEF GameInv, OneToCome
<1>7. ToComeIsNext'
  BY <1>1, <1>2 DEF GameInv, ToComeIsNext, Future
<1>8. KickoffInv'
  BY <1>3 DEF KickoffInv
<1> QED BY <1>4, <1>5, <1>6, <1>7, <1>8 DEF GameInv

LEMMA MaterialiseStep ==
  ASSUME TypeOK, GameInv, Materialise, UNCHANGED <<clock, game, edit>>
  PROVE  GameInv' /\ AlreadyThere'
<1>1. /\ sessions' \in Seq(SessionType)
      /\ DOMAIN sessions \subseteq DOMAIN sessions'
      /\ \A i \in DOMAIN sessions : sessions'[i] = sessions[i]
      /\ \E i \in DOMAIN sessions' : sessions'[i].starts = NextStart
      /\ \A i \in DOMAIN sessions' \ DOMAIN sessions :
           ~AlreadyThere /\ sessions'[i] = NewSession /\ i = Len(sessions) + 1
      /\ raced' \in BOOLEAN
      /\ ~raced' => ~raced /\ (edit => UNCHANGED sessions)
  BY Materialised
<1>2. NextStart' = NextStart /\ clock < NextStart /\ clock \in Nat /\ NextStart \in Nat
  BY NextStartIsComing DEF NextStart, NextStartType, TypeOK
<1>3. AlreadyThere'
  BY <1>1, <1>2 DEF AlreadyThere
<1>4. PlayedIsPast'
  BY <1>1 DEF GameInv, PlayedIsPast, NewSession
<1>5. OneSessionUnlessRaced'
  BY <1>1 DEF GameInv, OneSessionUnlessRaced, OneSessionPerStart, AlreadyThere, NewSession
<1>6. \A i \in DOMAIN sessions : i \in Future' <=> i \in Future
  BY <1>1 DEF Future
<1>7. OneToCome' /\ ToComeIsNext'
  <2>1. CASE raced'
    BY <2>1 DEF OneToCome, ToComeIsNext
  <2>2. CASE UNCHANGED sessions /\ ~raced'
    BY <1>1, <1>2, <2>2 DEF GameInv, OneToCome, ToComeIsNext, Future
  <2>3. CASE sessions' # sessions /\ ~raced'
    <3>1. ~raced /\ ~edit
      BY <1>1, <2>3, Zenon DEF TypeOK
    <3>2. \A i \in Future : sessions[i].starts = NextStart /\ i \in DOMAIN sessions
      BY <3>1 DEF GameInv, ToComeIsNext, Future
    <3>3. \A i \in Future' \ DOMAIN sessions :
            ~AlreadyThere /\ i = Len(sessions) + 1 /\ sessions'[i].starts = NextStart
      BY <1>1 DEF Future, NewSession
    <3>4. \A i \in Future' \cap DOMAIN sessions : AlreadyThere /\ sessions'[i].starts = NextStart
      BY <1>1, <1>6, <3>2 DEF AlreadyThere
    <3>5. OneToCome'
      BY <1>6, <3>1, <3>3, <3>4 DEF GameInv, OneToCome
    <3>6. ToComeIsNext'
      BY <1>2, <3>3, <3>4 DEF ToComeIsNext
    <3> QED BY <3>5, <3>6
  <2> QED BY <1>1, <2>1, <2>2, <2>3
<1> QED BY <1>3, <1>4, <1>5, <1>7 DEF GameInv

LEMMA RescheduleStep ==
  ASSUME TypeOK, GameInv, KickoffInv, Reschedule
  PROVE  GameInv' /\ KickoffInv'
<1>1. NextStart' = NextStart /\ clock < NextStart /\ clock \in Nat /\ NextStart \in Nat
  BY NextStartIsComing DEF Reschedule, NextStart, NextStartType, TypeOK
<1>2. sessions \in Seq(SessionType) /\ (\A i \in DOMAIN sessions : sessions[i] \in SessionType)
  BY SessionRows DEF TypeOK
<1>3. ~raced => Soonest = Future
  BY <1>2 DEF GameInv, OneToCome, Soonest, Future, SessionType
<1>4. CASE Soonest = {} /\ UNCHANGED sessions
  <2>1. Future' = Future /\ raced' = raced
    BY <1>4 DEF Reschedule, Future
  <2>2. GameInv'
    BY <1>3, <1>4, <2>1 DEF Reschedule, GameInv, OneSessionUnlessRaced, OneSessionPerStart,
                             PlayedIsPast, OneToCome, ToComeIsNext
  <2>3. KickoffInv'
    BY <1>1, <1>4 DEF Reschedule, KickoffInv, AlreadyThere
  <2> QED BY <2>2, <2>3
<1>5. ASSUME NEW i \in Soonest, sessions' = [sessions EXCEPT ![i].starts = NextStart]
      PROVE  GameInv' /\ KickoffInv'
  <2> DEFINE new == [sessions[i] EXCEPT !.starts = NextStart]
  <2>1. i \in DOMAIN sessions /\ i \in Future
    BY DEF Soonest, Future
  <2>2. new \in SessionType /\ new.starts = NextStart /\ new.status = "upcoming"
    BY <1>1, <1>2, <2>1 DEF SessionType, Future
  <2>3. sessions' = [sessions EXCEPT ![i] = new]
    BY <1>5
  <2> HIDE DEF new
  <2>4. /\ DOMAIN sessions' = DOMAIN sessions /\ sessions'[i] = new
        /\ \A j \in DOMAIN sessions : j # i => sessions'[j] = sessions[j]
    BY <1>2, <2>1, <2>2, <2>3, SessionInPlace
  <2>5. UNCHANGED <<clock, game, sweep, raced>> /\ edit' = FALSE
    BY DEF Reschedule
  <2>6. PlayedIsPast'
    BY <2>2, <2>4, <2>5 DEF GameInv, PlayedIsPast
  <2>7. \A j \in DOMAIN sessions : j # i => (j \in Future' <=> j \in Future)
    BY <2>4, <2>5 DEF Future
  <2>8. OneToCome'
    BY <2>1, <2>4, <2>5, <2>7 DEF GameInv, OneToCome, Future
  <2>9. ToComeIsNext'
    BY <1>1, <2>1, <2>2, <2>4, <2>5, <2>7 DEF GameInv, OneToCome, ToComeIsNext, Future
  <2>10. OneSessionUnlessRaced'
    <3> SUFFICES ASSUME ~raced'
                 PROVE  OneSessionPerStart'
        BY DEF OneSessionUnlessRaced
    <3>1. \A j \in DOMAIN sessions : j # i => sessions[j].starts =< clock
      <4> SUFFICES ASSUME NEW j \in DOMAIN sessions, j # i
                   PROVE  sessions[j].starts =< clock
          OBVIOUS
      <4>1. j \notin Future
        BY <2>1, <2>5 DEF GameInv, OneToCome
      <4>2. sessions[j].status \in {"upcoming", "played"} /\ sessions[j].starts \in Nat
        BY <1>2 DEF SessionType
      <4> QED BY <1>1, <4>1, <4>2 DEF GameInv, PlayedIsPast, Future
    <3>2. \A j \in DOMAIN sessions : j # i => sessions'[j].starts # NextStart
      BY <1>1, <1>2, <2>4, <3>1 DEF SessionType
    <3> QED BY <2>2, <2>4, <2>5, <3>2 DEF GameInv, OneSessionUnlessRaced, OneSessionPerStart
  <2>11. AlreadyThere'
    BY <1>1, <2>1, <2>2, <2>4 DEF AlreadyThere
  <2> QED BY <2>6, <2>8, <2>9, <2>10, <2>11 DEF GameInv, KickoffInv
<1> QED BY <1>4, <1>5 DEF Reschedule

LEMMA TickStep ==
  ASSUME TypeOK, GameInv, Tick
  PROVE  GameInv' /\ KickoffInv'
<1>1. /\ clock' = clock + 1 /\ clock \in Nat
      /\ UNCHANGED <<game, sessions, edit, raced>> /\ sweep' = "due"
      /\ \A i \in DOMAIN sessions : sessions[i] \in SessionType
  BY SessionRows DEF Tick, TypeOK
<1>2. Future' \subseteq Future /\ \A i \in Future' : sessions[i].starts > clock + 1
  BY <1>1 DEF Future, SessionType
<1>3. PlayedIsPast'
  BY <1>1 DEF GameInv, PlayedIsPast, SessionType
<1>4. OneSessionUnlessRaced' /\ OneToCome'
  BY <1>1, <1>2 DEF GameInv, OneSessionUnlessRaced, OneSessionPerStart, OneToCome
<1>5. ToComeIsNext'
  <2> SUFFICES ASSUME ~raced', ~edit', NEW i \in Future'
               PROVE  sessions'[i].starts = NextStart'
      BY DEF ToComeIsNext
  <2>1. sessions[i].starts = NextStart /\ clock + 1 < NextStart
    BY <1>1, <1>2 DEF GameInv, ToComeIsNext
  <2>2. NextStart' = NextStart
    BY <1>1, <2>1, NextOccurrenceStays DEF NextStart, TypeOK
  <2> QED BY <1>1, <2>1, <2>2
<1>6. KickoffInv'
  BY <1>1 DEF KickoffInv
<1> QED BY <1>3, <1>4, <1>5, <1>6 DEF GameInv

LEMMA InvStep ==
  ASSUME TypeOK, GameInv, KickoffInv, [Next]_vars
  PROVE  GameInv' /\ KickoffInv'
<1>1. /\ clock \in Nat
      /\ \A i \in DOMAIN sessions : sessions[i] \in SessionType
  BY SessionRows DEF TypeOK
<1>2. CASE EnsureOnView
  <2>1. GameInv' /\ AlreadyThere'
    BY <1>2, MaterialiseStep DEF EnsureOnView
  <2> QED BY <2>1 DEF KickoffInv
<1>3. CASE SweepEnsures
  <2>1. GameInv' /\ AlreadyThere'
    BY <1>3, MaterialiseStep DEF SweepEnsures
  <2> QED BY <2>1 DEF KickoffInv
<1>4. ASSUME UNCHANGED <<clock, sessions, raced>>, edit' \/ (edit' = edit /\ game'.slot = game.slot)
      PROVE  GameInv'
  <2>1. Future' = Future
    BY <1>4 DEF Future
  <2>2. ~edit' => NextStart' = NextStart
    BY <1>4 DEF NextStart
  <2> QED BY <1>4, <2>1, <2>2 DEF GameInv, OneSessionUnlessRaced, OneSessionPerStart, PlayedIsPast,
                                OneToCome, ToComeIsNext
<1>5. CASE SweepReads
  <2>1. GameInv'
    BY <1>4, <1>5 DEF SweepReads
  <2>2. KickoffInv'
    BY <1>5 DEF SweepReads, KickoffInv
  <2> QED BY <2>1, <2>2
<1>6. ASSUME NEW slot \in Slots, UpdateStandingGame(slot)
      PROVE  GameInv' /\ KickoffInv'
  <2>1. GameInv'
    BY <1>4, <1>6 DEF UpdateStandingGame
  <2> QED BY <1>6, <2>1 DEF UpdateStandingGame, KickoffInv
<1>7. CASE ToggleActive
  <2>1. game'.slot = game.slot
    BY <1>7 DEF ToggleActive, TypeOK
  <2>2. GameInv'
    BY <1>4, <1>7, <2>1 DEF ToggleActive
  <2> QED BY <1>7, <2>2 DEF ToggleActive, KickoffInv
<1>8. CASE Crash
  <2>1. PlayedIsPast'
    BY <1>8 DEF Crash, GameInv, PlayedIsPast
  <2>2. KickoffInv'
    BY <1>8 DEF Crash, KickoffInv, AlreadyThere, NextStart
  <2> QED BY <1>8, <2>1, <2>2 DEF Crash, GameInv, OneSessionUnlessRaced, OneToCome, ToComeIsNext
<1>9. ASSUME NEW i \in DOMAIN sessions, RsvpIn(i)
      PROVE  GameInv' /\ KickoffInv'
  <2>1. DOMAIN sessions' = DOMAIN sessions
    BY <1>9 DEF RsvpIn
  <2>2. \A j \in DOMAIN sessions :
          /\ sessions'[j].starts = sessions[j].starts
          /\ sessions'[j].status = sessions[j].status
    BY <1>1, <1>9 DEF RsvpIn, SessionType
  <2> QED BY <1>9, <2>1, <2>2, SameSessions DEF RsvpIn, GameInv, PlayedIsPast
<1>10. ASSUME NEW i \in DOMAIN sessions, EnsureSessionPlayedTransition(i)
       PROVE  GameInv' /\ KickoffInv'
  <2>1. DOMAIN sessions' = DOMAIN sessions
    BY <1>10 DEF EnsureSessionPlayedTransition
  <2>2. sessions[i].starts =< clock
    BY <1>1, <1>10, StandingGameAssumption DEF EnsureSessionPlayedTransition, SessionType
  <2>3. \A j \in DOMAIN sessions :
          /\ sessions'[j].starts = sessions[j].starts
          /\ sessions'[j].status = IF j = i THEN "played" ELSE sessions[j].status
    BY <1>1, <1>10 DEF EnsureSessionPlayedTransition, SessionType
  <2> QED BY <1>10, <2>1, <2>2, <2>3, SameSessions
          DEF EnsureSessionPlayedTransition, GameInv, PlayedIsPast
<1>11. CASE UNCHANGED vars
  <2>1. GameInv'
    BY <1>4, <1>11 DEF vars
  <2>2. KickoffInv'
    BY <1>11 DEF vars, KickoffInv, AlreadyThere, NextStart
  <2> QED BY <2>1, <2>2
<1> QED BY <1>2, <1>3, <1>5, <1>6, <1>7, <1>8, <1>9, <1>10, <1>11, RescheduleStep, TickStep DEF Next

LEMMA Invariants == Spec => [](TypeOK /\ GameInv /\ KickoffInv)
<1>1. Init => GameInv /\ KickoffInv
  <2> SUFFICES ASSUME Init
               PROVE  GameInv /\ KickoffInv
      OBVIOUS
  <2>1. DOMAIN sessions = {}
    BY DEF Init
  <2> QED BY <2>1 DEF Init, GameInv, KickoffInv, OneSessionUnlessRaced, OneSessionPerStart,
                      PlayedIsPast, OneToCome, ToComeIsNext, Future
<1>2. TypeOK /\ GameInv /\ KickoffInv /\ [Next]_vars => (GameInv /\ KickoffInv)'
  BY InvStep
<1> QED BY <1>1, <1>2, TypeCorrect, PTL DEF Spec

\* An occurrence has one session, however often pages and heartbeats
\* materialise it and the organiser moves it, unless a materialisation came
\* between an edit and its move, or the move was lost
\* (rescheduleUpcomingSessionsForStandingGame).
THEOREM OccurrencesHaveOneSession == Spec => []OneSessionUnlessRaced
<1>1. GameInv => OneSessionUnlessRaced
  BY DEF GameInv
<1> QED BY <1>1, Invariants, PTL

\* Players who said yes find their session where the game now is
\* (updateStandingGame, the move in a transaction of its own).
THEOREM PlayersFollowTheGame == Spec => []SessionFollowsGame
<1>1. TypeOK /\ GameInv => SessionFollowsGame
  BY NextStartIsComing DEF GameInv, ToComeIsNext, SessionFollowsGame, NextStartType
<1> QED BY <1>1, Invariants, PTL

\* No kickoff of an active game passes without a session, whether anybody looks
\* at the app or not (runSchedulerTick).
THEOREM HeartbeatMissesNoKickoff == Spec => NoKickoffMissed
<1>1. TypeOK /\ KickoffInv /\ [Next]_vars
        => [clock' # clock /\ game.active /\ clock' % Week = game.slot
              => \E i \in DOMAIN sessions : sessions[i].starts = clock']_vars
  <2> SUFFICES ASSUME TypeOK, KickoffInv, Next,
                      clock' # clock, game.active, clock' % Week = game.slot
               PROVE  \E i \in DOMAIN sessions : sessions[i].starts = clock'
      OBVIOUS
  <2>1. Tick
    BY DEF Next, EnsureOnView, SweepReads, SweepEnsures, UpdateStandingGame, ToggleActive,
           Reschedule, Crash, RsvpIn, EnsureSessionPlayedTransition
  <2>2. clock' = clock + 1 /\ clock \in Nat /\ game.slot \in Slots /\ Week >= 1 /\ Week \in Nat
    BY <2>1, StandingGameAssumption DEF Tick, TypeOK
  <2>3. clock' = NextStart
    BY <2>2, OnlyNextOccurrence DEF NextStart
  <2> QED BY <2>1, <2>3 DEF Tick, KickoffInv, AlreadyThere
<1> QED BY <1>1, Invariants, PTL DEF Spec, NoKickoffMissed

===============================================================================
