------------------------------ MODULE SessionRsvp ------------------------------
(***************************************************************************)
(* The RSVP book of one session: who holds a slot, who is queued as a      *)
(* reserve and who has only declared availability                          *)
(* (apps/web/src/server/games-service.ts).                                 *)
(*                                                                         *)
(* Every handler here is one Postgres transaction that takes the session   *)
(* row FOR UPDATE before it reads the rsvps it decides on, so a handler is *)
(* one atomic action; a handler that returns an error or finds nothing to  *)
(* do changes no state and is no step of the model.  Time is counted in    *)
(* ticks; the code only compares instants, so the ticks need only be in    *)
(* the order of the instants they stand for.                               *)
(***************************************************************************)
EXTENDS Integers, FiniteSets, FiniteSetsExt

CONSTANTS
  Members,     \* the circle's members (fixed while the session lives)
  Outsiders,   \* accounts that are not in the circle
  Guests,      \* the guest identities that link visitors will be minted
  Games,       \* the settings the organiser may give the standing game
  FourthFrom,  \* startsAt - FOURTH_CALL_WINDOW_MS
  LateFrom,    \* startsAt - LATE_CANCEL_WINDOW_MS
  Starts,      \* startsAt
  Ends,        \* startsAt + the game's duration
  MaxPosition  \* bound: the last queue position a run hands out (the code has none)

People == Members \cup Outsiders \cup Guests

(* The columns of standing_games the roster depends on: "off" is
   rotationEnabled = false, otherwise rotationMode; opens and lockFrom are
   startsAt minus rsvpWindowDays and minus rotationCutoffHours.  A one-off
   session behaves as an "off" game with the default four slots. *)
RotationMode == {"off", "limited", "unlimited"}
GameSettings == [rotation : RotationMode, slots : Nat \ {0}, opens : Nat, lockFrom : Nat]

ASSUME PeopleAssumption ==
  /\ IsFiniteSet(People)
  /\ Members \cap Outsiders = {}
  /\ Guests \cap (Members \cup Outsiders) = {}
ASSUME GamesAssumption == Games # {} /\ Games \subseteq GameSettings
ASSUME TimeAssumption ==
  /\ {FourthFrom, LateFrom, Starts, Ends} \subseteq Nat
  /\ FourthFrom < LateFrom /\ LateFrom < Starts /\ Starts < Ends
ASSUME BoundAssumption == MaxPosition \in Nat

VARIABLES
  clock,      \* now
  status,     \* sessions.status
  locked,     \* sessions.rotationLockedAt is set
  game,       \* the standing_games row
  row,        \* rsvps.status of each person, "none" when there is no row
  position,   \* rsvps.position, 0 for null
  credited,   \* whose users.rsvpInCount the last step incremented
  charged     \* whose users.lateCancelCount the last step incremented

sessionVars == <<clock, status, locked, game>>
rsvpVars == <<clock, status, locked, game, row, position, credited, charged>>

RowStatus == {"none", "in", "out", "reserve", "available"}

Confirmed == {p \in People : row[p] = "in"}
Reserves  == {p \in People : row[p] = "reserve"}
Available == {p \in People : row[p] = "available"}

\* Mutants, like every definition marked so below: a slip this code could have,
\* used only to show that a property would notice it.
RoomForOneMore == Cardinality(Confirmed) =< game.slots
NoLongerUpcoming == status # "upcoming"

HasRoom    == Cardinality(Confirmed) < game.slots
Started    == clock >= Starts
WindowOpen == clock >= game.opens

\* A limited rotation that has not picked its players yet, and one that has.
Gathering  == game.rotation = "limited" /\ ~locked
LockedFour == game.rotation = "limited" /\ locked

RsvpInit ==
  /\ clock = 0
  /\ status = "upcoming"
  /\ locked = FALSE
  /\ game \in Games
  /\ row = [p \in People |-> "none"]
  /\ position = [p \in People |-> 0]
  /\ credited = {}
  /\ charged = {}

-------------------------------------------------------------------------------
(* The writes the handlers share. *)

NobodyCounted == credited' = {} /\ charged' = {}

\* Mutant: a slot is taken without being counted.
TakeSlotUncounted(p) ==
  /\ row' = [row EXCEPT ![p] = "in"]
  /\ position' = [position EXCEPT ![p] = 0]
  /\ NobodyCounted

\* p is written 'in' and p's rsvpInCount goes up.
TakeSlot(p) ==
  /\ row' = [row EXCEPT ![p] = "in"]
  /\ position' = [position EXCEPT ![p] = 0]
  /\ credited' = {p}
  /\ charged' = {}

\* coalesce(max(position), 0) + 1 over the reserve rows.
NextPosition == 1 + Max({0} \cup {position[q] : q \in Reserves})

JoinQueue(p) ==
  /\ NextPosition =< MaxPosition
  /\ row' = [row EXCEPT ![p] = "reserve"]
  /\ position' = [position EXCEPT ![p] = NextPosition]
  /\ NobodyCounted

\* Mutants: the gap is left, or everyone behind moves into the vacated position.
GapLeftOpen(vacated) == position
GapCollapsed(vacated) ==
  [q \in People |-> IF q \in Reserves /\ position[q] > vacated THEN vacated ELSE position[q]]

\* closeReserveGap: every reserve behind the vacated position moves up one.
GapClosed(vacated) ==
  [q \in People |-> IF q \in Reserves /\ position[q] > vacated
                      THEN position[q] - 1
                      ELSE position[q]]

\* Mutant: a promotion that forgets to order by position.
AnyReserve == Reserves

\* The reserves a promotion may pick: the lowest position (ties are the database's choice).
FrontOfQueue == {q \in Reserves : \A r \in Reserves : position[q] =< position[r]}

-------------------------------------------------------------------------------
(* The taps. *)

RsvpIn(p) ==
  /\ p \in Members
  /\ ~Started /\ WindowOpen /\ ~Gathering
  /\ row[p] \notin {"in", "reserve"}
  /\ \/ HasRoom /\ TakeSlot(p)
     \/ ~HasRoom /\ JoinQueue(p)
  /\ UNCHANGED sessionVars

\* Mutant: the leaver's position is not cleared.
LeaveQueueNumbered(p) ==
  /\ row[p] = "reserve"
  /\ row' = [row EXCEPT ![p] = "out"]
  /\ position' = GapClosed(position[p])
  /\ NobodyCounted

LeaveQueue(p) ==
  /\ row[p] = "reserve"
  /\ row' = [row EXCEPT ![p] = "out"]
  /\ position' = [GapClosed(position[p]) EXCEPT ![p] = 0]
  /\ NobodyCounted

\* The code takes every row that is neither absent, 'out' nor 'reserve' for a
\* confirmed player's, an 'available' row too.
LateCancel(p) == IF clock > LateFrom THEN {p} ELSE {}

LeaveUnfilled(p) ==
  /\ row[p] \in {"in", "available"}
  /\ row' = [row EXCEPT ![p] = "out"]
  /\ position' = [position EXCEPT ![p] = 0]
  /\ credited' = {}
  /\ charged' = LateCancel(p)

\* The first reserve gets a slot, whether or not there is one.
LeaveFilled(p, q) ==
  /\ row[p] \in {"in", "available"}
  /\ q \in FrontOfQueue
  /\ row' = [row EXCEPT ![p] = "out", ![q] = "in"]
  /\ position' = [GapClosed(position[q]) EXCEPT ![p] = 0, ![q] = 0]
  /\ credited' = {q}
  /\ charged' = LateCancel(p)

\* Mutants: nobody is ever promoted; a locked rotation's sit-outs are, unasked.
DropOutForgotten(p) == LeaveUnfilled(p)
PromotedUnasked(p, q) == LeaveFilled(p, q)

\* A locked limited rotation promotes nobody here: the sit-outs are asked by
\* OfferRotationSlotIfNeeded, in a transaction of its own after this commits.
DropOutUnfilled(p) == (LockedFour \/ Reserves = {}) /\ LeaveUnfilled(p)

DropOutPromoting(p, q) == ~LockedFour /\ LeaveFilled(p, q)

RsvpOut(p) ==
  /\ p \in Members
  /\ ~Started
  /\ \/ LeaveQueue(p)
     \/ DropOutUnfilled(p)
     \/ \E q \in People : DropOutPromoting(p, q)
  /\ UNCHANGED sessionVars

\* Mutant: the lock is not looked at again inside the transaction.
DeclareAvailableLate(p) ==
  /\ p \in Members
  /\ game.rotation # "off"
  /\ ~Started /\ WindowOpen
  /\ row[p] # "available"
  /\ row' = [row EXCEPT ![p] = "available"]
  /\ position' = [position EXCEPT ![p] = 0]
  /\ NobodyCounted
  /\ UNCHANGED sessionVars

\* Whatever row the member had becomes 'available', a held slot or a place in
\* the queue included; nobody is promoted and no gap is closed.
DeclareAvailable(p) ==
  /\ p \in Members
  /\ game.rotation # "off" /\ ~locked
  /\ ~Started /\ WindowOpen
  /\ row[p] # "available"
  /\ row' = [row EXCEPT ![p] = "available"]
  /\ position' = [position EXCEPT ![p] = 0]
  /\ NobodyCounted
  /\ UNCHANGED sessionVars

\* After the lock "I'm available" is handed to rsvpIn.
MarkAvailable(p) ==
  \/ LockedFour /\ RsvpIn(p)
  \/ DeclareAvailable(p)

MarkUnavailable(p) ==
  /\ p \in Members
  /\ game.rotation # "off" /\ ~locked
  /\ ~Started
  /\ row[p] \notin {"none", "out"}
  /\ row' = [row EXCEPT ![p] = "out"]
  /\ position' = [position EXCEPT ![p] = 0]
  /\ NobodyCounted
  /\ UNCHANGED sessionVars

-------------------------------------------------------------------------------
(* The organiser, and time. *)

\* The organiser saves new settings for the standing game, at any time.
UpdateStandingGame(g) ==
  /\ g # game
  /\ game' = g
  /\ NobodyCounted
  /\ UNCHANGED <<clock, status, locked, row, position>>

EnsureSessionPlayedTransition ==
  /\ status = "upcoming"
  /\ clock >= Ends
  /\ status' = "played"
  /\ NobodyCounted
  /\ UNCHANGED <<clock, locked, game, row, position>>

\* Time passes; nothing is counted beyond the session's end.
Tick ==
  /\ clock < Ends
  /\ clock' = clock + 1
  /\ NobodyCounted
  /\ UNCHANGED <<status, locked, game, row, position>>

RsvpNext ==
  \/ \E p \in Members : RsvpIn(p) \/ RsvpOut(p) \/ MarkAvailable(p) \/ MarkUnavailable(p)
  \/ \E g \in Games : UpdateStandingGame(g)
  \/ EnsureSessionPlayedTransition
  \/ Tick

RsvpTypeOK ==
  /\ clock \in 0..Ends
  /\ status \in {"upcoming", "played"}
  /\ locked \in BOOLEAN
  /\ game \in Games
  /\ row \in [People -> RowStatus]
  /\ position \in [People -> Nat]
  /\ \A p \in People : position[p] > 0 <=> row[p] = "reserve"
  /\ credited \subseteq People
  /\ charged \subseteq Members
===============================================================================
