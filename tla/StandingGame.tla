----------------------------- MODULE StandingGame ------------------------------
(***************************************************************************)
(* A Standing Game and the sessions it materialises (games-service.ts,     *)
(* standing-games-service.ts, scheduler.ts under apps/web/src/server): the *)
(* heartbeat and the pages create the next session, an organiser's edit    *)
(* commits first and moves the session in a second transaction.            *)
(*                                                                         *)
(* Every transaction here locks the standing_games row.  Instants are      *)
(* counted in ticks; a week is Week of them.                               *)
(***************************************************************************)
EXTENDS Integers, Sequences

CONSTANTS
  Week,         \* ticks in a week
  Slots,        \* the weekday-and-time slots an organiser may choose
  Lasts,        \* ticks from a session's start to its end
  LastTick,     \* bound: the end of a run
  MaxSessions   \* bound: the sessions one run materialises

ASSUME StandingGameAssumption ==
  /\ Week \in Nat \ {0} /\ Slots # {} /\ Slots \subseteq 0..(Week - 1)
  /\ Lasts \in Nat \ {0} /\ {LastTick, MaxSessions} \subseteq Nat

VARIABLES
  clock,     \* now
  game,      \* the standing_games row: slot and active
  sessions,  \* its sessions in the order of their creation
  sweep,     \* the heartbeat: due, busy with this game, or done for this tick
  edit,      \* an edit has committed and has yet to move the session
  raced      \* history: a session was materialised, or a process died, in between

vars == <<clock, game, sessions, sweep, edit, raced>>

Init ==
  /\ clock = 0
  /\ game \in [slot : Slots, active : {TRUE}]
  /\ sessions = <<>>
  /\ sweep = "due"
  /\ edit = FALSE
  /\ raced = FALSE

-------------------------------------------------------------------------------
(* Materialisation. *)

\* Mutant: counted from today instead of from tomorrow.
OneTickLate(slot, now) == now + 1 + ((slot - now) % Week)

\* The first instant of the slot strictly after now.
ComputeNextOccurrence(slot, now) == now + 1 + ((slot - now - 1) % Week)

NextStart == ComputeNextOccurrence(game.slot, clock)

NewSession == [starts |-> NextStart, status |-> "upcoming", came |-> FALSE]

\* Mutant: any session still called upcoming counts as the next one.
SomeSessionUpcoming == \E i \in DOMAIN sessions : sessions[i].status = "upcoming"

AlreadyThere == \E i \in DOMAIN sessions : sessions[i].starts = NextStart

\* Mutant: the session is inserted without looking for it.
InsertAnyway ==
  /\ Len(sessions) < MaxSessions
  /\ sessions' = Append(sessions, NewSession)
  /\ raced' = (raced \/ edit)

\* ensureUpcomingSessionForStandingGame.
Materialise ==
  \/ AlreadyThere /\ UNCHANGED <<sessions, raced>>
  \/ /\ ~AlreadyThere /\ Len(sessions) < MaxSessions
     /\ sessions' = Append(sessions, NewSession)
     /\ raced' = (raced \/ edit)

\* The game's page, right after it was created.
EnsureOnView == Materialise /\ UNCHANGED <<clock, game, sweep, edit>>

\* runSchedulerTick reads which games are active, then works through them.
SweepReads ==
  /\ sweep = "due"
  /\ sweep' = IF game.active THEN "busy" ELSE "done"
  /\ UNCHANGED <<clock, game, sessions, edit, raced>>

SweepEnsures ==
  /\ sweep = "busy"
  /\ Materialise
  /\ sweep' = "done"
  /\ UNCHANGED <<clock, game, edit>>

-------------------------------------------------------------------------------
(* The organiser's edits. *)

\* A heartbeat always comes between an edit and the next tick.
UpdateStandingGame(slot) ==
  /\ slot # game.slot
  /\ game' = [game EXCEPT !.slot = slot]
  /\ edit' = TRUE
  /\ sweep' = "due"
  /\ UNCHANGED <<clock, sessions, raced>>

ToggleActive ==
  /\ game' = [game EXCEPT !.active = ~@]
  /\ sweep' = "due"
  /\ UNCHANGED <<clock, sessions, edit, raced>>

\* Mutant: no session is open to a move.
NoneToMove == {}

Future == {i \in DOMAIN sessions : sessions[i].status = "upcoming" /\ sessions[i].starts > clock}
Soonest == {i \in Future : \A j \in Future : sessions[i].starts =< sessions[j].starts}

\* rescheduleUpcomingSessionsForStandingGame: the soonest session moves with
\* the players on it.
Reschedule ==
  /\ edit
  /\ \/ Soonest = {} /\ UNCHANGED sessions
     \/ \E i \in Soonest : sessions' = [sessions EXCEPT ![i].starts = NextStart]
  /\ edit' = FALSE
  /\ UNCHANGED <<clock, game, sweep, raced>>

\* The process stops between the two transactions.
Crash ==
  /\ edit
  /\ edit' = FALSE
  /\ raced' = TRUE
  /\ UNCHANGED <<clock, game, sessions, sweep>>

-------------------------------------------------------------------------------
(* The sessions. *)

RsvpIn(i) ==
  /\ sessions[i].starts > clock /\ ~sessions[i].came
  /\ sessions' = [sessions EXCEPT ![i].came = TRUE]
  /\ UNCHANGED <<clock, game, sweep, edit, raced>>

\* Whenever somebody looks at it after its end.
EnsureSessionPlayedTransition(i) ==
  /\ sessions[i].status = "upcoming" /\ clock >= sessions[i].starts + Lasts
  /\ sessions' = [sessions EXCEPT ![i].status = "played"]
  /\ UNCHANGED <<clock, game, sweep, edit, raced>>

\* Every tick is long enough for the heartbeat, which comes every minute, and
\* for an edit's two transactions.
Tick ==
  /\ sweep = "done" /\ ~edit /\ clock < LastTick
  /\ clock' = clock + 1
  /\ sweep' = "due"
  /\ UNCHANGED <<game, sessions, edit, raced>>

Next ==
  \/ EnsureOnView \/ SweepReads \/ SweepEnsures
  \/ \E slot \in Slots : UpdateStandingGame(slot)
  \/ ToggleActive \/ Reschedule \/ Crash
  \/ \E i \in DOMAIN sessions : RsvpIn(i) \/ EnsureSessionPlayedTransition(i)
  \/ Tick

Spec == Init /\ [][Next]_vars

-------------------------------------------------------------------------------
SessionType ==
  [starts : Nat, status : {"upcoming", "played"}, came : BOOLEAN]

\* Every variable has its type, and no session starts where no slot is.
TypeOK ==
  /\ clock \in 0..LastTick
  /\ game \in [slot : Slots, active : BOOLEAN]
  /\ sessions \in Seq(SessionType)
  /\ \A i \in DOMAIN sessions : sessions[i].starts % Week \in Slots
  /\ sweep \in {"due", "busy", "done"}
  /\ edit \in BOOLEAN /\ raced \in BOOLEAN

OneSessionPerStart == \A i, j \in DOMAIN sessions : sessions[i].starts = sessions[j].starts => i = j

\* However often pages and heartbeats materialise it and the organiser moves it,
\* an occurrence has one session, unless a session was materialised between an
\* edit and its move, or the move was lost.
OneSessionUnlessRaced == ~raced => OneSessionPerStart

\* Players who said yes to a coming session find it where the game now is: an
\* edit leaves no session behind on the old slot, unless it was raced as above.
SessionFollowsGame ==
  ~edit /\ ~raced => \A i \in Future : sessions[i].came => sessions[i].starts % Week = game.slot

\* No kickoff of an active game passes without a session for it, even when
\* nobody looks at the app: the heartbeat alone materialises it in time, also
\* for a game that was paused or moved since.
NoKickoffMissed ==
  [][clock' # clock /\ game.active /\ clock' % Week = game.slot
       => \E i \in DOMAIN sessions : sessions[i].starts = clock']_vars
===============================================================================
