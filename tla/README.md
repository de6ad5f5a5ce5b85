# CUATRO, modelled and checked

CUATRO keeps a padel circle's weekly game alive: a Standing Game materialises a
session per week, members tap in, reserves queue, a rotation may pick the four,
and when a place is open the Fourth Call widens ring by ring, down to a public
link that a visitor without an account can follow. The logic is in
`apps/web/src/server` (Next.js route handlers over Postgres) and in
`packages/glass` (the rating engine). Paths below are relative to the
repository, `server/` stands for `apps/web/src/server/`.

## Inventory

| Component | State it keeps | Operations | What must hold |
|---|---|---|---|
| RSVP book (`server/games-service.ts`) | `rsvps` rows (status, position), `users.rsvpInCount/lateCancelCount` | `rsvpIn`, `rsvpOut`, `markAvailable`, `markUnavailable` | no more players than slots, no idle slot beside a queue, contiguous first-come queue, reliability counted once |
| Rotation (`games-service.ts`, `rotation.ts`) | `sessions.rotationLockedAt`, the `available` rows | `lockRotationIfDue`, `computeRotation`, `offerRotationSlotIfNeeded` | the lock decides everybody, late places only by consent while the rotation lasts and in turn after it, one first refusal at a time |
| Fourth Call (`games-service.ts`, `fourth-call.ts`, `local-ring.ts`, `played-with.ts`) | `fourth_call` notifications | `checkFourthCallLevel1`, `checkFourthCallPlayedWith`, `checkFourthCallLocalRing`, `claimFourthCallSlot` | a claim needs a grant and a free slot; nobody is called twice; the ladder goes on while a place is open |
| Guest links (`guest.ts`) | `rsvps.holdExpiresAt`, guest `users` | `claimGuestSlot`, `joinGuestReserveQueue`, `lockGuestName`, `convertGuestOnAuth` | a running hold is not taken away, a name accepted is a spot kept, a merge leaves nothing with the guest |
| Session knocks (`discovery.ts`) | `knocks` | `createSessionKnock`, `decideSessionKnock`, `withdrawSessionKnock` | a decision stands, an accepted knock is a seat counted once |
| Standing Games (`standing-games-service.ts`, `games-service.ts`, `tz.ts`) | `standing_games`, `sessions` | create, patch, toggle, materialise, reschedule, played transition | one session per occurrence, no kickoff without a session, sessions follow the patch |
| Scheduler (`scheduler.ts`) | none (a timer) | a tick every 60 s | maintenance happens without a view |
| Matches and Glass (`matches-db.ts`, `packages/glass`) | `matches`, `rating_events`, `users.rating`, `verifiedMatchCount`, `showUpCount` | `recordMatch`, `recordAdHocMatch`, `disputeMatch`, `confirmMatch`, `applyGlassAndPersist`, `creditShowUps` | a match is sealed once and as a whole, none is lost from a rating, reliability at most 100% |
| The Tab (`tab.ts`, `session-tab.ts`) | `tab_entries` | `addSplitEntry`, `createTabSplitForSession`, `nudgeEntry`, `proposeOrConfirmSettle` | a debt is settled by both sides, the balances agree, a session is split once |
| Circles (`circles.ts`) | `circles`, `circle_members` | create, join, leave, remove, transfer, settings | an organiser as long as there are members, the member limit, a leaver holds nothing |
| Open Door (`open-door.ts`) | circle `knocks` | `createCircleKnock`, `withdrawCircleKnock`, `decideCircleKnock` | a knock is settled once, no door overfills the circle |
| Realtime (`lib/realtime`) | the pool of shared channels, per topic | acquire, release, drain, rejoin | one channel per topic, none without a listener, everybody who stays gets theirs |
| Notifications, feed, unread, board, week, venues, shell, UI | none that decides anything | queries, inserts, rendering | – |

**How they interact.** Every handler that changes a session's roster is one
`db.transaction` at READ COMMITTED that first takes the `sessions` row `FOR
UPDATE`; the row is the mutex of the session. Likewise the `circles` row is the
mutex of a circle's roster, the `matches` row that of one match, the
`standing_games` row that of a game's sessions, and the `tab_entries` row that of
one debt. A leave takes sessions and the circle one after the other; a seal takes
its match and then `users` rows that other seals take too; a guest's merge walks
through nearly all tables. Realtime messages go out after the commit and carry no
state: the receiver reads again. Nothing is scheduled per session: whoever looks
at one (or the 60-second heartbeat) runs, in this order and each in a transaction
of its own, the lock, the played transition, the rotation offer and ring 1.

**What is hard here.** Several doors into the same slots, each with its own copy
of the capacity check and of the queue's arithmetic; settings that change under
a running session; time-outs that are enforced only by a contender (a guest's
hold) or by a view (a sit-out's offer); handlers that decide on what they read
without a lock (`lockGuestName`, `withdrawSessionKnock`, `updateCircleSettings`,
`createTabSplitForSession`, `loadPlayerState`); operations in several
transactions (`leaveCircle`, an edit of a standing game) that a tap, a view or a
crash may split; row locks taken in no fixed order; "already done" markers that
other features write too (`fourth_call` notifications); and, in the browser, a
channel that is closing while somebody asks for it again.

## Modules

| Module | Models |
|---|---|
| `SessionRsvp` | The RSVP book of one session, the settings the organiser may change, time |
| `RotationLock` | The lock of a limited rotation; the fair order is any ranking of the candidates |
| `FourthCall` | Rings 1, 2a and 2b, sit-out offers, claims |
| `GuestSlot` | Guest holds, sweeps, the guest queue, `lockGuestName` as a read and a write |
| `SessionKnock` | Session knocks, `withdrawSessionKnock` as a read and a write |
| `SessionRoster` | All of them interleaved over one set of rsvp rows; the properties |
| `SlotQueue` | Abstract: a game holds slots, queues the rest and promotes on every drop-out |
| `MatchSeal` | Recording and disputing matches; the seal, statement by statement |
| `MatchLedger` | Several seals beside guest merges, with Postgres' row locks and deadlock victims; the properties |
| `Circle` | One circle's roster, settings and handover, and what its members hold in upcoming sessions |
| `CircleDoor` | Circle knocks beside everything in `Circle`; the properties of both |
| `Tab` | The Tab of one circle |
| `StandingGame` | A game, its sessions, the heartbeat, edits in two transactions |
| `SharedChannels` | The browser's channel pool for one topic, beside an external connection |
| `MCSessionRoster`, `MCMatchLedger`, `MCCircleDoor`, `MCTab` | The instances TLC checks; the other two modules are given values in their `.cfg` |
| `SessionRoster_proofs`, `SessionPromise_proofs`, `StandingGame_proofs`, `MatchLedger_proofs`, `MatchRatings_proofs`, `CircleDoor_proofs`, `Tab_proofs`, `SharedChannels_proofs` | Theorems and their proofs |

`RotationLock` extends `SessionRsvp`, `FourthCall` extends `RotationLock`,
`GuestSlot` and `SessionKnock` extend `SessionRsvp`, and `SessionRoster` extends
the three: all share the variables of the RSVP book, and each action of one part
leaves the other parts' own variables alone. `MatchLedger` extends `MatchSeal`, and
`CircleDoor` extends `Circle`, in the same way.

### The session's roster

- `row[p]` and `position[p]` are the person's `rsvps` row; `"none"` is no row and
  0 the null position. `status`, `locked` and `game` are `sessions.status`,
  `rotationLockedAt # null` and the `standing_games` row. A one-off session
  behaves as an `"off"` game.
- `credited` and `charged` are whose `rsvpInCount` and `lateCancelCount` the last
  transaction incremented. The counters themselves only grow and nothing on this
  path reads them, so the increments are what a property can be about.
- `invites` are the session's `fourth_call` notifications, `spent` the offers that
  were read or ran out. `hold[g]` is `holdExpiresAt`.
- A handler that takes the session row is one action: its guard is the conjunction
  of the early returns, its primed variables the rows it writes, in the order that
  matters (a sweep before the count, the gap closed with the promotion). A handler
  that only reports an error is no step. `RefusedSweep` is one that reports an
  error and changes state all the same.
- Handlers that lock nothing are two actions, read and write, and any transaction
  may commit between them.
- Time is a tick counter. The code only compares instants, so `clock` needs the
  order of the window's opening, T-48h, the cutoff, T-24h, kickoff and end, and one
  instant between them where `<` and `=<` differ.
- The settings of a game are one record. `updateStandingGame` may replace it at any
  moment by another of `Games`; it does not lock any session, and it does not read
  the roster, so taking it as an action of its own loses no interleaving.
- Circle membership and `startsAt` are fixed here; they move in `Circle` and in
  `StandingGame`.
- `clock` is read at the action. In the code `now` is taken before the transaction
  waits for the row, so a tap that waits across kickoff is judged by the earlier
  instant.
- The rings' waiting times are not timed: an organiser may skip them, so any
  moment is possible. Their candidates are any set of people in `Nearby`.
- A knocker makes no new knock while a withdrawal of the last one is under way, so
  that `knock` is the row the withdrawal read.
- `status` never becomes `cancelled`: no code sets it.

### Seals and the Ledger

- A record or a dispute decides and writes under one row lock and is one action. A
  seal is several: `ConfirmMatch` takes the match row, `LoadPlayerStates` reads the
  four players, `InsertRatingEvent` and `UpdateRating` alternate over them,
  `CreditShowUp` takes each player who said "in", `CommitSeal` ends it. `txn[m]` is
  the transaction in flight, `lock[r]` who holds a `users` row (`r` a person) or a
  `matches` row (`r` a match).
- `ledger[p]` is the set of the player's `rating_events`. `createdAt` only ever orders
  the rows of one player, so a row names the matches of those created before it
  (`earlier`); `loadPlayerState` reads the last of the live ones (`Latest`), and all
  if none is live.
- READ COMMITTED: a transaction's updates of `users` wait in `txn` until its commit.
  Its inserts are in `ledger` at once, for the sake of the row they share-lock, and
  are read only through `Trail`, which leaves out what is not committed.
- The four loads are one step. Each player is written from what was read of that
  player before the first write, and no property relates the loads of two players.
- A rating is the set of matches it has absorbed: the engine's arithmetic is a
  function of the rating before and the result, so whatever loses a match from the
  set loses it from the number. The rating is set to the computed value, the show-up
  count added to, as in the code.
- A merge locks the two `users` rows in the order of their ids and then the rows it
  repoints: `matches` by one `UPDATE` per column of the four, each row of a column in
  any order (`LockMatchRow`), and all the rest in the step that commits. It waits for
  a match row that a seal holds and for a `users` row that an
  uncommitted Ledger row refers to, and a Ledger insert waits for it in turn.
  `WaitsFor` is that relation; `AbortDeadlocked` is Postgres choosing a victim on a
  cycle. Any open transaction may roll back at any moment (`Crash`,
  `MergeRollback`): a dead process, a lost connection or an error.
- `raced` is a history variable: the players whom two open transactions had in hand
  at the same time. It is written by the actions and read by properties only.
- Matches are recorded with the identities of the roster. A roster screen that was
  open before a merge may still send the guest's id, so a husk may be recorded. The
  husk keeps its `verifiedMatchCount` while its rows have moved on, and then
  `loadPlayerState` throws (`LoadThrows`): such a match can never be sealed, each
  attempt rolls back.
- A report names four people, not two identities of one: "one real person is one
  roster entry at record time" (`guest.ts:451`). It is an assumption of the module
  (`MergeAssumption`), with the note as its justification.

### Circles and the Open Door

- `role[p]` is the `circle_members` row, `settings` the two fields of `circles` that
  matter, `patch` a save whose checks have passed. `CheckSettings` and
  `UpdateCircleSettings` are two steps: `updateCircleSettings` locks nothing.
- A departure (`leaveCircle`, `removeMember`) is a request in `going[d]`: the first
  check, the withdrawals one session at a time (`WithdrawFutureRsvp`, each a
  transaction under the session row), then `Depart` or `Refuse` under the circle's
  row. `available[s]` and `held[s]` are whose rsvp is 'available' and whose is 'in' or
  'reserve'; `tapping[s]` is a tap that holds the session row and has read the
  membership and the game.
- `rotation[s]` is what `markUnavailable` asks: "gathering" while the game is a
  rotation and the session not locked, "off" without a rotation, "locked" from
  `lockRotationIfDue` on, whatever the settings are then (it refuses either way).
  Limited and unlimited are not told apart: `SwitchRotation` could turn one into the
  other between any two steps, so what either allows is allowed while gathering.
- A departure's list is what `withdrawFutureRsvps` read before the first withdrawal:
  `left` the sessions still to do, `declared` those whose rsvp was 'available' then.
  The way of the withdrawal is chosen by the list, not by the row as it is by now.
- `late` and `refused` are history variables: whose rsvp is a tap that landed after
  their departure had begun, and whose rsvp `markUnavailable` would not take back.
  Either ends when the rsvp does. The ways into a session that need no membership
  (a claimed call or link, an accepted session knock) are `SessionRoster`'s; a former
  member may use them like anybody else.
- `createCircleKnock` is `CheckKnock` and then the insert, which a partial unique
  index may refuse; `withdrawCircleKnock` is one conditional `UPDATE`;
  `decideCircleKnock` is `CheckDecision` and then the transaction.
- `MergeGuest` is what `convertGuestOnAuth` does to `circle_members`.
- `MIN_MAX_MEMBERS` is 4; the instances use a limit of 2 so that three people meet
  it. No property depends on the number.

### The Tab

- An entry is indexed by its split and the identity its debtor had when it was
  written; `split[n]` is the session a split is for. `who[p]` is the identity a
  person has become. `request[r]` is a split whose checks have passed.
- `stale` on a request and `raced` on an entry are history: another split or a merge
  committed between the checks and the insert.
- `agreed` is history too: everybody who said the debt was settled. The code has one
  column, `claimedBy`.
- All entries are in one currency and one circle; balances are computed per currency
  in the code. Every split shares `Total` among its debtors and its payer.
- A guest's merge is thus modelled three times, once with each group of tables it
  touches: memberships in `Circle`, matches, answers and counters in `MatchLedger`,
  debts in `Tab`.

### Standing games

- `game.slot` is the weekday and time as an offset in the week, `sessions` the rows
  in the order of their creation, `came` whether anybody said yes to one.
- Each action is a transaction under the `standing_games` row. An edit commits in
  `UpdateStandingGame` and moves the soonest session in `Reschedule`; in between
  anything may happen, `Crash` included.
- The heartbeat is the process `sweep`: it reads the active games (`SweepReads`),
  then ensures each (`SweepEnsures`). `Tick` waits for it, since a tick of the model
  stands for hours and the heartbeat comes every 60 seconds.
- `raced` is a history variable: a session was materialised between an edit and its
  move, or the move was lost.
- Daylight saving is not modelled: slots are instants modulo a week.

### Channels

- An entry of the pool opens one channel at most, so `channel[e]` is the channel's
  state and entries are numbered by creation. `live` and `draining` are the pool's
  two maps for the topic. `acquire` and `release` run to completion; `.then` and
  `.finally` callbacks (`OpenAfterDrain`, `Drained`) and supabase-js
  (`Join`, `Drop`, `Rejoin`, external) come between them.
- `missed[c]` says whether something was posted that the consumer has neither
  received nor been told to fetch, and whether its channel was down or not yet
  joined at the time.

A definition marked *Mutant* is not part of any specification. It is a slip the
code could have, and a property that would not notice it would say nothing.

## Runs

Deadlock is not checked anywhere: in every model the system may stop, because
nobody has to act, the timeline ends or a bound is reached. That seals and merges
never wait for each other forever is a liveness property instead.

| Run | Instance | Shows |
|---|---|---|
| `members` | `SessionRoster`: 4 members, 2 outsiders (one in reach of the rings, one knocking), 2 slots, no rotation | `NeverOversubscribed`, `NoIdleSlot`, `QueueContiguous`, `EverySeatCounted`, `RosterFrozenAfterKickoff`, and that the game implements `SlotQueue` (`KeepsPromise`) |
| `guests` | `SessionRoster`: 2 members, 3 guests, the organiser switches between 2 slots and 1 | `NoStepOverbooks`, `QueueOrderStable`, `HeldGuestStays` |
| `rotation` | `SessionRoster`: 3 members, 1 visitor with the public link, 1 slot, the organiser switches between limited, unlimited and off at any time, after the lock too | `LockedStrandsNobody`, `SeatedByClaimOrInTurn`, `LateFillFits` |
| `seals` | `MatchLedger`: 4 accounts, a guest who merges into one of them, two matches whose fours share players in opposite orders | seals are whole (`SealedOnceAsAWhole`), reliability stays within 100% (`ReliabilityHonest`), trails add up where nothing raced (`UnracedTrailAddsUp`), rows only pass to an account (`LedgerAppendOnly`), a husk is empty (`MergeDrainsGuest`), every transaction ends (`EveryTransactionEnds`) |
| `circle` | `CircleDoor`: 2 accounts, 2 guests, one session whose rotation is switched and locked, two departures in flight | `GuestsNeverLead`, `OnlyLateOrRefusedLinger`, `LedToTheLast` |
| `door` | `CircleDoor`: 3 accounts, a guest, 2 knocks, a limit of 2 or none and a door the organiser may change | `NoDoorOverfills`, `KnockSettledOnce` |
| `tab` | `Tab`: 2 accounts, a guest, a session and a bill, 2 requests in flight, 2 splits | `SettledByBoth`, `PagesAgree`, `DebtsFollowMerges`, `OnlyRacedSplitsRepeat` |
| `standing` | `StandingGame`: weeks of 4 ticks, 2 slots, 8 ticks, 3 sessions | `OneSessionUnlessRaced`, `SessionFollowsGame`, `NoKickoffMissed` |
| `channels` | `SharedChannels`: 3 consumers, 4 entries | `OneChannel`, `NoOrphanChannel`, `EveryConsumerListens`, `DropsAreCaughtUp` |

`TypeOK` of each specification is checked in one of its runs.

**Bounds.** The rosters run on a timeline 0..6 with the window opening at 1, T-48h
at 2, T-24h at 3, kickoff at 5, end at 6, and a hold of one tick. `members` is
where a queue of two stands behind two slots, the smallest case with both a first
and a second in line and a choice of who drops out. `guests` lets three holds and
two taps compete for one or two slots and has a queue of four. `rotation` has two
sit-outs behind one slot and all orders of claim, lock, drop-out and settings
change. `MaxPosition = 4` bounds the queue numbers a run hands out; it is only met
where reserves leave gaps (`guests`), and the code has no bound. In `seals` the
fours are `<<1, 2, 3, 4>>` and `<<3, 9, 1, 4>>`: two seals take players 1 and 3 in
opposite orders and so deadlock, the merge of 9 into 2 touches a player of each
match, `m1` may also be played by the guest itself (`<<1, 9, 3, 4>>`), so that both of
its matches may be sealed before or after it merges, and each match may be of a kind
that Glass leaves out; only the guest answers for
the session, once (`MaxTaps`), the player whose answer and counters move.
`circle` has two departures because leaving, removing one another and handing over
races between two; two accounts can pass the organiser's role between them while a
guest stays, and one session is all that a withdrawal looks at. `door` needs two knocks for a knocker who knocks again and two
organisers in turn for a knock decided twice; a save may set the limit below what
a join has reached by then, which is why `NoDoorOverfills` speaks of steps. `tab`
has two requests, the least that race, and a guest among the debtors. `standing`
covers two weeks with an edit in either direction across the current instant; a
run stops materialising at `MaxSessions`. `channels` has enough entries for a
consumer to come back twice while one channel drains; symmetric sets are declared
where no liveness is checked.

**Fairness.** `seals` assumes strong fairness of the statements of an open
transaction and of a merge's locks, and weak fairness of the deadlock detector:
Postgres runs what is not blocked, hands a contended row to its waiters in turn,
and aborts one transaction of every cycle. Nobody has to record, answer, confirm
or sign in; a transaction may still be rolled back at any point, which also ends
it. People stop confirming a match at some point (`<>[][~ConfirmMatch(m)]`): a confirm
is a tap of somebody, not a retry of the program, and two seals that are aborted and
tapped again for ever could keep a merge waiting for ever. `channels` assumes weak fairness of callbacks and of the connection's attempts
to join: promises settle and supabase-js retries. Nobody has to mount, unmount or
post. `standing` states the heartbeat's promise as safety, since `Tick` waits for
it. The rosters state no fairness: what moves them is people.

**Violations.** Three runs each exhibit a disagreement between the code and what
the repository says of it; `PROJECT.json` quotes the lines.

| Run | What happens |
|---|---|
| `limited_oversold` | Ring 1 calls at T-48h on a rotation that is still gathering; a claim takes a slot, the lock then seats `slots` more. |
| `offer_silences_call` | Offers to the sit-outs are `fourth_call` notifications, so ring 1 takes itself for already fired. |
| `lost_seal` | Two seals load a shared player before either writes: the later commit overwrites the rating and the match count, and one match is missing from both. |

**Conditions of the passing runs.** Where a passing run restricts the instance, or
a property carries a condition, so that one of these or of the divergences below
cannot occur, the restriction is part of the claim. `members` lets the knocker be
reached by no ring and has no guests, whose swept holds leave a slot idle while
members wait, as `guest.ts:96-104` admits (`NoIdleSlot` fails with guests);
`NeverOversubscribed` is claimed of games without rotation that are not resized,
`NoStepOverbooks` of games that are, and `LateFillFits` of all after the lock.
`UnracedTrailAddsUp`, `OnlyRacedSplitsRepeat`, `DebtsFollowMerges`,
`OneSessionUnlessRaced` and `SessionFollowsGame` each name, by a history variable,
the one overlap that breaks them, and so claim that nothing else does.
`OnlyLateOrRefusedLinger` names two, `late` and `refused`. `SeatedByClaimOrInTurn`
holds of every state after the lock, and so lets in the promotion that asks nobody
once the game has left the limited rotation; it claims that this comes only when a
player drops out, and to the front of the queue.

**Divergences met, without a run of their own.** Each is reachable in the model
named, and lies behind one of the conditions above.

- Dropping out of mere availability in an unlimited rotation is charged as a late
  cancel and promotes a reserve (`games-service.ts:522,564`), against "Confirmed-then-
  cancelled inside 24h" (`packages/db/src/schema/users.ts:80`). `SessionRsvp`.
- A sweep between `lockGuestName`'s read and its write: the guest is told "ok"
  without a spot (`guest.ts:244-260`). `GuestSlot`.
- The organiser accepts between `withdrawSessionKnock`'s read and its write: the
  knock ends withdrawn, the player in (`discovery.ts:556`). `SessionKnock`.
- A knocker claims by a ring, then the knock is accepted: the seat is counted twice
  (`discovery.ts:676`). `SessionRoster`.
- A sit-out who passed by leaving the queue comes back inside the window, and two
  hold first refusal on one spot (`games-service.ts:1446,1473`). `FourthCall`.
- Two requests split one session twice, against "one split per session, ever"
  (`session-tab.ts:38-43`). `Tab`.
- A message posted between the drain of the old channel and the first `SUBSCRIBED`
  of the new one reaches nobody: that first join is silent
  (`shared-channels.ts:28-31`). `SharedChannels`, `missed = "before joining"`.
- A lone organiser leaves, somebody joins by link: the circle has a member and no
  organiser, against "so nobody is ever stranded in an ownerless group"
  (`circles.ts:84`). `Circle`.
- A tap that lands between a leaver's withdrawals and the deletion keeps its place,
  against "so a leaver/removed member never lingers on a future roster"
  (`circles.ts:492-493`). `Circle`, `late`.
- `withdrawFutureRsvps` takes back an 'available' rsvp by `markUnavailable`, which
  refuses once the line-up is locked or the rotation switched off
  (`games-service.ts:1292-1293`); the refusal is ignored (`circles.ts:517-518`). With
  a lock between the list and its turn the leaver keeps a place in the line-up or the
  queue; with the rotation off before they even ask to leave, they keep the
  availability, which a later lock turns into a place. `Circle`, `refused`.
- The organiser turns a locked limited rotation off or unlimited, and the next
  drop-out promotes a sit-out unasked (`games-service.ts:577-591` reads the settings
  of the moment), although "a sit-out was TOLD to sit out and may have made other
  plans, so they get a consent OFFER" (`:573-575`). `SessionRsvp`, `DropOutPromoting`.
- A view between an edit and its move materialises a session at the new time, and
  the move puts the old one on the same instant, against "so two rows never land on
  the same instant" (`games-service.ts:262-264`). `StandingGame`.
- A merge leaves `verifiedMatchCount` on the husk without its rows (`guest.ts:504-531`).
  A match that is then recorded with the husk, from a roster screen opened before, can
  never be sealed (`matches-db.ts:412-417`). `MatchSeal`, `LoadThrows`.
- A reschedule keeps `rotationLockedAt` and the line-up of the old instant
  (`games-service.ts:270`). No module has both.

## Proofs

Eight modules hold theorems, for every value of the constants that satisfies the
named assumptions of the modules. `PROJECT.json` lists which theorem states which
property.

### The roster (`SessionRoster_proofs`)

The assumptions: people are finitely many and members, outsiders and guests are
distinct; the instants are in order; a hold lasts.

- `TypeCorrect`: one lemma per group of actions. It rests on `NextPositionIsLast`
  (the maximum of the queue numbers exists because the queue is finite:
  `MaxOfNaturals`, by well-foundedness of the strict subset order) and on
  `GapClosedType` (closing the gap of a reserve leaves no reserve at 0).
- `LockDecidesEverybody` (`LockedStrandsNobody`): inductive by itself, given types.
- `EveryStepFits` (lemma): while nobody is merely available, no step adds a player
  beyond the slots. Steps seat nobody, seat one after counting, or swap a holder
  for a reserve; that the one who leaves is a holder is exactly what fails for an
  `available` row, hence the hypothesis. From it follow
  - `LockedGameFits` (`LateFillFits`), because the lock leaves nobody available;
  - `PlainGameNeverOverbooks` (`NoStepOverbooks`) for games without rotation, where
    `NobodyMerelyAvailable` holds;
  - `PlainGameNeverOversubscribed` (`NeverOversubscribed`) when the game is also
    never resized.
- `GuestsKeepTheirHold` (`HeldGuestStays`): action by action, given types.
- `LateSeatsAreClaimedOrInTurn` (`SeatedByClaimOrInTurn`): needs that outsiders are
  never queued (`OutsidersComeInDirectly`), for an accepted knock seats its knocker
  unasked, and `LockDecidesEverybody`, for a promotion when an `available` row drops
  out would fill a place that nobody vacated.
- `PlainQueueIsFair` (`QueueOrderStable`), games without rotation: the invariant is
  `DistinctNumbers`. Closing a gap moves everyone behind it by one and would merge
  two neighbours only if somebody still stood at the vacated number; a claim out of
  the queue may leave a gap, but never a tie. With rotation both fail to be
  inductive, because the lock numbers its sit-outs from 1 beside an existing queue.
- `PlainGameHasNoIdleSlot` and `PlainQueueIsContiguous`, games without rotation,
  resizing and guest links: the invariant is `FullOrNobodyWaits`, both facts
  together. Neither is inductive alone: a claim by a reserve would leave a gap if a
  reserve could wait beside an open slot. A promotion swaps a player for a reserve,
  so the number of players stays (`FS_AddElement`, `FS_RemoveElement`). The three
  hypotheses are needed: a resize opens slots with nobody promoted, and guests queue
  without a look at capacity.
- `SeatsAreCountedOnce` (`EverySeatCounted`), where no knocker can also claim: the
  invariant `KnockersWait` says that nobody invites a knocker and that a knocker
  with a pending knock is not yet in.
- `KickoffFreezesTheRoster` (`RosterFrozenAfterKickoff`): action by action.

### The circle and its door (`CircleDoor_proofs`)

The assumptions: people are finitely many, accounts and guests are distinct, the
founder has an account.

- `OnlyAccountsLead` (`GuestsNeverLead`): inductive by itself. The handover is the
  one action that makes an organiser, and a merge moves a guest's role to an account.
- `CircleKeepsAnOrganiser` (`LedToTheLast`): an action property. Only `Depart` of the
  last organiser could break it, and there the check under the lock decides; a
  handover swaps two roles, and a merge moves no organiser because no guest is one.
- `LimitHolds` (`NoDoorOverfills`): every join adds one person to a roster that was
  counted below the limit; everything else adds nobody. It counts with
  `FS_AddElement` and `FS_CardinalityType`.
- `KnocksSettleOnce` (`KnockSettledOnce`): a decision changes a knock only if it is
  still pending under its lock, and a withdrawal only the pending ones.
- `WithdrawnBeforeGone` (`OnlyLateOrRefusedLinger`): not inductive, because `Depart`
  looks at the withdrawals still on its list, not at what the member holds.
  `AllIsOnTheList` closes it: whatever a person whose departure is under way holds is
  on that departure's list, or they tapped late, or its withdrawal was refused.
  `OutTakesAll` is what every "out" does to the rsvps and their history.

### The Tab (`Tab_proofs`)

The assumptions: people are finitely many, the organiser has an account, the names
of sessions and of "no session" differ.

- `SettlementNeedsBoth` (`SettledByBoth`): with `Sides` (the claimant, if any, is one
  of the two sides and has agreed, and the payer is not the debtor) and
  `PayersAskOthers`. A merge renames the claimant together with the sides; an entry
  whose sides became one person is gone.
- `DebtsMoveWithTheirDebtor` (`DebtsFollowMerges`): with `Identities` (an identity is
  itself, or a guest's that became an account; accounts never merge) and
  `FreshRequestsFollow` (a request that no merge has overtaken names nobody who has
  been merged).
- `SplitsRepeatOnlyRaced` (`OnlyRacedSplitsRepeat`): with `SplitsInOrder` (splits are
  numbered in the order of their creation) and `FreshRequestsAreFirst` (a request
  that was not overtaken is for a session without a split). A merge may delete the
  last entry of a split as a debt to oneself; the session is then without a split
  again, and the two never stand side by side.

- `EveryPageAddsUp` (`PagesAgree`), with `Sides` again: a debt to oneself would count
  on neither balance and twice in the net position. The balances are sums over the
  unsettled entries, and the net position of a person is the sum of the balances with
  everybody, so the proof is an exchange of two sums (`SumByColumns`), a sum with one
  term that is not 0 (`SumOfOne`) and the sum of the opposites (`OppositeSum`).
  `SumFunction` of the community modules recurs over the subsets of its domain. The
  laws hold of all subsets at once: the recursion has a solution (`SumsExist`), and a
  set of subsets that is closed under adding one picked element contains every subset
  (`SetOfSubsets`), which follows from the well-foundedness of strict inclusion and
  needs no induction over an operator.

### The channel pool (`SharedChannels_proofs`)

`OneChannelPerTopic` (`OneChannel`) and `NobodyLeavesAChannelOpen`
(`NoOrphanChannel`) for any number of consumers and entries, from `PoolInv`:
consumers are at home in the live entry (`HomeIsLive`), a live entry has a consumer
and no closed channel (`LiveIsWanted`), an open channel is the live entry's while
nothing drains (`AttachedIsLive`), a closing one is the draining one
(`ClosingIsDraining`), and a live entry without a channel waits for the drain in
progress or for one that is over (`WaitingIsWoken`). The last part is what makes
`OpenAfterDrain` safe: without it an entry could open beside a later drain.

### What a plain game promises (`SessionPromise_proofs`)

`PlainGameKeepsPromise` (`KeepsPromise`): a game without rotation, resizing and guest
links implements `SlotQueue`. The invariant `PlainGame` gathers what the roster's
theorems have established (types, nobody merely available, full or nobody waits, never
oversubscribed). The refinement mapping sends the reserves to the sequence of them in
the order of their numbers, which is a `CHOOSE`; `NumbersMakeALine` shows that it
exists and is unique, because the numbers are exactly 1..n, and the lemmas after it say
what joining the end (`LineGrows`), leaving from any place (`LineCloses`) and leaving
the rest alone (`LineStays`) do to it. Then each kind of transaction is a step of the
queue or a stutter, the promotion one step in which the head of the line moves up. The
hypotheses are those of `QueueContiguous`; with guests or resizing a slot may be idle
beside a queue, and the promise is not made.

### Standing games (`StandingGame_proofs`)

The assumptions: weeks and sessions last at least a tick, and slots lie within the week.

- The arithmetic comes first: `NextOccurrence` and `OnlyNextOccurrence` say that
  `ComputeNextOccurrence` is the one instant of the slot in `(now, now + Week]`, and
  `NextOccurrenceStays` that time passing does not change it until it is reached.
- `OccurrencesHaveOneSession` (`OneSessionUnlessRaced`) and `PlayersFollowTheGame`
  (`SessionFollowsGame`) from `GameInv`: played sessions are over (`PlayedIsPast`),
  without a race at most one session is to come (`OneToCome`), and outside an edit it
  is at the next occurrence (`ToComeIsNext`). Uniqueness alone is not inductive: a
  move could put a session onto another that is also to come.
- `HeartbeatMissesNoKickoff` (`NoKickoffMissed`) from `KickoffInv`: whenever the
  heartbeat has done its round and the game is active, a session stands at the next
  occurrence. Every edit and pause sets the heartbeat back to work before time may
  pass; a move after its round may only bring a session to the next occurrence.

### Seals and merges (`MatchLedger_proofs`)

The assumptions: finitely many people, matches and sessions with distinct names,
reports of the shape `validateRecordShape` lets through, guests merge into accounts,
and one person is one roster entry.

`LedgerInv` is one invariant for all four theorems. Its parts need each other:

- `SealShape`: a recorded match has four players who stay four people whatever merges,
  and a transaction's place in its loop fits the kind of its match. A merge preserves
  it only under `MergeAssumption`.
- `RowsWritten`: which of the four have a row, as a function of how far the seal has
  come, and that no player has two rows of a match. It is `SealedOnceAsAWhole` with
  the uncommitted states filled in.
- `LocksHeld`: a seal in flight holds its match's row, a merge the `users` rows it has
  come to, and while it does no seal has an open row of either player. Without the
  last part a merge could carry off the row of a seal that then rolls back.
- `RowsOrdered`, `TrailsHaveALast`: the rows of a player are ordered by `earlier`, and
  a committed trail has a last row of the player's own, so that what `loadPlayerState`
  reads exists. A merge into an account with rows of its own marks the guest's, and
  that mark is what keeps one order from becoming two interleaved ones.

From it follow `TypeCorrect` (here types are no separate invariant: `Loaded` has its
type only because a last row exists), `SealsAreWhole` (`SealedOnceAsAWhole`),
`MergeLeavesNothing` (`MergeDrainsGuest`) and `LedgerIsAppendOnly`
(`LedgerAppendOnly`), the last with `MergesGuests` (nobody merges a husk), so that a
row passes on at most once.

### What seals write on players (`MatchRatings_proofs`)

- `ReliabilityIsHonest` (`ReliabilityHonest`): `showUp =< rsvpIn` is not inductive, for
  a seal adds to the left side alone. `NobodyIsOverCredited` adds what is still owed:
  the sessions a player said "in" to, or is being credited with, whose match is not
  verified. `SessionsInv` (one match per session; a seal credits only players of its
  match whose row it holds) makes a commit move one session from owed to credited, and
  a merge the union of two people's. An "out" after an "in" is not undone in
  `rsvpInCount`, which only helps.
- `UnracedTrailsAddUp` (`UnracedTrailAddsUp`) from `RatingInv`: every overlap is in
  `raced` (`RacesNoted`); what a seal read of an unraced player is still what `users`
  says (`SeenIsCurrent`); its open rows carry that reading and come after every
  committed row (`OpenRows`); and the mirror of every unraced identity that is not a
  husk is its live trail (`MirrorsAddUp`). The guests must be in: an account that adopts a trail
  inherits what held of the guest. The count is a cardinality of the set of matches,
  so a commit adds one because the match was not in it, and an adoption maps rows one
  to one (`ImageAddsUp`).

### Only model-checked

Liveness under fairness: `EveryTransactionEnds`, `EveryConsumerListens` and
`DropsAreCaughtUp` are beyond the prover, and so is `FourthCallTakesOver`, which uses
`ENABLED`. Every other property of a passing run is a theorem: all invariants, all
action properties and the refinement.

## Not modelled

- The rosters' handlers statement by statement: they serialise on the session row,
  and what they read before it is a step of its own where a decision hangs on it.
  The early `now` is the exception named above.
- `computeRotation`: a pure sort, reached directly by the repository's unit tests;
  `RotationLock` allows every ranking it could return. The Glass engine's
  arithmetic: pure, floating point, and tested in its package.
- The Fourth Call's 20-minute waits: a ring may fire at any moment, so liveness of
  the ladder would need times the model does not have. Ring 3's token is a
  signature; whoever follows it is one of `LinkHolders`.
- The conversion of a guest in place (no account to merge into) changes one row. The
  merge of comments, reactions and inboxes decides nothing.
- A merge that deletes the guest's row of a session the account answered, without
  promoting a reserve: needs the merge inside the roster.
- Notifications, feed, unread, week, board, venues, shell, rendering, push and
  telemetry: read models and inserts that no handler decides on. They are most of
  the repository's lines. Rate limits and the auth provider's sessions are external.

What could follow: the merge of a guest inside the roster.
