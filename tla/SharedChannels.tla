---------------------------- MODULE SharedChannels -----------------------------
(***************************************************************************)
(* The browser's pool of realtime channels for one topic                   *)
(* (apps/web/src/lib/realtime/shared-channels.ts): consumers share one     *)
(* channel, the last one out closes it, and whoever comes back while it    *)
(* drains waits for that.  Calls run to completion; promise callbacks and  *)
(* the server's answers come between them.                                 *)
(***************************************************************************)
EXTENDS Integers, FiniteSets

CONSTANTS
  Consumers,   \* mounted components that listen to the topic
  MaxEntries   \* bound: the entries one run creates

ASSUME PoolAssumption == MaxEntries \in Nat

Entries == 1..MaxEntries
None == 0

VARIABLES
  live,      \* entries.get(topic)
  home,      \* the entry each consumer is subscribed to
  channel,   \* the channel each entry opened: an entry opens one at most
  draining,  \* draining.get(topic), the entry whose channel is closing
  waits,     \* the close each entry waits for before it opens its channel
  missed     \* what of the circle's messages a consumer has not been told to fetch

poolVars == <<live, home, channel, draining, waits>>
vars == <<poolVars, missed>>

Subs(e) == {c \in Consumers : home[c] = e}
Created == {e \in Entries : channel[e] # "unused"}

Init ==
  /\ live = None
  /\ home = [c \in Consumers |-> None]
  /\ channel = [e \in Entries |-> "unused"]
  /\ draining = None
  /\ waits = [e \in Entries |-> None]
  /\ missed = [c \in Consumers |-> "nothing"]

-------------------------------------------------------------------------------
(* acquire and release. *)

\* Mutant: a close still in flight is not waited for.
OpenAtOnce(e) ==
  /\ channel' = [channel EXCEPT ![e] = "joining"]
  /\ UNCHANGED waits

\* A fresh entry opens its channel, or waits for the old one to drain.
OpenOrWait(e) ==
  \/ /\ draining = None
     /\ channel' = [channel EXCEPT ![e] = "joining"]
     /\ UNCHANGED waits
  \/ /\ draining # None
     /\ channel' = [channel EXCEPT ![e] = "unopened"]
     /\ waits' = [waits EXCEPT ![e] = draining]

\* A consumer fetches what there is when it mounts.
Acquire(c) ==
  /\ home[c] = None
  /\ \/ /\ live # None
        /\ home' = [home EXCEPT ![c] = live]
        /\ UNCHANGED <<live, channel, waits>>
     \/ /\ live = None
        /\ \E e \in Entries \ Created :
             /\ \A f \in Entries \ Created : e =< f
             /\ live' = e
             /\ home' = [home EXCEPT ![c] = e]
             /\ OpenOrWait(e)
  /\ missed' = [missed EXCEPT ![c] = "nothing"]
  /\ UNCHANGED draining

Attached(e) == channel[e] \in {"joining", "joined", "dropped"}

\* The last one out forgets the entry and closes its channel, if it has one.
Release(c) ==
  LET e == home[c]
  IN  /\ e # None
      /\ home' = [home EXCEPT ![c] = None]
      /\ IF Subs(e) # {c} \/ live # e THEN UNCHANGED <<live, channel, draining>>
         ELSE /\ live' = None
              /\ IF Attached(e)
                   THEN channel' = [channel EXCEPT ![e] = "closing"] /\ draining' = e
                   ELSE UNCHANGED <<channel, draining>>
      /\ missed' = [missed EXCEPT ![c] = "nothing"]
      /\ UNCHANGED waits

-------------------------------------------------------------------------------
(* Promise callbacks. *)

\* Mutant: the drain is not forgotten when the close is acknowledged.
StillDraining(e) ==
  /\ channel[e] = "closing"
  /\ channel' = [channel EXCEPT ![e] = "closed"]
  /\ UNCHANGED <<live, home, draining, waits, missed>>

\* The close is acknowledged, or fails.
Drained(e) ==
  /\ channel[e] = "closing"
  /\ channel' = [channel EXCEPT ![e] = "closed"]
  /\ draining' = IF draining = e THEN None ELSE draining
  /\ UNCHANGED <<live, home, waits, missed>>

\* Mutants: nobody asks whether the entry is still wanted; the answer is no.
WantedOnce(e) == TRUE
NeverWanted(e) == FALSE

StillWanted(e) == live = e /\ Subs(e) # {} /\ channel[e] = "unopened"

OpenAfterDrain(e) ==
  /\ waits[e] # None /\ channel[waits[e]] = "closed"
  /\ waits' = [waits EXCEPT ![e] = None]
  /\ channel' = IF StillWanted(e) THEN [channel EXCEPT ![e] = "joining"] ELSE channel
  /\ UNCHANGED <<live, home, draining, missed>>

-------------------------------------------------------------------------------
(* The connection (supabase-js), and createRejoinTracker's reading of it. *)

\* The first SUBSCRIBED is silent.
Join(e) ==
  /\ channel[e] = "joining"
  /\ channel' = [channel EXCEPT ![e] = "joined"]
  /\ UNCHANGED <<live, home, draining, waits, missed>>

Drop(e) ==
  /\ channel[e] = "joined"
  /\ channel' = [channel EXCEPT ![e] = "dropped"]
  /\ UNCHANGED <<live, home, draining, waits, missed>>

\* Mutant: no reconnect event on a rejoin.
SilentRejoin(e) == missed

\* Every consumer is sent a reconnect event and fetches what it missed.
Reconnected(e) == [c \in Consumers |-> IF home[c] = e THEN "nothing" ELSE missed[c]]

Rejoin(e) ==
  /\ channel[e] = "dropped"
  /\ channel' = [channel EXCEPT ![e] = "joined"]
  /\ missed' = Reconnected(e)
  /\ UNCHANGED <<live, home, draining, waits>>

\* Somebody posts: those whose channel is joined fetch, the others miss it.
Post ==
  /\ missed' = [c \in Consumers |->
       IF home[c] = None \/ channel[home[c]] = "joined" THEN "nothing"
       ELSE IF channel[home[c]] = "dropped" THEN "while dropped" ELSE "before joining"]
  /\ UNCHANGED poolVars

Callback(e) == Drained(e) \/ OpenAfterDrain(e) \/ Join(e) \/ Rejoin(e)

Next ==
  \/ \E c \in Consumers : Acquire(c) \/ Release(c)
  \/ \E e \in Entries : Drained(e) \/ OpenAfterDrain(e) \/ Join(e) \/ Drop(e) \/ Rejoin(e)
  \/ Post

\* Callbacks are run, closes are answered or fail, and the client keeps trying to
\* join; nobody has to mount, unmount or post.
FairSpec == Init /\ [][Next]_vars /\ \A e \in Entries : WF_vars(Callback(e))

-------------------------------------------------------------------------------
ChannelState == {"unused", "unopened", "joining", "joined", "dropped", "closing", "closed"}

\* Every variable has its type, and a drain is the closing channel's.
TypeOK ==
  /\ live \in Entries \cup {None}
  /\ home \in [Consumers -> Entries \cup {None}]
  /\ channel \in [Entries -> ChannelState]
  /\ draining \in {e \in Entries : channel[e] = "closing"} \cup {None}
  /\ waits \in [Entries -> Entries \cup {None}]
  /\ missed \in [Consumers -> {"nothing", "while dropped", "before joining"}]

\* One channel of the topic exists at a time, the one that drains included:
\* asking supabase-js for the topic earlier would hand back the dying channel.
OneChannel == Cardinality({e \in Entries : Attached(e) \/ channel[e] = "closing"}) =< 1

\* A channel that is open has somebody to listen: the last one out closes it,
\* whether it was open, joining or still waiting for the drain.
NoOrphanChannel == \A e \in Entries : Attached(e) => live = e /\ Subs(e) # {}

\* A consumer that stays gets its channel in the end, however often others came
\* and went while the old one drained.
EveryConsumerListens ==
  \A c \in Consumers : home[c] # None ~> (home[c] = None \/ Attached(home[c]))

\* What a consumer misses while its connection is down it fetches after the rejoin.
DropsAreCaughtUp ==
  \A c \in Consumers : missed[c] = "while dropped" ~> missed[c] # "while dropped"
===============================================================================
