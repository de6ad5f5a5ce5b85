------------------------- MODULE SharedChannels_proofs -------------------------
(***************************************************************************)
(* Proofs about SharedChannels for any number of consumers and entries.    *)
(***************************************************************************)
EXTENDS SharedChannels, FiniteSetTheorems, TLAPS

\* Consumers sit on the live entry only, and somebody sits there.
HomeIsLive == \A c \in Consumers : home[c] \in {None, live}
LiveIsWanted ==
  live # None =>
    /\ \E c \in Consumers : home[c] = live
    /\ channel[live] \in {"unopened", "joining", "joined", "dropped"}

\* An open channel is the live entry's, and opens only when nothing drains.
AttachedIsLive ==
  \A e \in Entries : Attached(e) => e = live /\ draining = None

\* The pool remembers every channel that closes.
ClosingIsDraining == \A e \in Entries : channel[e] = "closing" => e = draining

\* A live entry without a channel has a callback coming, from the drain.
WaitingIsWoken ==
  live # None /\ channel[live] = "unopened"
    => waits[live] # None /\ draining \in {None, waits[live]}

PoolInv ==
  /\ HomeIsLive /\ LiveIsWanted /\ AttachedIsLive /\ ClosingIsDraining /\ WaitingIsWoken

-------------------------------------------------------------------------------
\* Every variable keeps its type.
LEMMA TypeStep ==
  ASSUME TypeOK, [Next]_vars
  PROVE  TypeOK'
<1> USE DEF TypeOK, ChannelState, Entries, None
<1>1. ASSUME NEW c \in Consumers, Acquire(c)
      PROVE  TypeOK'
  <2>1. CASE live # None
    BY <1>1, <2>1 DEF Acquire
  <2>2. CASE live = None
    <3>1. PICK e \in Entries \ Created :
            live' = e /\ home' = [home EXCEPT ![c] = e] /\ OpenOrWait(e)
      BY <1>1, <2>2 DEF Acquire
    <3>2. channel[e] = "unused"
      BY <3>1 DEF Created
    <3>3. /\ channel' \in [Entries -> ChannelState] /\ waits' \in [Entries -> Entries \cup {None}]
          /\ \A f \in Entries : channel[f] = "closing" => channel'[f] = "closing"
      BY <3>1, <3>2 DEF OpenOrWait
    <3>4. draining' = draining /\ missed' \in [Consumers -> {"nothing", "while dropped", "before joining"}]
      BY <1>1 DEF Acquire
    <3> QED BY <3>1, <3>3, <3>4
  <2> QED BY <2>1, <2>2
<1>2. ASSUME NEW c \in Consumers, Release(c)
      PROVE  TypeOK'
  BY <1>2 DEF Release, Attached
<1>3. ASSUME NEW e \in Entries, Drained(e)
      PROVE  TypeOK'
  BY <1>3 DEF Drained
<1>4. ASSUME NEW e \in Entries, OpenAfterDrain(e)
      PROVE  TypeOK'
  BY <1>4 DEF OpenAfterDrain, StillWanted
<1>5. ASSUME NEW e \in Entries, Join(e) \/ Drop(e)
      PROVE  TypeOK'
  BY <1>5 DEF Join, Drop
<1>6. ASSUME NEW e \in Entries, Rejoin(e)
      PROVE  TypeOK'
  BY <1>6 DEF Rejoin, Reconnected
<1>7. CASE Post
  BY <1>7 DEF Post, poolVars
<1>8. CASE UNCHANGED vars
  BY <1>8 DEF vars, poolVars
<1> QED BY <1>1, <1>2, <1>3, <1>4, <1>5, <1>6, <1>7, <1>8 DEF Next

\* Every variable has its type, and a drain is the closing channel's, in every run.
THEOREM TypeCorrect == FairSpec => []TypeOK
<1>1. Init => TypeOK
  BY DEF Init, TypeOK, ChannelState, Entries, None
<1> QED BY <1>1, TypeStep, PTL DEF FairSpec

-------------------------------------------------------------------------------
\* No entry is None.
LEMMA EntriesAreSome == \A e \in Entries : e # None
BY PoolAssumption DEF Entries, None

\* Where no entry is live no channel is open.
LEMMA NoneOpen ==
  ASSUME AttachedIsLive, live = None
  PROVE  \A e \in Entries : ~Attached(e)
BY EntriesAreSome DEF AttachedIsLive

LEMMA PoolStep ==
  ASSUME TypeOK, PoolInv, [Next]_vars
  PROVE  PoolInv'
<1> USE EntriesAreSome DEF TypeOK, PoolInv, HomeIsLive, LiveIsWanted, AttachedIsLive,
            ClosingIsDraining, WaitingIsWoken, Attached
<1>1. ASSUME NEW c \in Consumers, Acquire(c)
      PROVE  PoolInv'
  <2>1. CASE live # None
    BY <1>1, <2>1 DEF Acquire
  <2>2. CASE live = None
    <3>1. PICK e \in Entries \ Created :
            live' = e /\ home' = [home EXCEPT ![c] = e] /\ OpenOrWait(e) /\ draining' = draining
      BY <1>1, <2>2 DEF Acquire
    <3>2. channel[e] = "unused" /\ e # None
      <4>1. e \in Entries /\ channel[e] = "unused"
        BY <3>1 DEF Created
      <4> QED BY <4>1
    <3>3. HomeIsLive' /\ LiveIsWanted'
      BY <2>2, <3>1, <3>2 DEF OpenOrWait
    <3>4. CASE draining = None
      <4>1. channel' = [channel EXCEPT ![e] = "joining"]
        BY <3>1, <3>4 DEF OpenOrWait
      <4>2. \A f \in Entries : ~Attached(f)
        BY <2>2, NoneOpen
      <4>3. AttachedIsLive' /\ ClosingIsDraining'
        BY <3>1, <3>4, <4>1, <4>2
      <4>4. WaitingIsWoken'
        BY <3>1, <4>1
      <4> QED BY <3>3, <4>3, <4>4
    <3>5. CASE draining # None
      <4>1. channel' = [channel EXCEPT ![e] = "unopened"] /\ waits' = [waits EXCEPT ![e] = draining]
        BY <3>1, <3>5 DEF OpenOrWait
      <4>2. \A f \in Entries : ~Attached(f)
        BY <2>2, NoneOpen
      <4>3. AttachedIsLive' /\ ClosingIsDraining'
        BY <3>1, <3>5, <4>1, <4>2
      <4>4. WaitingIsWoken'
        BY <3>1, <3>5, <4>1
      <4> QED BY <3>3, <4>3, <4>4
    <3> QED BY <3>4, <3>5
  <2> QED BY <2>1, <2>2
<1>2. ASSUME NEW c \in Consumers, Release(c)
      PROVE  PoolInv'
  <2> DEFINE e == home[c]
  <2>1. e = live /\ e # None /\ home' = [home EXCEPT ![c] = None] /\ waits' = waits
    BY <1>2 DEF Release
  <2>2. CASE Subs(e) # {c}
    <3>1. UNCHANGED <<live, channel, draining>>
      BY <1>2, <2>2 DEF Release
    <3>2. \E d \in Consumers : d # c /\ home[d] = live
      BY <2>1, <2>2 DEF Subs
    <3> QED BY <2>1, <3>1, <3>2
  <2>3. CASE Subs(e) = {c}
    <3>1. /\ live' = None
          /\ IF Attached(e) THEN channel' = [channel EXCEPT ![e] = "closing"] /\ draining' = e
             ELSE UNCHANGED <<channel, draining>>
      BY <1>2, <2>1, <2>3 DEF Release
    <3>2. \A d \in Consumers : home'[d] = None
      BY <2>1, <2>3 DEF Subs
    <3>3. HomeIsLive' /\ LiveIsWanted' /\ WaitingIsWoken'
      BY <3>1, <3>2
    <3>4. \A f \in Entries : Attached(f) => f = e
      BY <2>1
    <3>5. AttachedIsLive' /\ ClosingIsDraining'
      <4>1. CASE Attached(e)
        <5>1. draining = None
          BY <4>1, <2>1
        <5>2. channel' = [channel EXCEPT ![e] = "closing"] /\ draining' = e
          BY <3>1, <4>1
        <5> QED BY <2>1, <3>4, <5>1, <5>2
      <4>2. CASE ~Attached(e)
        BY <3>1, <3>4, <4>2
      <4> QED BY <4>1, <4>2
    <3> QED BY <3>3, <3>5
  <2> QED BY <2>2, <2>3
<1>3. ASSUME NEW e \in Entries, Drained(e)
      PROVE  PoolInv'
  BY <1>3 DEF Drained
<1>4. ASSUME NEW e \in Entries, OpenAfterDrain(e)
      PROVE  PoolInv'
  <2>1. waits[e] # draining
    BY <1>4 DEF OpenAfterDrain
  <2>2. CASE StillWanted(e)
    <3>1. e = live /\ draining = None
      BY <1>4, <2>1, <2>2 DEF StillWanted, OpenAfterDrain
    <3>2. /\ channel' = [channel EXCEPT ![e] = "joining"] /\ waits' = [waits EXCEPT ![e] = None]
          /\ UNCHANGED <<live, home, draining>>
      BY <1>4, <2>2 DEF OpenAfterDrain
    <3>3. HomeIsLive' /\ LiveIsWanted' /\ WaitingIsWoken'
      BY <3>1, <3>2
    <3>4. AttachedIsLive' /\ ClosingIsDraining'
      BY <3>1, <3>2
    <3> QED BY <3>3, <3>4
  <2>3. CASE ~StillWanted(e)
    <3>1. e = live => channel[e] # "unopened"
      BY <2>3 DEF StillWanted, Subs
    <3>2. waits' = [waits EXCEPT ![e] = None] /\ UNCHANGED <<live, home, draining, channel>>
      BY <1>4, <2>3 DEF OpenAfterDrain
    <3> QED BY <3>1, <3>2
  <2> QED BY <2>2, <2>3
<1>5. ASSUME NEW e \in Entries, Join(e) \/ Drop(e) \/ Rejoin(e)
      PROVE  PoolInv'
  <2>1. PICK to \in {"joined", "dropped"} :
          channel' = [channel EXCEPT ![e] = to] /\ UNCHANGED <<live, home, draining, waits>>
    BY <1>5 DEF Join, Drop, Rejoin
  <2>2. Attached(e)
    BY <1>5 DEF Join, Drop, Rejoin
  <2>3. HomeIsLive' /\ LiveIsWanted' /\ WaitingIsWoken'
    BY <2>1, <2>2
  <2>4. AttachedIsLive' /\ ClosingIsDraining'
    BY <2>1, <2>2
  <2> QED BY <2>3, <2>4
<1>6. CASE UNCHANGED poolVars
  BY <1>6 DEF poolVars
<1> QED BY <1>1, <1>2, <1>3, <1>4, <1>5, <1>6 DEF Next, Post, vars

LEMMA PoolInvariant == FairSpec => []PoolInv
<1>1. Init => PoolInv
  BY DEF Init, PoolInv, HomeIsLive, LiveIsWanted, AttachedIsLive, ClosingIsDraining,
         WaitingIsWoken, Attached
<1>2. TypeOK /\ PoolInv /\ [Next]_vars => PoolInv'
  BY PoolStep
<1> QED BY <1>1, <1>2, TypeCorrect, PTL DEF FairSpec

\* One channel of the topic exists at a time, the one that drains included, for
\* any number of consumers and any interleaving of their mounts with the drain.
THEOREM OneChannelPerTopic == FairSpec => []OneChannel
<1>1. TypeOK /\ PoolInv => OneChannel
  <2> SUFFICES ASSUME TypeOK, PoolInv
               PROVE  OneChannel
      OBVIOUS
  <2> DEFINE S == {e \in Entries : Attached(e) \/ channel[e] = "closing"}
  <2>1. \A e, f \in S : e = f
    BY PoolAssumption DEF PoolInv, AttachedIsLive, ClosingIsDraining, Entries, None
  <2>2. CASE S = {}
    BY <2>2, FS_EmptySet DEF OneChannel
  <2>3. CASE S # {}
    <3>1. PICK e \in S : S = {e}
      BY <2>1, <2>3
    <3>2. Cardinality(S) = 1
      BY <3>1, FS_Singleton
    <3> QED BY <3>2 DEF OneChannel
  <2> QED BY <2>2, <2>3
<1> QED BY <1>1, PoolInvariant, TypeCorrect, PTL

\* A channel that is open has somebody to listen: the last one out closes it,
\* also when they leave before the drain they waited for has ended.
THEOREM NobodyLeavesAChannelOpen == FairSpec => []NoOrphanChannel
<1>1. PoolInv => NoOrphanChannel
  BY PoolAssumption DEF PoolInv, AttachedIsLive, LiveIsWanted, NoOrphanChannel, Subs, Entries, None
<1> QED BY <1>1, PoolInvariant, PTL
===============================================================================
