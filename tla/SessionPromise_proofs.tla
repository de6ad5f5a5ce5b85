------------------------ MODULE SessionPromise_proofs ------------------------
(***************************************************************************)
(* Proof that the roster of a plain game keeps the app's promise: every    *)
(* transaction is a step of SlotQueue or leaves slots and queue alone.     *)
(***************************************************************************)
EXTENDS SessionRoster_proofs, SequencesExt, SequenceTheorems

-------------------------------------------------------------------------------
(* The waiting line. *)

\* `line` lists the people of S, each at the place their number says.
InLine(line, S, number) ==
  /\ line \in Seq(S) /\ Len(line) = Cardinality(S)
  /\ \A i \in 1..Len(line) : number[line[i]] = i
  /\ \A p \in S : number[p] \in 1..Len(line) /\ line[number[p]] = p

\* Numbers 1..n given to n people list them all, whichever way the person at a
\* number is looked up.
LEMMA NumbersMakeALine ==
  ASSUME NEW S, IsFiniteSet(S), NEW number, NEW line,
         {number[p] : p \in S} = 1..Cardinality(S),
         DOMAIN line = 1..Cardinality(S),
         line = [i \in DOMAIN line |-> line[i]],
         \A i \in 1..Cardinality(S) : line[i] \in S /\ number[line[i]] = i
  PROVE  InLine(line, S, number)
<1> DEFINE n == Cardinality(S)
           place == [p \in S |-> number[p]]
<1>1. n \in Nat
  BY FS_CardinalityType
<1>2. line \in Seq(S) /\ Len(line) = n
  <2>1. line \in [1..n -> S]
    BY DEF n
  <2> QED BY <1>1, <2>1
<1>3. place \in Surjection(S, 1..n)
  BY DEF Surjection
<1>4. Cardinality(1..n) = n
  BY <1>1, FS_Interval
<1>5. place \in Injection(S, 1..n)
  BY <1>3, <1>4, FS_Surjection
<1>6. ASSUME NEW p \in S
      PROVE  number[p] \in 1..n /\ line[number[p]] = p
  <2>1. number[p] \in 1..n
    OBVIOUS
  <2>2. line[number[p]] \in S /\ place[line[number[p]]] = place[p]
    BY <2>1
  <2> QED BY <1>5, <2>1, <2>2 DEF Injection, IsInjective
<1> QED BY <1>2, <1>6 DEF InLine

\* The reserves of a contiguous queue stand in line, before and after a step.
LEMMA ReservesStandInLine ==
  ASSUME QueueContiguous
  PROVE  InLine(WaitingLine, Reserves, position)
<1> DEFINE n == Cardinality(Reserves)
<1>1. \A i \in 1..n : \E p \in Reserves : position[p] = i
  BY DEF QueueContiguous
<1>2. \A i \in 1..n : WaitingLine[i] \in Reserves /\ position[WaitingLine[i]] = i
  BY <1>1 DEF WaitingLine
<1>3. DOMAIN WaitingLine = 1..n /\ WaitingLine = [i \in DOMAIN WaitingLine |-> WaitingLine[i]]
  BY DEF WaitingLine
<1> QED BY <1>2, <1>3, NumbersMakeALine, CountsAreNaturals DEF QueueContiguous

LEMMA ReservesStandInLineNext ==
  ASSUME QueueContiguous'
  PROVE  InLine(WaitingLine', Reserves', position')
<1> DEFINE n == Cardinality(Reserves')
<1>1. \A i \in 1..n : \E p \in Reserves' : position'[p] = i
  BY DEF QueueContiguous
<1>2. \A i \in 1..n : WaitingLine'[i] \in Reserves' /\ position'[WaitingLine'[i]] = i
  BY <1>1 DEF WaitingLine
<1>3. DOMAIN WaitingLine' = 1..n /\ WaitingLine' = [i \in DOMAIN WaitingLine' |-> WaitingLine'[i]]
  BY DEF WaitingLine
<1>4. IsFiniteSet(Reserves')
  BY PeopleAssumption, FS_Subset DEF Reserves
<1> QED BY <1>2, <1>3, <1>4, NumbersMakeALine DEF QueueContiguous

\* Nobody comes or goes and no number changes.
LEMMA LineStays ==
  ASSUME NEW S, NEW number, NEW line, InLine(line, S, number),
         NEW number2, NEW line2, InLine(line2, S, number2),
         \A p \in S : number2[p] = number[p]
  PROVE  line2 = line
<1>1. /\ line \in Seq(S) /\ line2 \in Seq(S) /\ Len(line) = Len(line2)
  BY DEF InLine
<1>2. ASSUME NEW i \in 1..Len(line)
      PROVE  line2[i] = line[i]
  <2>1. line[i] \in S /\ number[line[i]] = i
    BY <1>1, ElementOfSeq DEF InLine
  <2> QED BY <2>1 DEF InLine
<1> QED BY <1>1, <1>2, SeqEqual

\* `longer` is `line` with p behind it.
LongerBy(longer, line, p) ==
  /\ Len(longer) = Len(line) + 1 /\ longer[Len(line) + 1] = p
  /\ \A i \in 1..Len(line) : longer[i] = line[i]

\* A newcomer with the next number stands at the end.
LEMMA LineGrows ==
  ASSUME NEW S, IsFiniteSet(S), NEW number, NEW line, InLine(line, S, number),
         NEW T, NEW p \in T, p \notin S, T = S \cup {p},
         NEW number2, NEW line2, InLine(line2, T, number2),
         number2[p] = Len(line) + 1, \A r \in S : number2[r] = number[r]
  PROVE  LongerBy(line2, line, p)
<1>1. /\ line \in Seq(S) /\ Len(line) \in Nat /\ Len(line) = Cardinality(S)
  BY LenProperties DEF InLine
<1>2. Len(line2) = Len(line) + 1
  BY <1>1, FS_AddElement DEF InLine
<1>3. line2[Len(line) + 1] = p
  BY DEF InLine
<1>4. ASSUME NEW i \in 1..Len(line)
      PROVE  line2[i] = line[i]
  <2>1. line[i] \in S /\ number[line[i]] = i
    BY <1>1, ElementOfSeq DEF InLine
  <2>2. line[i] \in S \cup {p} /\ number2[line[i]] = i
    BY <2>1
  <2> QED BY <2>2 DEF InLine
<1> QED BY <1>2, <1>3, <1>4 DEF LongerBy

\* What RemoveAt returns.
LEMMA RemoveAtProperties ==
  ASSUME NEW S, NEW line \in Seq(S), NEW k \in 1..Len(line)
  PROVE  /\ RemoveAt(line, k) \in Seq(S) /\ Len(RemoveAt(line, k)) = Len(line) - 1
         /\ \A i \in 1..(Len(line) - 1) :
              RemoveAt(line, k)[i] = IF i < k THEN line[i] ELSE line[i + 1]
<1> DEFINE before == SubSeq(line, 1, k - 1)
           behind == SubSeq(line, k + 1, Len(line))
<1>1. Len(line) \in Nat /\ k \in Int /\ \A i \in 1..Len(line) : line[i] \in S
  BY LenProperties, ElementOfSeq
<1>2. /\ before \in Seq(S) /\ Len(before) = k - 1
      /\ \A i \in 1..(k - 1) : before[i] = line[i]
  <2>1. \A i \in 1..(k - 1) : line[i] \in S
    BY <1>1
  <2>2. /\ before \in Seq(S) /\ Len(before) = IF 1 =< k - 1 THEN (k - 1) - 1 + 1 ELSE 0
        /\ \A i \in 1..((k - 1) - 1 + 1) : before[i] = line[1 + i - 1]
    BY <1>1, <2>1, SubSeqProperties
  <2> HIDE DEF before
  <2> QED BY <1>1, <2>2
<1>3. /\ behind \in Seq(S) /\ Len(behind) = Len(line) - k
      /\ \A i \in 1..(Len(line) - k) : behind[i] = line[k + i]
  <2>1. \A i \in (k + 1)..Len(line) : line[i] \in S
    BY <1>1
  <2>2. k + 1 \in Int /\ Len(line) \in Int
    BY <1>1
  <2>3. /\ behind \in Seq(S)
        /\ Len(behind) = IF k + 1 =< Len(line) THEN Len(line) - (k + 1) + 1 ELSE 0
        /\ \A i \in 1..(Len(line) - (k + 1) + 1) : behind[i] = line[(k + 1) + i - 1]
    BY <2>1, <2>2, SubSeqProperties
  <2> HIDE DEF behind
  <2> QED BY <1>1, <2>3
<1>4. RemoveAt(line, k) = before \o behind
  BY DEF RemoveAt
<1> HIDE DEF before, behind
<1>5. /\ before \o behind \in Seq(S) /\ Len(before \o behind) = Len(before) + Len(behind)
      /\ \A i \in 1..(Len(before) + Len(behind)) :
           (before \o behind)[i] = IF i <= Len(before) THEN before[i] ELSE behind[i - Len(before)]
  BY <1>2, <1>3, ConcatProperties
<1>6. ASSUME NEW i \in 1..(Len(line) - 1)
      PROVE  RemoveAt(line, k)[i] = IF i < k THEN line[i] ELSE line[i + 1]
  <2>1. CASE i < k
    <3>1. i \in 1..(k - 1) /\ i <= Len(before) /\ i \in 1..(Len(before) + Len(behind))
      BY <1>1, <1>2, <1>3, <2>1
    <3> QED BY <1>2, <1>4, <1>5, <2>1, <3>1
  <2>2. CASE i >= k
    <3>1. /\ i - (k - 1) \in 1..(Len(line) - k) /\ k + (i - (k - 1)) = i + 1
          /\ ~(i <= Len(before)) /\ i \in 1..(Len(before) + Len(behind)) /\ ~(i < k)
      BY <1>1, <1>2, <1>3, <2>2
    <3>2. (before \o behind)[i] = behind[i - (k - 1)]
      BY <1>2, <1>5, <3>1
    <3> QED BY <1>3, <1>4, <3>1, <3>2
  <2> QED BY <1>1, <2>1, <2>2
<1> QED BY <1>1, <1>2, <1>3, <1>4, <1>5, <1>6

\* Somebody leaves and everyone behind moves up one.
LEMMA LineCloses ==
  ASSUME NEW S, IsFiniteSet(S), NEW number, NEW line, InLine(line, S, number),
         NEW q \in S,
         NEW number2, NEW line2, InLine(line2, S \ {q}, number2),
         \A r \in S \ {q} :
           number2[r] = IF number[r] > number[q] THEN number[r] - 1 ELSE number[r]
  PROVE  line2 = RemoveAt(line, number[q])
<1> DEFINE T == S \ {q}
           n == Len(line)
           k == number[q]
<1>1. /\ line \in Seq(S) /\ line2 \in Seq(T) /\ n \in Nat /\ n = Cardinality(S)
      /\ k \in 1..n /\ line[k] = q
  BY LenProperties DEF InLine
<1>2. line2 \in Seq(S)
  BY <1>1, SeqMonotonic
<1>3. Len(line2) = n - 1
  BY <1>1, FS_RemoveElement DEF InLine
<1>4. /\ RemoveAt(line, k) \in Seq(S) /\ Len(RemoveAt(line, k)) = n - 1
      /\ \A i \in 1..(n - 1) : RemoveAt(line, k)[i] = IF i < k THEN line[i] ELSE line[i + 1]
  BY <1>1, RemoveAtProperties
<1>5. ASSUME NEW i \in 1..(n - 1)
      PROVE  line2[i] = RemoveAt(line, k)[i]
  <2> DEFINE j == IF i < k THEN i ELSE i + 1
  <2>1. j \in 1..n /\ j # k /\ i = (IF j > k THEN j - 1 ELSE j)
    BY <1>1
  <2>2. line[j] \in S /\ number[line[j]] = j
    <3> HIDE DEF j
    <3> QED BY <1>1, <2>1, ElementOfSeq DEF InLine
  <2>3. line[j] \in S \ {q} /\ number2[line[j]] = i
    <3> HIDE DEF j
    <3> QED BY <2>1, <2>2
  <2>4. line2[i] = line[j]
    <3> HIDE DEF j
    <3> QED BY <2>3 DEF InLine
  <2> QED BY <1>4, <2>4
<1> QED BY <1>2, <1>3, <1>4, <1>5, SeqEqual

-------------------------------------------------------------------------------
(* Each kind of transaction is a step of the slot queue. *)

\* What holds of a plain game around every step.
PlainGame ==
  /\ TypeOK /\ Available = {} /\ FullOrNobodyWaits /\ NeverOversubscribed
  /\ game.slots = FixedSlots

\* The line is empty exactly when nobody is a reserve.
LEMMA EmptyLine ==
  ASSUME TypeOK, QueueContiguous
  PROVE  WaitingLine = <<>> <=> Reserves = {}
<1>1. InLine(WaitingLine, Reserves, position) /\ Cardinality(Reserves) \in Nat
  BY ReservesStandInLine, CountsAreNaturals
<1>2. CASE Reserves = {}
  <2>1. WaitingLine \in Seq(Reserves) /\ Len(WaitingLine) = 0
    BY <1>1, <1>2, FS_EmptySet DEF InLine
  <2> QED BY <1>2, <2>1, EmptySeq
<1>3. ASSUME NEW p \in Reserves
      PROVE  WaitingLine # <<>>
  <2>1. position[p] \in 1..Len(WaitingLine)
    BY <1>1 DEF InLine
  <2> QED BY <2>1, EmptySeq
<1> QED BY <1>2, <1>3

\* The people in the line are the reserves.
LEMMA LineIsReserves ==
  ASSUME QueueContiguous
  PROVE  Promise!Queued = Reserves
<1>1. InLine(WaitingLine, Reserves, position)
  BY ReservesStandInLine
<1>2. DOMAIN WaitingLine = 1..Len(WaitingLine)
  BY <1>1, LenProperties DEF InLine
<1>3. \A i \in 1..Len(WaitingLine) : WaitingLine[i] \in Reserves
  BY <1>1, ElementOfSeq DEF InLine
<1> QED BY <1>1, <1>2, <1>3 DEF InLine, Promise!Queued

\* The reserves, their numbers and the slots stay as they are.
LEMMA LineUntouched ==
  ASSUME QueueContiguous, QueueContiguous', Reserves' = Reserves,
         \A r \in Reserves : position'[r] = position[r]
  PROVE  WaitingLine' = WaitingLine
<1>1. InLine(WaitingLine, Reserves, position) /\ InLine(WaitingLine', Reserves, position')
  BY ReservesStandInLine, ReservesStandInLineNext
<1> QED BY <1>1, LineStays

\* Whoever takes an open slot takes it while nobody waits.
LEMMA TakeSlotIsPromised ==
  ASSUME PlainGame, PlainGame', NEW p \in People, HasRoom, TakeSlot(p)
  PROVE  [Promise!Next]_Promise!slotVars
<1>1. row \in [People -> RowStatus] /\ Reserves = {}
  BY DEF PlainGame, TypeOK, RsvpTypeOK, FullOrNobodyWaits
<1>2. Reserves' = {} /\ Confirmed' = Confirmed \cup {p}
  BY <1>1 DEF TakeSlot, Reserves, Confirmed
<1>3. WaitingLine = <<>> /\ WaitingLine' = WaitingLine
  BY <1>1, <1>2, EmptyLine, LineUntouched DEF PlainGame, FullOrNobodyWaits
<1>4. CASE p \in Confirmed
  BY <1>2, <1>3, <1>4 DEF Promise!slotVars
<1>5. CASE p \notin Confirmed
  <2>1. Promise!Take(p)
    BY <1>2, <1>3, <1>5 DEF Promise!Take, Promise!Cardinality, Cardinality, PlainGame, HasRoom
  <2> QED BY <2>1 DEF Promise!Next
<1> QED BY <1>4, <1>5

\* Whoever queues stands behind everybody else, and all slots are taken.
LEMMA JoinQueueIsPromised ==
  ASSUME PlainGame, PlainGame', NEW p \in People, row[p] \notin {"in", "reserve"},
         ~HasRoom, JoinQueue(p)
  PROVE  Promise!Next
<1>1. /\ row \in [People -> RowStatus] /\ position \in [People -> Nat]
      /\ QueueContiguous /\ QueueContiguous' /\ TypeOK
  BY DEF PlainGame, TypeOK, RsvpTypeOK, FullOrNobodyWaits
<1>2. /\ Reserves' = Reserves \cup {p} /\ p \notin Reserves /\ p \notin Confirmed
      /\ Confirmed' = Confirmed
      /\ position'[p] = NextPosition /\ \A r \in Reserves : position'[r] = position[r]
  BY <1>1 DEF JoinQueue, Reserves, Confirmed
<1>3. /\ InLine(WaitingLine, Reserves, position)
      /\ InLine(WaitingLine', Reserves', position')
  BY <1>1, <1>2, ReservesStandInLine, ReservesStandInLineNext
<1>4. position'[p] = Len(WaitingLine) + 1
  BY <1>1, <1>2, <1>3, NextPositionCounts DEF InLine
<1>5. WaitingLine' = Append(WaitingLine, p)
  <2>1. LongerBy(WaitingLine', WaitingLine, p)
    BY <1>2, <1>3, <1>4, LineGrows, CountsAreNaturals
  <2>2. Reserves \subseteq People /\ Reserves' \subseteq People
    BY DEF Reserves
  <2>3. WaitingLine \in Seq(People) /\ WaitingLine' \in Seq(People)
    BY <1>3, <2>2, SeqMonotonic DEF InLine
  <2>4. /\ Append(WaitingLine, p) \in Seq(People)
        /\ Len(Append(WaitingLine, p)) = Len(WaitingLine) + 1
        /\ \A i \in 1..Len(WaitingLine) : Append(WaitingLine, p)[i] = WaitingLine[i]
        /\ Append(WaitingLine, p)[Len(WaitingLine) + 1] = p
    BY <2>3, AppendProperties
  <2>5. \A i \in 1..(Len(WaitingLine) + 1) : WaitingLine'[i] = Append(WaitingLine, p)[i]
    BY <2>1, <2>4 DEF LongerBy
  <2> QED BY <2>1, <2>3, <2>4, <2>5, SeqEqual DEF LongerBy
<1>6. Cardinality(Confirmed) = FixedSlots
  <2>1. game.slots \in Nat
    BY <1>1, GameType DEF TypeOK, RsvpTypeOK
  <2> QED BY <2>1, CountsAreNaturals DEF PlainGame, NeverOversubscribed, HasRoom
<1>7. Promise!Wait(p)
  BY <1>1, <1>2, <1>5, <1>6, LineIsReserves
     DEF Promise!Wait, Promise!Cardinality, Cardinality
<1> QED BY <1>7 DEF Promise!Next

\* A reserve who leaves is taken out of the line.
LEMMA LeaveQueueIsPromised ==
  ASSUME PlainGame, PlainGame', NEW p \in People, LeaveQueue(p)
  PROVE  Promise!Next
<1>1. /\ row \in [People -> RowStatus] /\ position \in [People -> Nat]
      /\ QueueContiguous /\ QueueContiguous'
  BY DEF PlainGame, TypeOK, RsvpTypeOK, FullOrNobodyWaits
<1>2. /\ p \in Reserves /\ Reserves' = Reserves \ {p} /\ Confirmed' = Confirmed
      /\ \A r \in Reserves \ {p} :
           position'[r] = IF position[r] > position[p] THEN position[r] - 1 ELSE position[r]
  BY <1>1 DEF LeaveQueue, GapClosed, Reserves, Confirmed
<1>3. /\ InLine(WaitingLine, Reserves, position)
      /\ InLine(WaitingLine', Reserves \ {p}, position')
  BY <1>1, <1>2, ReservesStandInLine, ReservesStandInLineNext
<1>4. WaitingLine' = RemoveAt(WaitingLine, position[p])
  BY <1>2, <1>3, LineCloses, CountsAreNaturals
<1>5. position[p] \in DOMAIN WaitingLine /\ WaitingLine[position[p]] = p
  BY <1>2, <1>3, LenProperties DEF InLine
<1>6. Promise!GiveUpWaiting(p)
  BY <1>2, <1>4, <1>5 DEF Promise!GiveUpWaiting, Promise!RemoveAt, RemoveAt
<1> QED BY <1>6 DEF Promise!Next

\* The front of the queue is the head of the line.
LEMMA FrontIsHead ==
  ASSUME PlainGame, NEW q \in FrontOfQueue
  PROVE  /\ WaitingLine # <<>> /\ Head(WaitingLine) = q /\ position[q] = 1
         /\ RemoveAt(WaitingLine, 1) = Tail(WaitingLine)
<1>1. q \in Reserves /\ \A r \in Reserves : position[q] =< position[r]
  BY DEF FrontOfQueue
<1>2. InLine(WaitingLine, Reserves, position)
  BY ReservesStandInLine DEF PlainGame, FullOrNobodyWaits
<1>3. WaitingLine \in Seq(Reserves) /\ WaitingLine # <<>> /\ 1 \in 1..Len(WaitingLine)
  BY <1>1, <1>2, EmptyLine, EmptySeq DEF InLine, PlainGame, FullOrNobodyWaits
<1>4. WaitingLine[1] \in Reserves /\ position[WaitingLine[1]] = 1
  BY <1>2, <1>3, ElementOfSeq DEF InLine
<1>5. position[q] \in 1..Len(WaitingLine)
  BY <1>1, <1>2 DEF InLine
<1>6. position[q] = 1
  BY <1>1, <1>4, <1>5
<1>7. WaitingLine[1] = q
  BY <1>1, <1>2, <1>6 DEF InLine
<1>8. RemoveAt(WaitingLine, 1) = Tail(WaitingLine)
  <2>1. /\ RemoveAt(WaitingLine, 1) \in Seq(Reserves)
        /\ Len(RemoveAt(WaitingLine, 1)) = Len(WaitingLine) - 1
        /\ \A i \in 1..(Len(WaitingLine) - 1) :
             RemoveAt(WaitingLine, 1)[i] = IF i < 1 THEN WaitingLine[i] ELSE WaitingLine[i + 1]
    BY <1>3, RemoveAtProperties
  <2>2. /\ Tail(WaitingLine) \in Seq(Reserves) /\ Len(Tail(WaitingLine)) = Len(WaitingLine) - 1
        /\ \A i \in 1..Len(Tail(WaitingLine)) : Tail(WaitingLine)[i] = WaitingLine[i + 1]
    BY <1>3, HeadTailProperties
  <2>3. \A i \in 1..(Len(WaitingLine) - 1) : RemoveAt(WaitingLine, 1)[i] = Tail(WaitingLine)[i]
    BY <1>3, <2>1, <2>2, LenProperties
  <2> QED BY <2>1, <2>2, <2>3, SeqEqual
<1> QED BY <1>3, <1>6, <1>7, <1>8

\* Whoever drops out hands the slot to the head of the line.
LEMMA PromotionIsPromised ==
  ASSUME PlainGame, PlainGame', NEW p \in Members, NEW q \in People, DropOutPromoting(p, q)
  PROVE  Promise!Next
<1>1. /\ row \in [People -> RowStatus] /\ position \in [People -> Nat]
      /\ QueueContiguous /\ QueueContiguous' /\ p \in People /\ Available = {}
  BY DEF PlainGame, TypeOK, RsvpTypeOK, FullOrNobodyWaits, People
<1>2. /\ q \in FrontOfQueue /\ q \in Reserves /\ Reserves' = Reserves \ {q} /\ p \in Confirmed
      /\ Confirmed' = (Confirmed \ {p}) \cup {q}
      /\ \A r \in Reserves \ {q} :
           position'[r] = IF position[r] > position[q] THEN position[r] - 1 ELSE position[r]
  BY <1>1 DEF DropOutPromoting, LeaveFilled, FrontOfQueue, GapClosed, Reserves, Confirmed, Available
<1>3. /\ InLine(WaitingLine, Reserves, position)
      /\ InLine(WaitingLine', Reserves \ {q}, position')
  BY <1>1, <1>2, ReservesStandInLine, ReservesStandInLineNext
<1>4. WaitingLine' = RemoveAt(WaitingLine, position[q])
  BY <1>2, <1>3, LineCloses, CountsAreNaturals
<1>5. Promise!DropOut(p)
  BY <1>2, <1>4, FrontIsHead DEF Promise!DropOut
<1> QED BY <1>1, <1>5 DEF Promise!Next

\* Whoever drops out of a line-up nobody waits for leaves an open slot.
LEMMA UnfilledIsPromised ==
  ASSUME PlainGame, PlainGame', NEW p \in Members, Reserves = {}, LeaveUnfilled(p)
  PROVE  Promise!Next
<1>1. row \in [People -> RowStatus] /\ p \in People /\ Available = {}
  BY DEF PlainGame, TypeOK, RsvpTypeOK, People
<1>2. p \in Confirmed /\ Confirmed' = Confirmed \ {p} /\ Reserves' = {}
  BY <1>1 DEF LeaveUnfilled, Confirmed, Reserves, Available
<1>3. WaitingLine = <<>> /\ WaitingLine' = WaitingLine
  BY <1>2, EmptyLine, LineUntouched DEF PlainGame, FullOrNobodyWaits
<1>4. Promise!DropOut(p)
  BY <1>2, <1>3 DEF Promise!DropOut
<1> QED BY <1>1, <1>4 DEF Promise!Next

\* A step that writes no row leaves slots and line alone.
LEMMA NoRowIsPromised ==
  ASSUME PlainGame, PlainGame', UNCHANGED <<row, position>>
  PROVE  UNCHANGED Promise!slotVars
<1>1. Reserves' = Reserves /\ Confirmed' = Confirmed
  BY DEF Reserves, Confirmed
<1>2. WaitingLine' = WaitingLine
  BY <1>1, LineUntouched DEF PlainGame, FullOrNobodyWaits
<1> QED BY <1>1, <1>2 DEF Promise!slotVars

\* Every transaction of a plain game.
LEMMA EveryStepIsPromised ==
  ASSUME NeverRotates, Guests = {}, PlainGame, PlainGame', [Next]_vars
  PROVE  [Promise!Next]_Promise!slotVars
<1>1. game.rotation = "off" /\ Members \subseteq People
  BY DEF NeverRotates, PlainGame, TypeOK, RsvpTypeOK, People
<1>2. CASE RsvpNext
  <2>1. ASSUME NEW p \in Members, RsvpIn(p)
        PROVE  [Promise!Next]_Promise!slotVars
    BY <1>1, <2>1, TakeSlotIsPromised, JoinQueueIsPromised DEF RsvpIn
  <2>2. ASSUME NEW p \in Members, RsvpOut(p)
        PROVE  Promise!Next
    BY <1>1, <2>2, LeaveQueueIsPromised, UnfilledIsPromised, PromotionIsPromised
       DEF RsvpOut, DropOutUnfilled, LockedFour
  <2>3. CASE (\E g \in Games : UpdateStandingGame(g)) \/ EnsureSessionPlayedTransition \/ Tick
    BY <2>3, NoRowIsPromised DEF UpdateStandingGame, EnsureSessionPlayedTransition, Tick
  <2> QED BY <1>1, <1>2, <2>1, <2>2, <2>3
          DEF RsvpNext, MarkAvailable, LockedFour, DeclareAvailable, MarkUnavailable
<1>3. CASE LockRotationIfDue
  BY <1>1, <1>3 DEF LockRotationIfDue, Gathering
<1>4. CASE CallNext
  BY <1>4, TakeSlotIsPromised, NoRowIsPromised
     DEF CallNext, CheckFourthCallLevel1, CheckFourthCallPlayedWith, CheckFourthCallLocalRing,
         OfferRotationSlotIfNeeded, SendInvites, OfferSpent, ClaimFourthCallSlot
<1>5. CASE KnockNext
  BY <1>5, TakeSlotIsPromised, NoRowIsPromised, KnockersAssumption
     DEF KnockNext, CreateSessionKnock, AcceptKnock, DeclineKnock, WithdrawKnockRead,
         WithdrawKnockWrite, NoRsvpChange, People
<1>6. CASE UNCHANGED vars
  BY <1>6, NoRowIsPromised DEF vars, rsvpVars
<1> QED BY <1>2, <1>3, <1>4, <1>5, <1>6 DEF Next, GuestNext

\* The roster of a game without rotation, resizing or guest links is a slot
\* queue: taps, claims and knocks take a slot only while nobody waits, people
\* queue only when the slots are taken, and a drop-out promotes the head of the
\* line in the same transaction.
THEOREM PlainGameKeepsPromise ==
  ASSUME NeverRotates, NeverResized, Guests = {}
  PROVE  Spec => KeepsPromise
<1>1. TypeOK => game.slots = FixedSlots
  BY GamesAssumption DEF NeverResized, TypeOK, RsvpTypeOK, FixedSlots
<1>2. Init => Promise!Init
  <2> SUFFICES ASSUME Init
               PROVE  Promise!Init
      OBVIOUS
  <2>1. Confirmed = {} /\ Reserves = {}
    BY DEF Init, RsvpInit, Confirmed, Reserves
  <2>2. WaitingLine = <<>>
    BY <2>1, FS_EmptySet DEF WaitingLine
  <2> QED BY <2>1, <2>2 DEF Promise!Init
<1>3. PlainGame /\ PlainGame' /\ [Next]_vars => [Promise!Next]_Promise!slotVars
  BY EveryStepIsPromised
<1>4. Spec => []PlainGame
  <2>1. TypeOK /\ Available = {} /\ FullOrNobodyWaits /\ NeverOversubscribed => PlainGame
    BY <1>1 DEF PlainGame
  <2> QED BY <2>1, TypeCorrect, NobodyMerelyAvailable, SlotsAreHandedOn,
             PlainGameNeverOversubscribed, PTL
<1> QED BY <1>2, <1>3, <1>4, PTL DEF Spec, KeepsPromise, Promise!Spec
===============================================================================
