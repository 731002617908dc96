---------------------------- MODULE Parts_proofs ----------------------------
(***************************************************************************)
(* Proofs about the small parts: the transmit ring, the timers of lwIP,    *)
(* the rate meter, and what SHA-256 is given.                              *)
(***************************************************************************)
EXTENDS Parts, SequenceTheorems, FiniteSetTheorems, WellFoundedInduction, TLAPS

LEMMA Divided ==
  ASSUME NEW n \in Int, NEW m \in Nat \ {0}
  PROVE  n = m * (n \div m) + (n % m) /\ n % m \in 0 .. m - 1 /\ n \div m \in Int
OBVIOUS

LEMMA Turns ==
  ASSUME NEW w \in Nat \ {0}, NEW x \in 0 .. w - 1, NEW n \in Int, NEW k \in Int, n = x + k * w
  PROVE  n % w = x
OBVIOUS

-----------------------------------------------------------------------------
(***************************************************************************)
(* EthTx.  What the DMA owns while the processor waits is the packet of    *)
(* the call under way, in one descriptor, and nothing otherwise: so a      *)
(* timeout that clears that one descriptor leaves the DMA none that points *)
(* to memory given back, in a ring of any size.  A copy of a descriptor    *)
(* that the DMA has fetched and does not write back lags behind; a call    *)
(* goes on without the wire only once it lags by the whole ring.           *)
(***************************************************************************)
(* The chains this program sends fit into one descriptor. *)
OneDescriptor == MaxChain <= 2

(* The DMA owns at most the descriptor that is waited for. *)
OwnedIsAwaited == \A d \in Descs : desc[d] # "cpu" => waiting /\ d = last /\ desc[d] = "live"

(* From the descriptor the DMA is at, once round if that is d itself. *)
Behind(d) == ((d - pos - 1) % DescCnt) + 1

(* What has been fetched of a packet given up is as many timeouts old as *)
(* the processor has gone on since.                                      *)
FetchedKnown ==
  /\ fetched = "live" => desc[pos] = "live"
  /\ fetched = "dead" => stall >= Behind(IF waiting THEN last ELSE cur)

(* What a call waits for is its own packet; when the descriptor is the     *)
(* processor's again it has been read, unless the stall is a whole ring.   *)
WrittenBack ==
  /\ waiting => unread \subseteq {last} /\ cur = After(last, 1)
  /\ waiting /\ desc[last] = "cpu" => fetched = "none" /\ (unread = {} \/ stall = DescCnt)

TxInd == TypeOK /\ OwnedIsAwaited /\ FetchedKnown /\ WrittenBack

LEMMA OneNeeded ==
  ASSUME OneDescriptor, cur \in Descs, NEW bufs \in 1..MaxChain
  PROVE  Needed(bufs) = {cur} /\ After(cur, (bufs - 1) \div 2) = cur
<1>1. (bufs - 1) \div 2 = 0
  BY EthTxAssumption DEF OneDescriptor
<1>2. After(cur, 0) = cur
  BY EthTxAssumption DEF After, Descs
<1> QED BY <1>1, <1>2 DEF Needed

LEMMA AfterIn ==
  ASSUME NEW d \in Descs, NEW n \in Nat
  PROVE  After(d, n) \in Descs
BY EthTxAssumption DEF After, Descs

LEMMA BehindIs ==
  ASSUME NEW d \in Descs, pos \in Descs
  PROVE  Behind(d) = IF d > pos THEN d - pos ELSE d - pos + DescCnt
<1>1. DescCnt \in Nat /\ DescCnt > 1 /\ d \in 0 .. DescCnt - 1 /\ pos \in 0 .. DescCnt - 1
  BY EthTxAssumption DEF Descs
<1>2. CASE d > pos
  <2>1. d - pos - 1 \in 0 .. DescCnt - 1
    BY <1>1, <1>2
  <2>2. (d - pos - 1) % DescCnt = d - pos - 1
    BY <1>1, <2>1
  <2> QED BY <1>1, <1>2, <2>2 DEF Behind
<1>3. CASE d <= pos
  <2>1. d - pos - 1 + DescCnt \in 0 .. DescCnt - 1
    BY <1>1, <1>3
  <2>2. (d - pos - 1) % DescCnt = d - pos - 1 + DescCnt
    BY <1>1, <2>1
  <2> QED BY <1>1, <1>3, <2>2 DEF Behind
<1> QED BY <1>1, <1>2, <1>3

LEMMA BehindNext ==
  ASSUME NEW d \in Descs, pos \in Descs
  PROVE  /\ Behind(d) \in 1 .. DescCnt
         /\ Behind(pos) = DescCnt
         /\ Behind(After(pos, 1)) = 1
         /\ Behind(After(d, 1)) <= Behind(d) + 1
<1>1. DescCnt \in Nat /\ DescCnt > 1 /\ d \in 0 .. DescCnt - 1 /\ pos \in 0 .. DescCnt - 1
  BY EthTxAssumption DEF Descs
<1>2. \A e \in Descs : After(e, 1) = IF e + 1 = DescCnt THEN 0 ELSE e + 1
  <2> SUFFICES ASSUME NEW e \in Descs PROVE After(e, 1) = IF e + 1 = DescCnt THEN 0 ELSE e + 1
    OBVIOUS
  <2>1. e \in 0 .. DescCnt - 1
    BY DEF Descs
  <2>2. (e + 1) % DescCnt = IF e + 1 = DescCnt THEN 0 ELSE e + 1
    BY <1>1, <2>1
  <2> QED BY <2>2 DEF After
<1>3. Behind(d) = IF d > pos THEN d - pos ELSE d - pos + DescCnt
  BY BehindIs
<1>4. Behind(pos) = DescCnt
  BY <1>1, BehindIs
<1>5. After(d, 1) \in Descs /\ After(pos, 1) \in Descs
  BY AfterIn
<1>6. /\ Behind(After(d, 1)) = IF After(d, 1) > pos THEN After(d, 1) - pos ELSE After(d, 1) - pos + DescCnt
      /\ Behind(After(pos, 1)) = IF After(pos, 1) > pos THEN After(pos, 1) - pos
                                 ELSE After(pos, 1) - pos + DescCnt
  BY <1>5, BehindIs
<1> QED BY <1>1, <1>2, <1>3, <1>4, <1>6

LEMMA TxInitial == Init => TxInd
<1> SUFFICES ASSUME Init PROVE TxInd
  OBVIOUS
<1>1. 0 \in Descs /\ 0 \in 0..DescCnt
  BY EthTxAssumption DEF Descs
<1>2. TypeOK
  BY <1>1 DEF Init, TypeOK
<1>3. OwnedIsAwaited /\ FetchedKnown /\ WrittenBack
  BY DEF Init, OwnedIsAwaited, FetchedKnown, WrittenBack
<1> QED BY <1>2, <1>3 DEF TxInd

LEMMA TxOutputStep ==
  ASSUME OneDescriptor, TxInd, NEW bufs \in 1..MaxChain, Output(bufs)
  PROVE  TxInd'
<1>1. Needed(bufs) = {cur} /\ After(cur, (bufs - 1) \div 2) = cur
  BY OneNeeded DEF TxInd, TypeOK
<1>2. /\ desc' = [d \in Descs |-> IF d = cur THEN "live" ELSE desc[d]]
      /\ unread' = {cur} /\ cur' = After(cur, 1) /\ tail' = After(cur, 1)
      /\ last' = cur /\ waiting' = TRUE /\ ~waiting
      /\ UNCHANGED <<started, pos, fetched, stall>>
  BY <1>1 DEF Output, TailAt
<1>3. After(cur, 1) \in Descs /\ cur \in Descs
  BY AfterIn DEF TxInd, TypeOK
<1>4. TypeOK'
  BY <1>2, <1>3 DEF TxInd, TypeOK
<1>5. \A d \in Descs : d # cur => desc[d] = "cpu"
  BY <1>2 DEF TxInd, OwnedIsAwaited
<1>6. OwnedIsAwaited'
  BY <1>2, <1>5 DEF OwnedIsAwaited
<1>7. FetchedKnown'
  <2>1. \A d : Behind(d)' = Behind(d)'
    OBVIOUS
  <2>2. fetched # "live"
    BY <1>2 DEF TxInd, FetchedKnown, OwnedIsAwaited, TypeOK
  <2> QED BY <1>2, <2>2 DEF TxInd, FetchedKnown, Behind
<1>8. WrittenBack'
  BY <1>2, <1>3 DEF WrittenBack, After
<1> QED BY <1>4, <1>6, <1>7, <1>8 DEF TxInd

LEMMA TxRefusedStep ==
  ASSUME TxInd, NEW bufs \in 1..MaxChain, Refused(bufs)
  PROVE  TxInd'
BY DEF Refused, vars, TxInd, TypeOK, OwnedIsAwaited, FetchedKnown, WrittenBack, Behind, After

(* Whether it was sent or given up, the descriptor is the processor's again. *)
LEMMA TxReturnStep ==
  ASSUME TxInd, Sent \/ TimedOut
  PROVE  TxInd'
<1>1. \A d \in Descs : desc'[d] = "cpu"
  BY DEF TxInd, TypeOK, OwnedIsAwaited, Sent, TimedOut, Cleared, Returned
<1>2. desc' \in [Descs -> {"cpu", "live", "dead"}]
  BY DEF TxInd, TypeOK, Sent, TimedOut, Cleared, Returned
<1>3. stall' \in 0..DescCnt
  BY EthTxAssumption DEF TxInd, TypeOK, Sent, TimedOut
<1>4. fetched' \in {"none", "live", "dead"}
  BY DEF TxInd, TypeOK, Sent, TimedOut, Return, Returned
<1>5. TypeOK'
  BY <1>2, <1>3, <1>4 DEF TxInd, TypeOK, Sent, TimedOut, Return
<1>6. FetchedKnown'
  <2>1. /\ waiting /\ ~waiting' /\ fetched' = Returned(fetched) /\ cur = After(last, 1)
        /\ cur' = cur /\ pos' = pos /\ last' = last
    BY DEF Sent, TimedOut, Return, TxInd, WrittenBack, TypeOK
  <2>2. fetched' # "live"
    BY <2>1 DEF Returned
  <2>3. ASSUME fetched' = "dead" PROVE stall' >= Behind(cur)
    <3>1. TimedOut /\ fetched # "none"
      BY <2>1, <2>3 DEF Sent, TxInd, WrittenBack, Returned
    <3>2. last \in Descs /\ pos \in Descs /\ stall \in 0 .. DescCnt /\ DescCnt \in Nat
      BY EthTxAssumption DEF TxInd, TypeOK
    <3>3. /\ Behind(last) \in 1 .. DescCnt /\ Behind(After(last, 1)) <= Behind(last) + 1
          /\ Behind(After(pos, 1)) = 1 /\ Behind(cur) \in 1 .. DescCnt
      BY <3>2, BehindNext DEF TxInd, TypeOK
    <3>4. CASE fetched = "live"
      <4>1. pos = last
        BY <3>2, <3>4 DEF TxInd, FetchedKnown, OwnedIsAwaited
      <4>2. stall' = IF stall < DescCnt THEN stall + 1 ELSE stall
        BY <3>1 DEF TimedOut
      <4>3. DescCnt > 0
        BY EthTxAssumption
      <4>4. stall' >= 1
        BY <3>2, <4>2, <4>3
      <4> QED BY <2>1, <3>2, <3>3, <4>1, <4>4
    <3>5. CASE fetched = "dead"
      <4>1. stall >= Behind(last)
        BY <2>1, <3>5 DEF TxInd, FetchedKnown
      <4>2. stall' = IF stall < DescCnt THEN stall + 1 ELSE stall
        BY <3>1 DEF TimedOut
      <4> QED BY <2>1, <3>2, <3>3, <4>1, <4>2
    <3> QED BY <3>1, <3>4, <3>5 DEF TxInd, TypeOK
  <2> QED BY <2>1, <2>2, <2>3 DEF FetchedKnown, Behind
<1>7. WrittenBack'
  BY DEF WrittenBack, Sent, TimedOut, Return
<1> QED BY <1>1, <1>5, <1>6, <1>7 DEF TxInd, OwnedIsAwaited

LEMMA TxDmaStep ==
  ASSUME TxInd, DmaFetch \/ DmaWriteBack
  PROVE  TxInd'
<1>1. CASE DmaFetch
  <2>1. desc[pos] = "live" /\ pos = last /\ waiting
    BY <1>1 DEF DmaFetch, CanFetch, TxInd, TypeOK, OwnedIsAwaited
  <2>2. fetched' = "live" /\ UNCHANGED <<desc, cur, tail, started, pos, waiting, last, unread, stall>>
    BY <1>1, <2>1 DEF DmaFetch
  <2> QED BY <2>1, <2>2 DEF TxInd, TypeOK, OwnedIsAwaited, FetchedKnown, WrittenBack, Behind, After
<1>2. CASE DmaWriteBack
  <2>1. After(pos, 1) \in Descs /\ last \in Descs /\ pos \in Descs
    BY AfterIn DEF TxInd, TypeOK
  <2>2. /\ desc' = [desc EXCEPT ![pos] = "cpu"] /\ fetched' = "none"
        /\ fetched # "none" /\ UNCHANGED <<cur, tail, started, waiting, last>>
        /\ unread' = IF fetched = "live" THEN unread \ {pos} ELSE unread
        /\ stall' = IF fetched = "live" THEN 0 ELSE stall
        /\ pos' = After(pos, 1)
    BY <1>2 DEF DmaWriteBack
  <2>3. stall' \in 0..DescCnt /\ unread' \subseteq Descs
    BY <2>2, EthTxAssumption DEF TxInd, TypeOK
  <2>4. TypeOK'
    BY <2>1, <2>2, <2>3 DEF TxInd, TypeOK
  <2>5. OwnedIsAwaited'
    BY <2>2 DEF TxInd, TypeOK, OwnedIsAwaited
  <2>6. FetchedKnown'
    BY <2>2 DEF FetchedKnown
  <2>7. ASSUME waiting, desc'[last] = "cpu" PROVE unread' = {} \/ stall' = DescCnt
    <3>1. desc[last] # "cpu"
      BY <2>2, <2>7 DEF TxInd, WrittenBack
    <3>2. pos = last
      BY <2>1, <2>2, <2>7, <3>1 DEF TxInd, TypeOK
    <3>3. CASE fetched = "live"
      BY <2>2, <2>7, <3>2, <3>3 DEF TxInd, WrittenBack
    <3>4. CASE fetched = "dead"
      <4>1. stall >= Behind(pos)
        BY <2>7, <3>2, <3>4 DEF TxInd, FetchedKnown
      <4>2. Behind(pos) = DescCnt
        BY <2>1, BehindNext
      <4>3. stall \in 0 .. DescCnt /\ DescCnt \in Nat
        BY EthTxAssumption DEF TxInd, TypeOK
      <4>4. stall = DescCnt
        BY <4>1, <4>2, <4>3
      <4> QED BY <2>2, <3>4, <4>4
    <3> QED BY <2>2, <3>3, <3>4 DEF TxInd, TypeOK
  <2>8. waiting => unread' \subseteq {last} /\ cur = After(last, 1)
    BY <2>2 DEF TxInd, WrittenBack
  <2>9. WrittenBack'
    BY <2>2, <2>7, <2>8 DEF WrittenBack, After
  <2> QED BY <2>4, <2>5, <2>6, <2>9 DEF TxInd
<1> QED BY <1>1, <1>2

LEMMA TxNext == OneDescriptor /\ TxInd /\ [Next]_vars => TxInd'
<1> SUFFICES ASSUME OneDescriptor, TxInd, [Next]_vars PROVE TxInd'
  OBVIOUS
<1>1. ASSUME NEW bufs \in 1..MaxChain, Output(bufs) \/ Refused(bufs) PROVE TxInd'
  BY <1>1, TxOutputStep, TxRefusedStep
<1>2. CASE Sent \/ TimedOut
  BY <1>2, TxReturnStep
<1>3. CASE DmaFetch \/ DmaWriteBack
  BY <1>3, TxDmaStep
<1>4. CASE LinkChange
  BY <1>4 DEF LinkChange, TxInd, TypeOK, OwnedIsAwaited, FetchedKnown, WrittenBack, Behind, After
<1>5. CASE UNCHANGED vars
  BY <1>5 DEF vars, TxInd, TypeOK, OwnedIsAwaited, FetchedKnown, WrittenBack, Behind, After
<1> QED BY <1>1, <1>2, <1>3, <1>4, <1>5 DEF Next

(***************************************************************************)
(* In a ring of any size, after any number of timeouts: the DMA is never   *)
(* left a descriptor that points to memory low_level_output has given      *)
(* back, and HAL_OK means that the DMA has read the packet, unless it has  *)
(* stood still for as many timeouts as there are descriptors.              *)
(***************************************************************************)
THEOREM TransmitCorrect ==
  ASSUME OneDescriptor
  PROVE  PartsSpec => TransmissionHolds
<1>1. PartsInit => TxInd
  BY TxInitial DEF PartsInit
<1>2. TxInd /\ [PartsNext]_partsVars => TxInd'
  BY TxNext DEF PartsNext, partsVars, BesideStream, BesideTimers, BesideTelnet, BesideSha256, BesideMeter
<1>3. TxInd => TypeOK /\ NoDeadDescriptor
  BY DEF TxInd, OwnedIsAwaited, NoDeadDescriptor
<1>4. TxInd => [Sent => unread = {} \/ stall = DescCnt]_vars
  BY DEF TxInd, WrittenBack, Sent
<1> QED BY <1>1, <1>2, <1>3, <1>4, PTL DEF PartsSpec, TransmissionHolds, OkMeansRead

-----------------------------------------------------------------------------
(***************************************************************************)
(* LwipTimers.  The time of an entry and its true time differ by whole     *)
(* turns of the counter, and no entry is half a turn away: so              *)
(* TIME_LESS_THAN compares true times, and the list is sorted by them.     *)
(* Each timer is in the list once, but for the one whose handler runs.     *)
(***************************************************************************)
(* The timers that have a handler, and half a turn of the counter. *)
Handlers == Timers!Timers
HalfTurn == Word \div 2

(* The same place of the counter. *)
Turned(x, y) == \E k \in Int : x = y + k * Word

(* An entry of the list. *)
Entry == [timer : Handlers, time : 0 .. Word - 1, left : Timers!Lefts]

(* What is known of an entry: its time is what is left from now on, no *)
(* further off than its interval and not too late.                     *)
EntryHolds(e, clock, late) ==
  Turned(e.time, clock + e.left) /\ e.left + late > 0 /\ e.left <= Interval[e.timer]

(* The timer is in the list. *)
Holds(list, t) == \E i \in 1 .. Len(list) : list[i].timer = t

(* SortedByTrueTime, and no timer twice. *)
Sorted(list) == \A i, j \in 1 .. Len(list) : i < j => list[i].left <= list[j].left

Distinct(list) == \A i, j \in 1 .. Len(list) : list[i].timer = list[j].timer => i = j

(* What is known of the list at a time, when no entry is late by so much. *)
ListInv(list, clock, late) ==
  /\ list \in Seq(Entry)
  /\ \A i \in 1 .. Len(list) : EntryHolds(list[i], clock, late)
  /\ Sorted(list) /\ Distinct(list)

-----------------------------------------------------------------------------
LEMMA TimersNumbers ==
  /\ Word \in Nat /\ HalfTurn \in Nat /\ Word = 2 * HalfTurn /\ HalfTurn > 0 /\ Word > 0
  /\ MaxRound \in Nat /\ MaxRound > 0 /\ 2 * MaxRound < HalfTurn
  /\ LinkPeriod \in Nat /\ LinkPeriod > 0 /\ LinkPeriod + 2 * MaxRound < Word
  /\ \A t \in Handlers :
       Interval[t] \in Nat /\ Interval[t] > 0 /\ Interval[t] + 2 * MaxRound < HalfTurn
<1>1. Word \in Nat /\ Word % 2 = 0
  BY PartsAssumption DEF Timers!LwipTimersAssumption
<1>2. HalfTurn \in Nat /\ Word = 2 * HalfTurn
  BY <1>1 DEF HalfTurn
<1>3. MaxRound \in Nat /\ MaxRound > 0
  BY PartsAssumption DEF Timers!LwipTimersAssumption
<1>4. LinkPeriod \in Nat /\ LinkPeriod > 0 /\ LinkPeriod + 2 * MaxRound < Word
  BY PartsAssumption DEF Timers!LwipTimersAssumption
<1>5. \A t \in Handlers :
        Interval[t] \in Nat /\ Interval[t] > 0 /\ Interval[t] + 2 * MaxRound < HalfTurn
  BY PartsAssumption DEF Timers!LwipTimersAssumption, Handlers, HalfTurn
<1>6. "tcp" \in Handlers
  BY DEF Handlers, Timers!Timers
<1> QED BY <1>1, <1>2, <1>3, <1>4, <1>5, <1>6

LEMMA TimersNames ==
  /\ IsFiniteSet(Handlers) /\ Handlers = Cyclic \cup {"tcp"} /\ "tcp" \notin Cyclic
  /\ "input" \notin Handlers /\ "check" \notin Handlers /\ "link" \notin Handlers
  /\ IsFiniteSet(Cyclic)
<1>1. {"tcp", "input", "check", "link"} \cap Cyclic = {} /\ IsFiniteSet(Cyclic)
  BY PartsAssumption DEF Timers!LwipTimersAssumption, IsFiniteSet, Timers!IsFiniteSet
<1>2. Handlers = Cyclic \cup {"tcp"}
  BY DEF Handlers, Timers!Timers
<1> QED BY <1>1, <1>2, FS_AddElement

LEMMA TimersCardinality == \A S : Timers!Cardinality(S) = Cardinality(S)
BY DEF Cardinality, Timers!Cardinality

LEMMA TurnedModulo ==
  ASSUME NEW n \in Int
  PROVE  n % Word \in 0 .. Word - 1 /\ Turned(n % Word, n)
<1> DEFINE q == n \div Word
           w == n % Word
<1>1. n = Word * q + w /\ w \in 0 .. Word - 1 /\ q \in Int
  BY Divided, TimersNumbers
<1> HIDE DEF q, w
<1>2. w = n + (-q) * Word /\ -q \in Int
  BY <1>1, TimersNumbers
<1>3. Turned(w, n)
  BY <1>2 DEF Turned
<1> QED BY <1>1, <1>3 DEF w

LEMMA TurnedSum ==
  ASSUME NEW x \in Int, NEW y \in Int, NEW n \in Int, Turned(x, y)
  PROVE  (x + n) % Word \in 0 .. Word - 1 /\ Turned((x + n) % Word, y + n)
<1>1. PICK k \in Int : x = y + k * Word
  BY DEF Turned
<1>2. (x + n) % Word \in 0 .. Word - 1 /\ Turned((x + n) % Word, x + n)
  BY TurnedModulo
<1>3. PICK j \in Int : (x + n) % Word = x + n + j * Word
  BY <1>2 DEF Turned
<1>4. (x + n) % Word = y + n + (k + j) * Word /\ k + j \in Int
  BY <1>1, <1>3, TimersNumbers
<1> QED BY <1>2, <1>4 DEF Turned

LEMMA TurnedBack ==
  ASSUME NEW x \in Int, NEW y \in Int, NEW a \in Int, NEW b \in Int, Turned(x, a), Turned(y, b),
         a - b \in 0 .. Word - 1
  PROVE  (x - y) % Word = a - b
<1>1. PICK k \in Int : x = a + k * Word
  BY DEF Turned
<1>2. PICK j \in Int : y = b + j * Word
  BY DEF Turned
<1>3. x - y = (a - b) + (k - j) * Word /\ k - j \in Int /\ x - y \in Int
  BY <1>1, <1>2, TimersNumbers
<1>4. x - y \in Int /\ k - j \in Int /\ a - b \in 0 .. Word - 1 /\ Word \in Nat \ {0}
  BY <1>3, TimersNumbers
<1>5. x - y = (a - b) + (k - j) * Word
  BY <1>3
<1> HIDE <1>3
<1> DEFINE n == x - y
           m == a - b
           h == k - j
<1>6. n \in Int /\ h \in Int /\ m \in 0 .. Word - 1 /\ n = m + h * Word
  BY <1>4, <1>5
<1> HIDE DEF n, m, h
<1>7. n % Word = m
  BY <1>4, <1>6, Turns
<1> QED BY <1>7 DEF n, m

(* Within half a turn TIME_LESS_THAN compares the true times. *)
LEMMA Comparison ==
  ASSUME NEW x \in Int, NEW y \in Int, NEW a \in Int, NEW b \in Int, Turned(x, a), Turned(y, b),
         -HalfTurn < a - b, a - b < HalfTurn
  PROVE  Timers!LessThan(x, y) <=> a < b
<1>1. CASE a < b
  <2>1. PICK k \in Int : x = a + k * Word
    BY DEF Turned
  <2>2. x = (a + Word) + (k - 1) * Word /\ k - 1 \in Int
    BY <2>1, TimersNumbers
  <2>3. Turned(x, a + Word)
    BY <2>2 DEF Turned
  <2>4. a + Word \in Int /\ (a + Word) - b \in 0 .. Word - 1
    BY <1>1, TimersNumbers
  <2>5. (x - y) % Word = (a + Word) - b
    BY <2>3, <2>4, TurnedBack
  <2> QED BY <1>1, <2>5, TimersNumbers DEF Timers!LessThan, HalfTurn
<1>2. CASE a >= b
  <2>1. a - b \in 0 .. Word - 1
    BY <1>2, TimersNumbers
  <2>2. (x - y) % Word = a - b
    BY <2>1, TurnedBack
  <2> QED BY <1>2, <2>2, TimersNumbers DEF Timers!LessThan, HalfTurn
<1> QED BY <1>1, <1>2

LEMMA TimersLeast ==
  ASSUME NEW S \in SUBSET Nat, S # {}
  PROVE  Timers!Min(S) \in S /\ \A y \in S : Timers!Min(S) <= y
<1>1. \E x \in S : \A y \in S : ~(<<y, x>> \in OpToRel(<, Nat))
  BY WFMin, NatLessThanWellFounded, Zenon
<1>2. PICK x \in S : \A y \in S : ~(y < x)
  BY <1>1 DEF OpToRel
<1>3. \A y \in S : x <= y
  BY <1>2
<1> QED BY <1>3 DEF Timers!Min

LEMMA Inserted ==
  ASSUME NEW S, NEW list \in Seq(S), NEW e \in S, NEW p \in 1 .. Len(list) + 1,
         NEW L, L = Timers!InsertAt(list, p, e)
  PROVE  /\ L \in Seq(S) /\ Len(L) = Len(list) + 1
         /\ L[p] = e
         /\ \A i \in 1 .. p - 1 : L[i] = list[i]
         /\ \A i \in p .. Len(list) : L[i + 1] = list[i]
<1> DEFINE n == Len(list)
           front == SubSeq(list, 1, p - 1)
           after == SubSeq(list, p, n)
           mid == front \o <<e>>
<1>1. n \in Nat /\ p \in 1 .. n + 1 /\ (\A i \in 1 .. n : list[i] \in S)
  BY LenProperties, ElementOfSeq
<1>2. /\ front \in Seq(S) /\ Len(front) = p - 1
      /\ \A i \in 1 .. p - 1 : front[i] = list[i]
  <2>1. \A i \in 1 .. p - 1 : list[i] \in S
    BY <1>1
  <2>2. /\ front \in Seq(S) /\ Len(front) = IF 1 <= p - 1 THEN (p - 1) - 1 + 1 ELSE 0
        /\ \A i \in 1 .. (p - 1) - 1 + 1 : front[i] = list[1 + i - 1]
    BY <1>1, <2>1, SubSeqProperties
  <2> HIDE DEF front, n
  <2> QED BY <1>1, <2>2
<1>3. /\ after \in Seq(S) /\ Len(after) = n + 1 - p
      /\ \A i \in 1 .. n + 1 - p : after[i] = list[p + i - 1]
  <2>1. \A i \in p .. n : list[i] \in S
    BY <1>1
  <2>2. /\ after \in Seq(S) /\ Len(after) = IF p <= n THEN n - p + 1 ELSE 0
        /\ \A i \in 1 .. n - p + 1 : after[i] = list[p + i - 1]
    BY <1>1, <2>1, SubSeqProperties
  <2> HIDE DEF after, n
  <2> QED BY <1>1, <2>2
<1>4. <<e>> \in Seq(S) /\ Len(<<e>>) = 1 /\ <<e>>[1] = e
  OBVIOUS
<1> HIDE DEF n, front, after
<1>5. /\ mid \in Seq(S) /\ Len(mid) = p
      /\ \A i \in 1 .. p : mid[i] = IF i <= p - 1 THEN list[i] ELSE e
  <2>1. /\ mid \in Seq(S) /\ Len(mid) = Len(front) + Len(<<e>>)
        /\ \A i \in 1 .. Len(front) + Len(<<e>>) :
             mid[i] = IF i <= Len(front) THEN front[i] ELSE <<e>>[i - Len(front)]
    BY <1>2, <1>4, ConcatProperties
  <2> HIDE DEF mid
  <2>2. /\ mid \in Seq(S) /\ Len(mid) = p
        /\ \A i \in 1 .. p : mid[i] = IF i <= p - 1 THEN front[i] ELSE <<e>>[i - (p - 1)]
    <3>1. Len(front) = p - 1 /\ Len(front) + Len(<<e>>) = p
      BY <1>1, <1>2, <1>4
    <3> QED BY <2>1, <3>1
  <2>3. ASSUME NEW i \in 1 .. p PROVE mid[i] = IF i <= p - 1 THEN list[i] ELSE e
    <3>1. CASE i <= p - 1
      <4>1. i \in 1 .. p - 1 /\ mid[i] = front[i]
        BY <1>1, <2>2, <3>1
      <4> QED BY <1>2, <3>1, <4>1
    <3>2. CASE ~(i <= p - 1)
      <4>1. i - (p - 1) = 1 /\ mid[i] = <<e>>[i - (p - 1)]
        BY <1>1, <2>2, <3>2
      <4> QED BY <1>4, <3>2, <4>1
    <3> QED BY <3>1, <3>2
  <2> QED BY <2>2, <2>3
<1>7. L = mid \o after
  BY DEF Timers!InsertAt, n, front, after, mid
<1>6. /\ L \in Seq(S) /\ Len(L) = n + 1
      /\ \A i \in 1 .. n + 1 : L[i] = IF i <= p THEN mid[i] ELSE after[i - p]
  <2> HIDE DEF mid
  <2>0. /\ mid \o after \in Seq(S) /\ Len(mid \o after) = Len(mid) + Len(after)
        /\ \A i \in 1 .. Len(mid) + Len(after) :
             (mid \o after)[i] = IF i <= Len(mid) THEN mid[i] ELSE after[i - Len(mid)]
    BY <1>3, <1>5, ConcatProperties
  <2>1. /\ L \in Seq(S) /\ Len(L) = Len(mid) + Len(after)
        /\ \A i \in 1 .. Len(mid) + Len(after) :
             L[i] = IF i <= Len(mid) THEN mid[i] ELSE after[i - Len(mid)]
    BY <1>7, <2>0
  <2> QED BY <1>1, <1>3, <1>5, <2>1
<1> HIDE DEF mid
<1>8. \A i \in p .. n : L[i + 1] = list[i]
  <2> SUFFICES ASSUME NEW i \in p .. n PROVE L[i + 1] = list[i]
    OBVIOUS
  <2>1. L[i + 1] = after[i + 1 - p]
    BY <1>1, <1>6
  <2>2. i + 1 - p \in 1 .. n + 1 - p
    BY <1>1
  <2>3. after[i + 1 - p] = list[p + (i + 1 - p) - 1]
    BY <1>3, <2>2
  <2>4. p + (i + 1 - p) - 1 = i
    BY <1>1
  <2> QED BY <2>1, <2>3, <2>4
<1>9. L[p] = e /\ \A i \in 1 .. p - 1 : L[i] = list[i]
  BY <1>1, <1>5, <1>6
<1> QED BY <1>1, <1>6, <1>8, <1>9 DEF n

(* A timer that is not in the list finds an entry in the pool. *)
LEMMA RoomInPool ==
  ASSUME NEW list \in Seq(Entry), Distinct(list), NEW t \in Handlers, ~Holds(list, t)
  PROVE  Len(list) < Timers!PoolSize
<1> DEFINE S == 1 .. Len(list)
           T == Handlers \ {t}
           f == [i \in S |-> list[i].timer]
<1>1. Len(list) \in Nat /\ \A i \in S : list[i] \in Entry
  BY LenProperties, ElementOfSeq
<1>2. f \in [S -> T]
  BY <1>1 DEF Entry, Holds
<1>3. f \in Injection(S, T)
  BY <1>2 DEF Injection, IsInjective, Distinct
<1>4. IsFiniteSet(Handlers)
  BY TimersNames
<1>5. IsFiniteSet(T) /\ Cardinality(T) = Cardinality(Handlers) - 1 /\ Cardinality(Handlers) \in Nat
  <2>1. /\ IsFiniteSet(T)
        /\ Cardinality(T) = IF t \in Handlers THEN Cardinality(Handlers) - 1 ELSE Cardinality(Handlers)
    BY <1>4, FS_RemoveElement
  <2>2. Cardinality(Handlers) \in Nat
    BY <1>4, FS_CardinalityType
  <2> QED BY <2>1, <2>2
<1>6. Cardinality(S) <= Cardinality(T)
  <2> HIDE DEF S, T, f
  <2> QED BY <1>3, <1>5, FS_Injection
<1>7. Cardinality(S) = Len(list)
  <2>1. Cardinality(S) = IF 1 > Len(list) THEN 0 ELSE Len(list) - 1 + 1
    BY <1>1, FS_Interval
  <2> QED BY <1>1, <2>1
<1>8. Timers!PoolSize = Cardinality(Handlers)
  BY TimersCardinality DEF Timers!PoolSize, Handlers
<1> HIDE DEF S, T, f
<1> QED BY <1>1, <1>5, <1>6, <1>7, <1>8

LEMMA EntryIs ==
  ASSUME NEW e \in Entry
  PROVE  /\ e.timer \in Handlers /\ e.time \in 0 .. Word - 1 /\ e.time \in Int
         /\ e.left \in Int /\ Interval[e.timer] \in Nat /\ Interval[e.timer] + 2 * MaxRound < HalfTurn
BY TimersNumbers DEF Entry, Timers!Lefts

(* sys_timeout_abs: the timer is entered, and the list stays what it is. *)
LEMMA EnteredKeeps ==
  ASSUME NEW clock \in Int, NEW late \in 0 .. 2 * MaxRound, NEW list, ListInv(list, clock, late),
         NEW t \in Handlers, ~Holds(list, t),
         NEW time \in 0 .. Word - 1, NEW to \in Int,
         EntryHolds([timer |-> t, time |-> time, left |-> to], clock, late)
  PROVE  LET L == Timers!Entered(list, t, time, to)
         IN  /\ ListInv(L, clock, late)
             /\ \A u : Holds(L, u) <=> Holds(list, u) \/ u = t
             /\ \E i \in 1 .. Len(L) : L[i].timer = t /\ L[i].left = to
<1> DEFINE e == [timer |-> t, time |-> time, left |-> to]
           n == Len(list)
           later == {i \in DOMAIN list : Timers!Before(time, list[i])}
           place == Timers!Min(later \cup {n + 1})
           L == Timers!InsertAt(list, place, e)
<1>1. /\ n \in Nat /\ list \in Seq(Entry) /\ DOMAIN list = 1 .. n
      /\ \A i \in 1 .. n : list[i] \in Entry
  BY LenProperties, ElementOfSeq DEF ListInv
<1>2. /\ e.timer = t /\ e.time = time /\ e.left = to
      /\ Turned(time, clock + to) /\ to + late > 0 /\ to <= Interval[t]
      /\ Interval[t] \in Nat /\ Interval[t] + 2 * MaxRound < HalfTurn
  BY TimersNumbers DEF EntryHolds
<1>3. e \in Entry
  <2>1. to \in Timers!Lefts
    BY <1>2, TimersNumbers DEF Timers!Lefts
  <2> QED BY <2>1 DEF Entry
<1>4. Timers!Entered(list, t, time, to) = L
  <2>1. Len(list) < Timers!PoolSize
    BY <1>1, RoomInPool DEF ListInv
  <2> QED BY <2>1 DEF Timers!Entered
<1>5. \A i \in 1 .. n : i \in later <=> to < list[i].left
  <2> SUFFICES ASSUME NEW i \in 1 .. n PROVE i \in later <=> to < list[i].left
    OBVIOUS
  <2>1. list[i] \in Entry /\ EntryHolds(list[i], clock, late)
    BY <1>1 DEF ListInv
  <2>2. /\ list[i].time \in Int /\ list[i].left \in Int
        /\ Turned(list[i].time, clock + list[i].left)
        /\ list[i].left + late > 0 /\ list[i].left + 2 * MaxRound < HalfTurn
    <3>1. /\ list[i].time \in Int /\ list[i].left \in Int
          /\ Interval[list[i].timer] \in Nat
          /\ Interval[list[i].timer] + 2 * MaxRound < HalfTurn
      BY <2>1, EntryIs
    <3>2. /\ Turned(list[i].time, clock + list[i].left)
          /\ list[i].left + late > 0 /\ list[i].left <= Interval[list[i].timer]
      BY <2>1 DEF EntryHolds
    <3>3. PICK d \in Int, v \in Nat : /\ d = list[i].left /\ v = Interval[list[i].timer]
                                    /\ d <= v /\ v + 2 * MaxRound < HalfTurn
      BY <3>1, <3>2
    <3>4. d + 2 * MaxRound < HalfTurn
      <4>1. PICK m \in Int : m = 2 * MaxRound /\ v + m < HalfTurn /\ HalfTurn \in Int
        BY <3>3, TimersNumbers
      <4>2. d + m < HalfTurn
        BY <3>3, <4>1
      <4> QED BY <4>1, <4>2
    <3> QED BY <3>1, <3>2, <3>3, <3>4
  <2> DEFINE c == list[i].left
             w == Interval[t]
             a == clock + to
             b == clock + c
  <2>0. /\ to \in Int /\ c \in Int /\ late \in Int /\ late <= 2 * MaxRound /\ w \in Int
        /\ c + late > 0 /\ to + late > 0 /\ c + 2 * MaxRound < HalfTurn
        /\ to <= w /\ w + 2 * MaxRound < HalfTurn /\ MaxRound \in Int /\ HalfTurn \in Int
    BY <1>2, <2>2, TimersNumbers
  <2> HIDE DEF c, w
  <2>3. a \in Int /\ b \in Int /\ -HalfTurn < a - b /\ a - b < HalfTurn /\ (a < b <=> to < c)
    <3>1. a \in Int /\ b \in Int /\ a - b = to - c /\ (a < b <=> to < c)
      BY <2>0
    <3>2. -HalfTurn < to - c
      BY <2>0
    <3>3. to - c < HalfTurn
      BY <2>0
    <3> QED BY <3>1, <3>2, <3>3
  <2>4. Turned(time, a) /\ Turned(list[i].time, b) /\ time \in Int
    BY <1>2, <2>2 DEF c
  <2> HIDE DEF a, b
  <2>5. Timers!LessThan(time, list[i].time) <=> a < b
    BY <2>2, <2>3, <2>4, Comparison
  <2> QED BY <1>1, <2>3, <2>5 DEF Timers!Before, c
<1>6. /\ place \in 1 .. n + 1
      /\ \A i \in 1 .. place - 1 : list[i].left <= to
      /\ \A i \in place .. n : to < list[i].left
  <2>1. later \cup {n + 1} \in SUBSET Nat /\ later \cup {n + 1} # {} /\ later \subseteq 1 .. n
    BY <1>1
  <2> HIDE DEF later
  <2>2. place \in later \cup {n + 1} /\ \A y \in later \cup {n + 1} : place <= y
    BY <2>1, TimersLeast
  <2> HIDE DEF place, n
  <2>3. place \in 1 .. n + 1
    BY <1>1, <2>1, <2>2
  <2>4. \A i \in 1 .. n : list[i].left \in Int
    BY <1>1, EntryIs
  <2>5. \A i \in 1 .. place - 1 : list[i].left <= to
    <3> SUFFICES ASSUME NEW i \in 1 .. place - 1 PROVE list[i].left <= to
      OBVIOUS
    <3>1. i \in 1 .. n /\ ~(place <= i)
      BY <1>1, <2>3
    <3>2. i \notin later
      BY <2>2, <3>1
    <3> QED BY <1>5, <2>4, <3>1, <3>2
  <2>6. \A i \in place .. n : to < list[i].left
    <3> SUFFICES ASSUME NEW i \in place .. n PROVE to < list[i].left
      OBVIOUS
    <3>1. place \in 1 .. n /\ i \in 1 .. n /\ place <= i
      BY <1>1, <2>3
    <3>2. place \in later
      BY <1>1, <2>2, <3>1
    <3>3. to < list[place].left
      BY <1>5, <3>1, <3>2
    <3>4. list[place].left <= list[i].left
      BY <2>4, <3>1 DEF ListInv, Sorted, n
    <3> QED BY <2>4, <3>1, <3>3, <3>4
  <2> QED BY <2>3, <2>5, <2>6
<1> HIDE DEF e, later, place
<1>7. /\ L \in Seq(Entry) /\ Len(L) = n + 1 /\ L[place] = e
      /\ \A i \in 1 .. place - 1 : L[i] = list[i]
      /\ \A i \in place .. n : L[i + 1] = list[i]
  <2>1. place \in 1 .. Len(list) + 1
    BY <1>6
  <2>2. list \in Seq(Entry)
    BY <1>1
  <2>3. /\ L \in Seq(Entry) /\ Len(L) = Len(list) + 1 /\ L[place] = e
        /\ \A i \in 1 .. place - 1 : L[i] = list[i]
        /\ \A i \in place .. Len(list) : L[i + 1] = list[i]
    <3>1. L = Timers!InsertAt(list, place, e)
      OBVIOUS
    <3> HIDE DEF L
    <3>2. /\ L \in Seq(Entry) /\ Len(L) = Len(list) + 1 /\ L[place] = e
      BY <1>3, <2>1, <2>2, <3>1, Inserted
    <3>3. /\ \A i \in 1 .. place - 1 : L[i] = list[i]
      BY <1>3, <2>1, <2>2, <3>1, Inserted
    <3>4. \A i \in place .. Len(list) : L[i + 1] = list[i]
      BY <1>3, <2>1, <2>2, <3>1, Inserted
    <3> QED BY <3>2, <3>3, <3>4
  <2> QED BY <2>3
<1> HIDE DEF L, n
<1>8. \A i \in 1 .. n + 1 :
        \/ i = place /\ L[i] = e
        \/ i < place /\ i \in 1 .. n /\ i \in 1 .. place - 1 /\ L[i] = list[i]
        \/ place < i /\ i - 1 \in 1 .. n /\ i - 1 \in place .. n /\ L[i] = list[i - 1]
  <2> SUFFICES ASSUME NEW i \in 1 .. n + 1, place < i
               PROVE  i - 1 \in 1 .. n /\ i - 1 \in place .. n /\ L[i] = list[i - 1]
    BY <1>1, <1>6, <1>7
  <2>1. i - 1 \in 1 .. n /\ i - 1 \in place .. n /\ (i - 1) + 1 = i
    BY <1>1, <1>6
  <2> QED BY <1>7, <2>1
<1>9. \A i \in 1 .. n : L[IF i < place THEN i ELSE i + 1] = list[i]
                      /\ (IF i < place THEN i ELSE i + 1) \in 1 .. n + 1
  <2> SUFFICES ASSUME NEW i \in 1 .. n
               PROVE  L[IF i < place THEN i ELSE i + 1] = list[i]
                      /\ (IF i < place THEN i ELSE i + 1) \in 1 .. n + 1
    OBVIOUS
  <2>1. CASE i < place
    BY <1>1, <1>6, <1>7, <2>1
  <2>2. CASE ~(i < place)
    <3>1. i \in place .. n /\ i + 1 \in 1 .. n + 1
      BY <1>1, <1>6, <2>2
    <3> QED BY <1>1, <1>7, <2>2, <3>1
  <2> QED BY <2>1, <2>2
<1>10. \A i \in 1 .. n + 1 : EntryHolds(L[i], clock, late)
  <2>1. EntryHolds(e, clock, late)
    BY DEF e
  <2>2. \A i \in 1 .. n : EntryHolds(list[i], clock, late)
    BY DEF ListInv, n
  <2> QED BY <1>8, <2>1, <2>2
<1>11. Sorted(L)
  <2> SUFFICES ASSUME NEW i \in 1 .. n + 1, NEW j \in 1 .. n + 1, i < j
               PROVE  L[i].left <= L[j].left
    BY <1>7 DEF Sorted
  <2>1. \A k, m \in 1 .. n : k < m => list[k].left <= list[m].left
    BY DEF ListInv, Sorted, n
  <2>2. CASE i = place
    <3>1. L[i] = e /\ L[j] = list[j - 1] /\ j - 1 \in 1 .. n /\ j - 1 \in place .. n
      BY <1>1, <1>6, <1>8, <2>2
    <3>2. list[j - 1].left \in Int
      BY <1>1, <3>1, EntryIs
    <3> QED BY <1>2, <1>6, <3>1, <3>2 DEF e
  <2>3. CASE j = place
    <3>1. L[j] = e /\ L[i] = list[i] /\ i \in 1 .. place - 1
      BY <1>1, <1>6, <1>8, <2>3
    <3> QED BY <1>2, <1>6, <3>1 DEF e
  <2>4. CASE i < place /\ j < place
    <3>1. L[i] = list[i] /\ L[j] = list[j] /\ i \in 1 .. n /\ j \in 1 .. n
      BY <1>1, <1>6, <1>8, <2>4
    <3> QED BY <2>1, <3>1
  <2>5. CASE i < place /\ place < j
    <3>1. /\ L[i] = list[i] /\ L[j] = list[j - 1] /\ i \in 1 .. place - 1
          /\ j - 1 \in place .. n /\ i \in 1 .. n /\ j - 1 \in 1 .. n /\ i < j - 1
      BY <1>1, <1>6, <1>8, <2>5
    <3> QED BY <2>1, <3>1
  <2>6. CASE place < i /\ place < j
    <3>1. /\ L[i] = list[i - 1] /\ L[j] = list[j - 1]
          /\ i - 1 \in 1 .. n /\ j - 1 \in 1 .. n /\ i - 1 < j - 1
      <4>1. /\ i - 1 \in 1 .. n /\ j - 1 \in 1 .. n /\ i - 1 < j - 1
            /\ ~(i < place) /\ i # place /\ ~(j < place) /\ j # place
        BY <1>1, <1>6, <2>6
      <4> QED BY <1>8, <4>1
    <3> QED BY <2>1, <3>1
  <2> QED BY <1>1, <1>6, <2>2, <2>3, <2>4, <2>5, <2>6
<1>12. Distinct(L)
  <2> SUFFICES ASSUME NEW i \in 1 .. n + 1, NEW j \in 1 .. n + 1, L[i].timer = L[j].timer
               PROVE  i = j
    BY <1>7 DEF Distinct
  <2>1. \A k, m \in 1 .. n : list[k].timer = list[m].timer => k = m
    BY DEF ListInv, Distinct, n
  <2>2. \A k \in 1 .. n : list[k].timer # e.timer
    BY <1>2 DEF Holds, n
  <2>3. CASE i = place \/ j = place
    <3>1. \A k \in 1 .. n + 1 : k # place => L[k].timer # e.timer
      <4> SUFFICES ASSUME NEW k \in 1 .. n + 1, k # place PROVE L[k].timer # e.timer
        OBVIOUS
      <4>1. \E m \in 1 .. n : L[k] = list[m]
        BY <1>1, <1>6, <1>8
      <4> QED BY <2>2, <4>1
    <3>2. L[place].timer = e.timer
      BY <1>7
    <3>3. i = place => j = place
      BY <3>1, <3>2
    <3>4. j = place => i = place
      BY <3>1, <3>2
    <3> QED BY <2>3, <3>3, <3>4
  <2>4. CASE i < place /\ j < place
    <3>1. L[i] = list[i] /\ L[j] = list[j] /\ i \in 1 .. n /\ j \in 1 .. n
      BY <1>1, <1>6, <1>8, <2>4
    <3> QED BY <2>1, <3>1
  <2>5. CASE place < i /\ place < j
    <3>1. /\ L[i] = list[i - 1] /\ L[j] = list[j - 1]
          /\ i - 1 \in 1 .. n /\ j - 1 \in 1 .. n
      BY <1>1, <1>6, <1>8, <2>5
    <3>2. i - 1 = j - 1
      BY <2>1, <3>1
    <3> QED BY <3>2
  <2>6. CASE i < place /\ place < j
    <3>1. /\ L[i] = list[i] /\ L[j] = list[j - 1] /\ i \in 1 .. n /\ j - 1 \in 1 .. n /\ i < j - 1
      BY <1>1, <1>6, <1>8, <2>6
    <3>2. i = j - 1
      BY <2>1, <3>1
    <3> QED BY <3>1, <3>2
  <2>7. CASE j < place /\ place < i
    <3>1. /\ L[j] = list[j] /\ L[i] = list[i - 1] /\ j \in 1 .. n /\ i - 1 \in 1 .. n /\ j < i - 1
      BY <1>1, <1>6, <1>8, <2>7
    <3>2. j = i - 1
      BY <2>1, <3>1
    <3> QED BY <3>1, <3>2
  <2> QED BY <1>1, <1>6, <2>3, <2>4, <2>5, <2>6, <2>7
<1>13. ASSUME NEW u PROVE Holds(L, u) <=> Holds(list, u) \/ u = t
  <2>1. ASSUME NEW i \in 1 .. n + 1, L[i].timer = u PROVE Holds(list, u) \/ u = t
    BY <1>2, <1>8, <2>1 DEF Holds, n
  <2>2. ASSUME NEW i \in 1 .. n, list[i].timer = u PROVE Holds(L, u)
    BY <1>7, <1>9, <2>2 DEF Holds
  <2>3. u = t => Holds(L, u)
    BY <1>2, <1>6, <1>7 DEF Holds
  <2>4. Holds(L, u) => \E i \in 1 .. n + 1 : L[i].timer = u
    BY <1>7 DEF Holds
  <2>5. Holds(list, u) => \E i \in 1 .. n : list[i].timer = u
    BY DEF Holds, n
  <2> QED BY <2>1, <2>2, <2>3, <2>4, <2>5
<1>14. ListInv(L, clock, late)
  BY <1>7, <1>10, <1>11, <1>12 DEF ListInv
<1>15. \E i \in 1 .. Len(L) : L[i].timer = t /\ L[i].left = to
  BY <1>2, <1>6, <1>7
<1> QED BY <1>4, <1>13, <1>14, <1>15

(* The head leaves the list. *)
LEMMA TailKeeps ==
  ASSUME NEW clock, NEW late, NEW list, ListInv(list, clock, late), list # <<>>
  PROVE  /\ ListInv(Tail(list), clock, late)
         /\ Head(list) \in Entry /\ EntryHolds(Head(list), clock, late)
         /\ Holds(list, Head(list).timer)
         /\ \A u : Holds(Tail(list), u) <=> Holds(list, u) /\ u # Head(list).timer
<1> DEFINE n == Len(list)
           T == Tail(list)
<1>1. /\ n \in Nat /\ n > 0 /\ Head(list) = list[1] /\ list \in Seq(Entry)
      /\ \A i \in 1 .. n : list[i] \in Entry
  BY LenProperties, ElementOfSeq, EmptySeq DEF ListInv
<1>2. /\ T \in Seq(Entry) /\ Len(T) = n - 1 /\ \A i \in 1 .. Len(T) : T[i] = list[i + 1]
  BY <1>1, HeadTailProperties
<1> HIDE DEF T
<1>3. /\ \A i \in 1 .. n : EntryHolds(list[i], clock, late)
      /\ \A i, j \in 1 .. n : i < j => list[i].left <= list[j].left
      /\ \A i, j \in 1 .. n : list[i].timer = list[j].timer => i = j
  BY DEF ListInv, Sorted, Distinct
<1> HIDE DEF n
<1>4. \A i \in 1 .. n - 1 : T[i] = list[i + 1] /\ i + 1 \in 1 .. n
  BY <1>1, <1>2
<1>5. \A i \in 1 .. n - 1 : EntryHolds(T[i], clock, late)
  BY <1>3, <1>4
<1>6. Sorted(T)
  <2> SUFFICES ASSUME NEW i \in 1 .. n - 1, NEW j \in 1 .. n - 1, i < j
               PROVE  T[i].left <= T[j].left
    BY <1>2 DEF Sorted
  <2>1. i + 1 \in 1 .. n /\ j + 1 \in 1 .. n /\ i + 1 < j + 1
    BY <1>1
  <2> QED BY <1>3, <1>4, <2>1
<1>7. Distinct(T)
  <2> SUFFICES ASSUME NEW i \in 1 .. n - 1, NEW j \in 1 .. n - 1, T[i].timer = T[j].timer
               PROVE  i = j
    BY <1>2 DEF Distinct
  <2>1. i + 1 \in 1 .. n /\ j + 1 \in 1 .. n
    BY <1>1
  <2>2. i + 1 = j + 1
    BY <1>3, <1>4, <2>1
  <2> QED BY <2>2
<1>8. ListInv(T, clock, late)
  BY <1>2, <1>5, <1>6, <1>7 DEF ListInv
<1>9. 1 \in 1 .. n
  BY <1>1
<1>10. ASSUME NEW u PROVE Holds(T, u) <=> Holds(list, u) /\ u # Head(list).timer
  <2>1. ASSUME NEW i \in 1 .. n - 1, T[i].timer = u PROVE Holds(list, u) /\ u # list[1].timer
    <3>1. i + 1 \in 1 .. n /\ i + 1 # 1 /\ list[i + 1].timer = u
      BY <1>1, <1>4, <2>1
    <3> QED BY <1>3, <1>9, <3>1 DEF Holds, n
  <2>2. ASSUME NEW i \in 1 .. n, list[i].timer = u, u # list[1].timer PROVE Holds(T, u)
    <3>1. i - 1 \in 1 .. n - 1 /\ (i - 1) + 1 = i
      BY <1>1, <2>2
    <3>2. T[i - 1] = list[i]
      BY <1>2, <3>1
    <3> QED BY <1>2, <2>2, <3>1, <3>2 DEF Holds
  <2>3. Holds(T, u) => \E i \in 1 .. n - 1 : T[i].timer = u
    BY <1>2 DEF Holds
  <2>4. Holds(list, u) => \E i \in 1 .. n : list[i].timer = u
    BY DEF Holds, n
  <2> QED BY <1>1, <2>1, <2>2, <2>3, <2>4
<1>11. Holds(list, Head(list).timer)
  BY <1>1, <1>9 DEF Holds, n
<1> QED BY <1>1, <1>3, <1>8, <1>9, <1>10, <1>11 DEF T

(* A millisecond has passed. *)
LEMMA PassedKeeps ==
  ASSUME NEW clock \in 0 .. Word - 1, NEW late \in 0 .. 2 * MaxRound - 1,
         NEW list, ListInv(list, clock, late),
         NEW L, L = [i \in DOMAIN list |-> [list[i] EXCEPT !.left = @ - 1]]
  PROVE  /\ ListInv(L, (clock + 1) % Word, late + 1)
         /\ \A u : Holds(L, u) <=> Holds(list, u)
<1> DEFINE n == Len(list)
           c == (clock + 1) % Word
<1>1. /\ n \in Nat /\ list \in Seq(Entry) /\ DOMAIN list = 1 .. n
      /\ \A i \in 1 .. n : list[i] \in Entry /\ EntryHolds(list[i], clock, late)
  BY LenProperties, ElementOfSeq DEF ListInv
<1>2. \A i \in 1 .. n : /\ L[i].timer = list[i].timer /\ L[i].time = list[i].time
                       /\ L[i].left = list[i].left - 1 /\ L[i] \in Entry
                       /\ EntryHolds(L[i], c, late + 1)
  <2> SUFFICES ASSUME NEW i \in 1 .. n
               PROVE  /\ L[i].timer = list[i].timer /\ L[i].time = list[i].time
                      /\ L[i].left = list[i].left - 1 /\ L[i] \in Entry
                      /\ EntryHolds(L[i], c, late + 1)
    OBVIOUS
  <2>1. L[i] = [list[i] EXCEPT !.left = list[i].left - 1]
    BY <1>1
  <2>2. /\ list[i] \in Entry /\ EntryHolds(list[i], clock, late)
    BY <1>1
  <2> HIDE DEF n
  <2>3. /\ L[i].timer = list[i].timer /\ L[i].time = list[i].time
        /\ L[i].left = list[i].left - 1
    BY <2>1, <2>2 DEF Entry
  <2> DEFINE a == list[i].left
             w == Interval[list[i].timer]
  <2>4. /\ a \in Int /\ w \in Int /\ w + 2 * MaxRound < HalfTurn /\ a + late > 0 /\ a <= w
        /\ Turned(list[i].time, clock + a) /\ list[i].time \in Int
    BY <2>2, EntryIs DEF EntryHolds
  <2>5. clock \in Int /\ late \in Int /\ late + 1 <= 2 * MaxRound
    BY TimersNumbers
  <2>6. L[i] \in Entry
    <3>1. a - 1 \in Timers!Lefts
      <4> HIDE DEF a, w
      <4> QED BY <2>4, <2>5, TimersNumbers DEF Timers!Lefts
    <3> QED BY <2>1, <2>2, <3>1 DEF Entry
  <2>7. Turned(list[i].time, c + (a - 1))
    <3>1. PICK k \in Int : list[i].time = clock + a + k * Word
      BY <2>4 DEF Turned
    <3>2. Turned(c, clock + 1)
      BY <2>5, TurnedModulo
    <3>3. PICK j \in Int : c = clock + 1 + j * Word
      BY <3>2 DEF Turned
    <3>4. c \in Int
      BY <2>5, TurnedModulo
    <3> HIDE DEF a, c
    <3>5. list[i].time = c + (a - 1) + (k - j) * Word /\ k - j \in Int
      BY <2>4, <2>5, <3>1, <3>3, <3>4, TimersNumbers
    <3> QED BY <3>5 DEF Turned
  <2>8. (a - 1) + (late + 1) > 0 /\ a - 1 <= w
    <3> HIDE DEF a, w
    <3> QED BY <2>4, <2>5
  <2> QED BY <2>3, <2>6, <2>7, <2>8 DEF EntryHolds
<1> HIDE DEF n, c
<1>3. L \in [1 .. n -> Entry]
  BY <1>1, <1>2
<1>4. L \in Seq(Entry) /\ Len(L) = n
  BY <1>1, <1>3
<1>5. Sorted(L)
  <2> SUFFICES ASSUME NEW i \in 1 .. n, NEW j \in 1 .. n, i < j
               PROVE  L[i].left <= L[j].left
    BY <1>4 DEF Sorted
  <2>1. list[i].left <= list[j].left /\ list[i].left \in Int /\ list[j].left \in Int
    <3>1. list[i] \in Entry /\ list[j] \in Entry
      BY <1>1
    <3>2. list[i].left \in Int /\ list[j].left \in Int
      BY <3>1, EntryIs
    <3>3. list[i].left <= list[j].left
      BY DEF ListInv, Sorted, n
    <3> QED BY <3>2, <3>3
  <2>2. L[i].left = list[i].left - 1 /\ L[j].left = list[j].left - 1
    BY <1>2
  <2> QED BY <2>1, <2>2
<1>6. Distinct(L)
  BY <1>2, <1>4 DEF ListInv, Distinct, n
<1>7. \A u : Holds(L, u) <=> Holds(list, u)
  BY <1>2, <1>4 DEF Holds, n
<1>8. ListInv(L, c, late + 1)
  BY <1>2, <1>4, <1>5, <1>6 DEF ListInv
<1> QED BY <1>7, <1>8 DEF c

-----------------------------------------------------------------------------
(* How late an entry may be: the rest of this round is behind it, and until *)
(* the list has been looked at, the round before.                           *)
Late == round + (IF pc = "link" THEN 0 ELSE MaxRound)

(* The timer whose handler runs is out of the list, and TCP's unless wanted. *)
TimersThere ==
  /\ \A t \in Handlers : Holds(timeouts, t) <=> t # pc /\ (t = "tcp" => tcpActive)
  /\ pcbs => tcpActive
  /\ pc = "tcp" => tcpActive

(* While a handler runs: when it was due, and that it was due. *)
DueKnown ==
  pc \in Handlers =>
    Turned(due, now + dueLeft) /\ dueLeft <= 0 /\ dueLeft + round + MaxRound > 0

(* EthernetLinkTimer is where the link was last looked at. *)
LinkKnown == Turned(linkTimer, now - linkAge) /\ linkAge < LinkPeriod + round

(* The time sys_check_timeouts has read is no older than the round. *)
CheckKnown == pc \in Handlers \cup {"check"} => \E a \in 0 .. round : Turned(checkNow, now - a)

(* The inductive invariant of the timers. *)
TimersInd ==
  /\ Timers!TypeOK
  /\ ListInv(timeouts, now, Late)
  /\ TimersThere /\ DueKnown /\ LinkKnown /\ CheckKnown

LEMMA TimersTypes ==
  ASSUME Timers!TypeOK
  PROVE  /\ now \in 0 .. Word - 1 /\ checkNow \in 0 .. Word - 1 /\ due \in 0 .. Word - 1
         /\ linkTimer \in 0 .. Word - 1 /\ now \in Int /\ checkNow \in Int /\ due \in Int
         /\ linkTimer \in Int /\ linkAge \in Nat /\ round \in 0 .. MaxRound /\ round \in Nat
         /\ dueLeft \in Int
         /\ pc \in Handlers \cup {"input", "check", "link"}
         /\ pcbs \in BOOLEAN /\ tcpActive \in BOOLEAN
         /\ Late \in 0 .. 2 * MaxRound
<1>1. /\ now \in 0 .. Word - 1 /\ checkNow \in 0 .. Word - 1 /\ due \in 0 .. Word - 1
      /\ linkTimer \in 0 .. Word - 1 /\ linkAge \in Nat /\ round \in 0 .. MaxRound
      /\ dueLeft \in Timers!Lefts
      /\ pc \in Handlers \cup {"input", "check", "link"}
  BY DEF Timers!TypeOK, Handlers
<1>2. pcbs \in BOOLEAN /\ tcpActive \in BOOLEAN
  BY DEF Timers!TypeOK
<1>3. dueLeft \in Int
  BY <1>1 DEF Timers!Lefts
<1>4. Late \in 0 .. 2 * MaxRound
  BY <1>1, TimersNumbers DEF Late
<1> QED BY <1>1, <1>2, <1>3, <1>4, TimersNumbers

-----------------------------------------------------------------------------
LEMMA TimersElapse == ASSUME TimersInd, Timers!Elapse PROVE TimersInd'
<1>1. /\ round < MaxRound /\ now' = (now + 1) % Word
      /\ timeouts' = [i \in DOMAIN timeouts |-> [timeouts[i] EXCEPT !.left = @ - 1]]
      /\ dueLeft' = IF pc \in Handlers THEN dueLeft - 1 ELSE dueLeft
      /\ linkAge' = linkAge + 1 /\ round' = round + 1
      /\ UNCHANGED <<pcbs, tcpActive, pc, checkNow, due, linkTimer>>
  BY DEF Timers!Elapse, Handlers
<1>2. /\ now \in 0 .. Word - 1 /\ checkNow \in Int /\ due \in Int /\ now \in Int
      /\ linkTimer \in Int /\ linkAge \in Nat /\ round \in Nat
      /\ dueLeft \in Int /\ Late \in 0 .. 2 * MaxRound
      /\ ListInv(timeouts, now, Late)
  BY TimersTypes DEF TimersInd
<1>3. Late' = Late + 1 /\ Late \in 0 .. 2 * MaxRound - 1
  BY <1>1, <1>2, TimersNumbers DEF Late
<1>4. ListInv(timeouts', now', Late') /\ \A u : Holds(timeouts', u) <=> Holds(timeouts, u)
  BY <1>1, <1>2, <1>3, PassedKeeps
<1>5. now' \in 0 .. Word - 1 /\ now' \in Int /\ Turned(now', now + 1)
  BY <1>1, <1>2, TurnedModulo
<1>6. PICK j \in Int : now' = now + 1 + j * Word
  BY <1>5 DEF Turned
<1>7. ASSUME NEW x \in Int, NEW a \in Int, Turned(x, now + a) PROVE Turned(x, now' + (a - 1))
  <2>1. PICK k \in Int : x = now + a + k * Word
    BY <1>7 DEF Turned
  <2>2. x = now' + (a - 1) + (k - j) * Word /\ k - j \in Int
    BY <1>2, <1>5, <1>6, <1>7, <2>1, TimersNumbers
  <2> QED BY <2>2 DEF Turned
<1>8. DueKnown'
  <2>1. CASE pc \in Handlers
    <3>1. Turned(due, now + dueLeft) /\ dueLeft <= 0 /\ dueLeft + round + MaxRound > 0
      BY <2>1 DEF TimersInd, DueKnown
    <3>2. Turned(due, now' + (dueLeft - 1))
      BY <1>2, <1>7, <3>1
    <3> QED BY <1>1, <1>2, <2>1, <3>1, <3>2, TimersNumbers DEF DueKnown
  <2> QED BY <1>1, <2>1 DEF DueKnown
<1>9. LinkKnown'
  <2>1. Turned(linkTimer, now + (-linkAge)) /\ linkAge < LinkPeriod + round
    <3>1. now + (-linkAge) = now - linkAge
      BY <1>2
    <3> QED BY <3>1 DEF TimersInd, LinkKnown
  <2>2. Turned(linkTimer, now' + (-linkAge - 1))
    BY <1>2, <1>7, <2>1
  <2>3. now' + (-linkAge - 1) = now' - linkAge'
    BY <1>1, <1>2, <1>5
  <2>4. linkAge' < LinkPeriod + round'
    BY <1>1, <1>2, <2>1, TimersNumbers
  <2> QED BY <1>1, <2>2, <2>3, <2>4 DEF LinkKnown
<1>10. CheckKnown'
  <2> SUFFICES ASSUME pc \in Handlers \cup {"check"} PROVE \E a \in 0 .. round' : Turned(checkNow, now' - a)
    BY <1>1 DEF CheckKnown
  <2>1. PICK a \in 0 .. round : Turned(checkNow, now - a)
    BY DEF TimersInd, CheckKnown
  <2>2. now - a = now + (-a) /\ now' + (-a - 1) = now' - (a + 1) /\ a + 1 \in 0 .. round'
    BY <1>1, <1>2, <1>5
  <2>3. Turned(checkNow, now' + (-a - 1))
    BY <1>2, <1>7, <2>1, <2>2
  <2> QED BY <2>2, <2>3
<1>11. TimersThere'
  BY <1>1, <1>4 DEF TimersThere, TimersInd
<1>12. Timers!TypeOK'
  <2>1. dueLeft' \in Timers!Lefts
    <3>1. CASE pc \in Handlers
      BY <1>1, <1>2, <1>8, <3>1, TimersTypes, TimersNumbers DEF DueKnown, Timers!Lefts
    <3>2. CASE pc \notin Handlers
      BY <1>1, <3>2 DEF TimersInd, Timers!TypeOK
    <3> QED BY <3>1, <3>2
  <2>2. timeouts' \in Seq(Entry)
    BY <1>4 DEF ListInv
  <2>3. round' \in 0 .. MaxRound /\ linkAge' \in Nat
    BY <1>1, <1>2, TimersNumbers
  <2> QED BY <1>1, <1>5, <2>1, <2>2, <2>3 DEF TimersInd, Timers!TypeOK, Entry, Handlers
<1> QED BY <1>4, <1>8, <1>9, <1>10, <1>11, <1>12 DEF TimersInd

(* sys_timeout: from now, a whole interval. *)
LEMMA AfterKeeps ==
  ASSUME TimersInd, NEW t \in Handlers, ~Holds(timeouts, t)
  PROVE  LET L == Timers!After(timeouts, t)
         IN  /\ ListInv(L, now, Late)
             /\ \A u : Holds(L, u) <=> Holds(timeouts, u) \/ u = t
             /\ \E i \in 1 .. Len(L) : L[i].timer = t /\ L[i].left = Interval[t]
<1> DEFINE time == (now + Interval[t]) % Word
<1>1. now \in Int /\ Late \in 0 .. 2 * MaxRound /\ ListInv(timeouts, now, Late)
  BY TimersTypes DEF TimersInd
<1>2. Interval[t] \in Int /\ Interval[t] > 0
  BY TimersNumbers
<1>3. time \in 0 .. Word - 1 /\ Turned(time, now + Interval[t])
  BY <1>1, <1>2, TurnedModulo
<1> HIDE DEF time
<1>4. EntryHolds([timer |-> t, time |-> time, left |-> Interval[t]], now, Late)
  BY <1>1, <1>2, <1>3, TimersNumbers DEF EntryHolds
<1>5. Timers!After(timeouts, t) = Timers!Entered(timeouts, t, time, Interval[t])
  BY DEF Timers!After, time
<1> QED BY <1>1, <1>2, <1>3, <1>4, <1>5, EnteredKeeps

LEMMA TimersInput == ASSUME TimersInd, Timers!EthernetInput PROVE TimersInd'
<1>1. /\ pc = "input" /\ pcbs' \in BOOLEAN /\ pc' = "check" /\ checkNow' = now
      /\ tcpActive' = (tcpActive \/ (pcbs' /\ ~tcpActive))
      /\ timeouts' = IF pcbs' /\ ~tcpActive THEN Timers!After(timeouts, "tcp") ELSE timeouts
      /\ UNCHANGED <<now, due, dueLeft, linkTimer, linkAge, round>>
  BY DEF Timers!EthernetInput, Timers!Needed
<1>2. /\ now \in 0 .. Word - 1 /\ now \in Int /\ round \in Nat /\ tcpActive \in BOOLEAN
      /\ ListInv(timeouts, now, Late)
  BY TimersTypes DEF TimersInd
<1>3. Late' = Late
  BY <1>1 DEF Late
<1>4. "check" \notin Handlers /\ "input" \notin Handlers /\ "tcp" \in Handlers /\ "check" # "tcp"
  BY TimersNames
<1>5. \A t \in Handlers : Holds(timeouts, t) <=> (t = "tcp" => tcpActive)
  BY <1>1, <1>4 DEF TimersInd, TimersThere
<1>6. /\ ListInv(timeouts', now', Late')
      /\ \A t \in Handlers : Holds(timeouts', t) <=> (t = "tcp" => tcpActive')
  <2>1. CASE pcbs' /\ ~tcpActive
    <3>1. timeouts' = Timers!After(timeouts, "tcp") /\ tcpActive'
      BY <1>1, <2>1
    <3>2. ~Holds(timeouts, "tcp")
      BY <1>4, <1>5, <2>1
    <3>3. /\ ListInv(timeouts', now, Late)
          /\ \A u : Holds(timeouts', u) <=> Holds(timeouts, u) \/ u = "tcp"
      BY <1>4, <3>1, <3>2, AfterKeeps
    <3> QED BY <1>1, <1>3, <1>5, <3>1, <3>3
  <2>2. CASE ~(pcbs' /\ ~tcpActive)
    <3>1. timeouts' = timeouts /\ (tcpActive' <=> tcpActive)
      BY <1>1, <1>2, <2>2
    <3> QED BY <1>1, <1>2, <1>3, <1>5, <3>1
  <2> QED BY <2>1, <2>2
<1>7. TimersThere'
  <2>1. pcbs' => tcpActive'
    BY <1>1
  <2> QED BY <1>1, <1>4, <1>6, <2>1 DEF TimersThere
<1>8. DueKnown'
  BY <1>1, <1>4 DEF DueKnown
<1>9. LinkKnown'
  BY <1>1 DEF LinkKnown, TimersInd
<1>10. CheckKnown'
  <2>1. now = now - 0 + 0 * Word
    BY <1>2, TimersNumbers
  <2>2. Turned(now, now - 0) /\ 0 \in 0 .. round
    BY <1>2, <2>1 DEF Turned
  <2> QED BY <1>1, <2>2 DEF CheckKnown
<1>11. Timers!TypeOK'
  <2>1. timeouts' \in Seq(Entry)
    BY <1>6 DEF ListInv
  <2>2. tcpActive' \in BOOLEAN
    BY <1>1, <1>2
  <2> QED BY <1>1, <1>2, <2>1, <2>2 DEF TimersInd, Timers!TypeOK, Entry, Handlers
<1> QED BY <1>6, <1>7, <1>8, <1>9, <1>10, <1>11 DEF TimersInd

(* The head has expired just when its true time has come, as checkNow saw it. *)
LEMMA ExpiredIs ==
  ASSUME TimersInd, pc = "check", timeouts # <<>>
  PROVE  \E a \in 0 .. round : Timers!Expired <=> Head(timeouts).left <= -a
<1>1. /\ now \in Int /\ checkNow \in Int /\ round \in 0 .. MaxRound /\ Late \in 0 .. 2 * MaxRound
      /\ ListInv(timeouts, now, Late)
  BY TimersTypes DEF TimersInd
<1>2. Head(timeouts) \in Entry /\ EntryHolds(Head(timeouts), now, Late)
  BY <1>1, TailKeeps
<1> DEFINE h == Head(timeouts)
           l == h.left
           w == Interval[h.timer]
<1>3. /\ h.time \in Int /\ l \in Int /\ w \in Int /\ w + 2 * MaxRound < HalfTurn
      /\ Turned(h.time, now + l) /\ l + Late > 0 /\ l <= w
  BY <1>2, EntryIs DEF EntryHolds
<1>4. PICK a \in 0 .. round : Turned(checkNow, now - a)
  BY DEF TimersInd, CheckKnown
<1>5. Late = round + MaxRound
  BY DEF Late
<1> HIDE DEF l, w
<1> DEFINE x == now - a
           y == now + l
<1>6. x \in Int /\ y \in Int /\ -HalfTurn < x - y /\ x - y < HalfTurn /\ (x < y <=> ~(l <= -a))
  <2>1. x \in Int /\ y \in Int /\ x - y = (-a) - l /\ (x < y <=> ~(l <= -a))
    BY <1>1, <1>3
  <2>2. -HalfTurn < (-a) - l
    BY <1>1, <1>3, TimersNumbers
  <2>3. (-a) - l < HalfTurn
    BY <1>1, <1>3, <1>5, TimersNumbers
  <2> QED BY <2>1, <2>2, <2>3
<1>7. Turned(checkNow, x) /\ Turned(h.time, y)
  BY <1>3, <1>4
<1> HIDE DEF x, y
<1>8. Timers!LessThan(checkNow, h.time) <=> x < y
  BY <1>1, <1>3, <1>6, <1>7, Comparison
<1>9. Timers!Expired <=> ~Timers!LessThan(checkNow, h.time)
  BY DEF Timers!Expired
<1> QED BY <1>4, <1>6, <1>8, <1>9 DEF l

LEMMA TimersFire == ASSUME TimersInd, Timers!Fire PROVE TimersInd'
<1> DEFINE h == Head(timeouts)
<1>1. /\ pc = "check" /\ Timers!Expired /\ timeouts # <<>> /\ timeouts' = Tail(timeouts)
      /\ due' = h.time /\ dueLeft' = h.left /\ pc' = h.timer
      /\ UNCHANGED <<now, pcbs, tcpActive, checkNow, linkTimer, linkAge, round>>
  BY DEF Timers!Fire, Timers!Expired
<1>2. /\ now \in Int /\ round \in 0 .. MaxRound /\ tcpActive \in BOOLEAN
      /\ ListInv(timeouts, now, Late)
  BY TimersTypes DEF TimersInd
<1>3. "check" \notin Handlers /\ "link" \notin Handlers
  BY TimersNames
<1>4. /\ ListInv(timeouts', now, Late)
      /\ h \in Entry /\ EntryHolds(h, now, Late) /\ Holds(timeouts, h.timer)
      /\ \A u : Holds(timeouts', u) <=> Holds(timeouts, u) /\ u # h.timer
  BY <1>1, <1>2, TailKeeps
<1> HIDE DEF h
<1>5. /\ h.timer \in Handlers /\ h.time \in 0 .. Word - 1 /\ h.left \in Int /\ h.left \in Timers!Lefts
  BY <1>4 DEF Entry, Timers!Lefts
<1>6. Late' = Late /\ Late = round + MaxRound
  BY <1>1, <1>3, <1>5 DEF Late
<1>7. h.left <= 0
  <2>1. PICK a \in 0 .. round : Timers!Expired <=> h.left <= -a
    BY <1>1, ExpiredIs DEF h
  <2> QED BY <1>1, <1>2, <1>5, <2>1
<1>8. TimersThere'
  <2>1. \A t \in Handlers : Holds(timeouts, t) <=> (t = "tcp" => tcpActive)
    BY <1>1, <1>3 DEF TimersInd, TimersThere
  <2>2. pcbs => tcpActive
    BY DEF TimersInd, TimersThere
  <2>3. h.timer = "tcp" => tcpActive
    BY <1>4, <1>5, <2>1
  <2>4. \A t \in Handlers : Holds(timeouts', t) <=> t # h.timer /\ (t = "tcp" => tcpActive)
    BY <1>4, <2>1
  <2> QED BY <1>1, <2>2, <2>3, <2>4 DEF TimersThere
<1>9. DueKnown'
  <2>1. Turned(h.time, now + h.left) /\ h.left + round + MaxRound > 0
    BY <1>2, <1>4, <1>5, <1>6, TimersNumbers DEF EntryHolds
  <2> QED BY <1>1, <1>7, <2>1 DEF DueKnown
<1>10. LinkKnown'
  BY <1>1 DEF LinkKnown, TimersInd
<1>11. CheckKnown'
  BY <1>1 DEF CheckKnown, TimersInd
<1>12. Timers!TypeOK'
  <2>1. timeouts' \in Seq(Entry)
    BY <1>4 DEF ListInv
  <2> QED BY <1>1, <1>5, <2>1 DEF TimersInd, Timers!TypeOK, Entry, Handlers
<1> QED BY <1>1, <1>4, <1>6, <1>8, <1>9, <1>10, <1>11, <1>12 DEF TimersInd

LEMMA TimersCheckEnd == ASSUME TimersInd, Timers!CheckEnd PROVE TimersInd'
<1>1. /\ pc = "check" /\ ~Timers!Expired /\ pc' = "link" /\ checkNow' = 0
      /\ UNCHANGED <<now, timeouts, pcbs, tcpActive, due, dueLeft, linkTimer, linkAge, round>>
  BY DEF Timers!CheckEnd
<1>2. /\ round \in 0 .. MaxRound /\ ListInv(timeouts, now, Late) /\ timeouts \in Seq(Entry)
  BY TimersTypes DEF TimersInd, ListInv
<1>3. "check" \notin Handlers /\ "link" \notin Handlers /\ 0 \in 0 .. Word - 1
  BY TimersNames, TimersNumbers
<1>4. Late' = round
  BY <1>1, <1>2 DEF Late
<1>5. \A i \in 1 .. Len(timeouts) : timeouts[i].left + round > 0
  <2> SUFFICES ASSUME NEW i \in 1 .. Len(timeouts) PROVE timeouts[i].left + round > 0
    OBVIOUS
  <2>1. timeouts # <<>> /\ Len(timeouts) \in Nat /\ 1 \in 1 .. Len(timeouts)
    BY <1>2, LenProperties
  <2>2. Head(timeouts) = timeouts[1]
    BY <1>2, <2>1
  <2>3. PICK a \in 0 .. round : Timers!Expired <=> Head(timeouts).left <= -a
    BY <1>1, <2>1, ExpiredIs
  <2>4. timeouts[1] \in Entry /\ timeouts[i] \in Entry
    BY <1>2, <2>1, ElementOfSeq
  <2>5. timeouts[1].left \in Int /\ timeouts[i].left \in Int
    BY <2>4, EntryIs
  <2>6. timeouts[1].left <= timeouts[i].left
    <3>1. 1 < i => timeouts[1].left <= timeouts[i].left
      BY <1>2, <2>1 DEF ListInv, Sorted
    <3> QED BY <2>1, <2>5, <3>1
  <2> QED BY <1>1, <1>2, <2>2, <2>3, <2>5, <2>6
<1>6. ListInv(timeouts', now', Late')
  BY <1>1, <1>2, <1>4, <1>5 DEF ListInv, EntryHolds
<1>7. TimersThere'
  BY <1>1, <1>3 DEF TimersInd, TimersThere
<1>8. DueKnown' /\ CheckKnown'
  BY <1>1, <1>3 DEF DueKnown, CheckKnown
<1>9. LinkKnown'
  BY <1>1 DEF LinkKnown, TimersInd
<1>10. Timers!TypeOK'
  BY <1>1, <1>3 DEF TimersInd, Timers!TypeOK
<1> QED BY <1>6, <1>7, <1>8, <1>9, <1>10 DEF TimersInd

LEMMA LinkDueIs == ASSUME TimersInd PROVE Timers!LinkDue <=> linkAge >= LinkPeriod
<1>1. /\ now \in Int /\ linkTimer \in Int /\ linkAge \in Nat /\ round \in 0 .. MaxRound
      /\ Turned(linkTimer, now - linkAge) /\ linkAge < LinkPeriod + round
  BY TimersTypes DEF TimersInd, LinkKnown
<1>2. now = now + 0 * Word
  BY <1>1, TimersNumbers
<1>3. Turned(now, now)
  BY <1>2 DEF Turned
<1>4. now - linkAge \in Int /\ now - (now - linkAge) = linkAge /\ linkAge \in 0 .. Word - 1
  BY <1>1, TimersNumbers
<1>5. (now - linkTimer) % Word = now - (now - linkAge)
  BY <1>1, <1>3, <1>4, TurnedBack
<1> QED BY <1>4, <1>5 DEF Timers!LinkDue

LEMMA TimersLink ==
  ASSUME TimersInd, Timers!CheckLink
  PROVE  TimersInd' /\ (linkAge' < linkAge => linkAge >= LinkPeriod)
<1>1. /\ pc = "link" /\ pc' = "input" /\ round' = 0
      /\ UNCHANGED <<now, timeouts, pcbs, tcpActive, checkNow, due, dueLeft>>
  BY DEF Timers!CheckLink
<1>2. \/ Timers!LinkDue /\ linkTimer' = now /\ linkAge' = 0
      \/ ~Timers!LinkDue /\ linkTimer' = linkTimer /\ linkAge' = linkAge
  BY DEF Timers!CheckLink
<1>3. /\ now \in Int /\ now \in 0 .. Word - 1 /\ linkTimer \in 0 .. Word - 1 /\ linkAge \in Nat
      /\ round \in 0 .. MaxRound /\ ListInv(timeouts, now, Late) /\ timeouts \in Seq(Entry)
  BY TimersTypes DEF TimersInd, ListInv
<1>4. "input" \notin Handlers /\ "link" \notin Handlers
  BY TimersNames
<1>5. Late = round /\ Late' = MaxRound
  BY <1>1, <1>3, TimersNumbers DEF Late
<1>6. ListInv(timeouts', now', Late')
  <2>1. \A i \in 1 .. Len(timeouts) : EntryHolds(timeouts[i], now, MaxRound)
    <3> SUFFICES ASSUME NEW i \in 1 .. Len(timeouts) PROVE EntryHolds(timeouts[i], now, MaxRound)
      OBVIOUS
    <3>1. EntryHolds(timeouts[i], now, round) /\ timeouts[i] \in Entry
      BY <1>3, <1>5, ElementOfSeq DEF ListInv
    <3>2. timeouts[i].left \in Int
      BY <3>1, EntryIs
    <3> QED BY <1>3, <3>1, <3>2, TimersNumbers DEF EntryHolds
  <2> QED BY <1>1, <1>3, <1>5, <2>1 DEF ListInv
<1>7. TimersThere'
  BY <1>1, <1>4 DEF TimersInd, TimersThere
<1>8. DueKnown' /\ CheckKnown'
  BY <1>1, <1>4 DEF DueKnown, CheckKnown
<1>9. LinkKnown' /\ linkTimer' \in 0 .. Word - 1 /\ linkAge' \in Nat
  <2>1. CASE Timers!LinkDue
    <3>1. now = now - 0 + 0 * Word
      BY <1>3, TimersNumbers
    <3>2. Turned(now, now - 0)
      BY <3>1 DEF Turned
    <3> QED BY <1>1, <1>2, <1>3, <2>1, <3>2, TimersNumbers DEF LinkKnown
  <2>2. CASE ~Timers!LinkDue
    <3>1. linkAge < LinkPeriod
      BY <1>3, <2>2, LinkDueIs, TimersNumbers
    <3>2. Turned(linkTimer, now - linkAge)
      BY DEF TimersInd, LinkKnown
    <3> QED BY <1>1, <1>2, <1>3, <2>2, <3>1, <3>2, TimersNumbers DEF LinkKnown
  <2> QED BY <2>1, <2>2
<1>10. Timers!TypeOK'
  BY <1>1, <1>9, TimersNumbers DEF TimersInd, Timers!TypeOK
<1>11. linkAge' < linkAge => linkAge >= LinkPeriod
  BY <1>2, <1>3, LinkDueIs
<1> QED BY <1>6, <1>7, <1>8, <1>9, <1>10, <1>11 DEF TimersInd

(* What changes when a handler has returned and the list is known. *)
LEMMA TimersReturn ==
  ASSUME TimersInd, pc \in Handlers,
         pc' = "check", due' = 0, dueLeft' = 0,
         UNCHANGED <<now, checkNow, linkTimer, linkAge, round>>,
         ListInv(timeouts', now, Late),
         tcpActive' \in BOOLEAN, pcbs' \in BOOLEAN, pcbs' => tcpActive',
         \A t \in Handlers : Holds(timeouts', t) <=> (t = "tcp" => tcpActive')
  PROVE  TimersInd'
<1>1. "check" \notin Handlers /\ "link" \notin Handlers /\ "tcp" # "check"
  BY TimersNames
<1>2. Late' = Late
  BY <1>1 DEF Late
<1>3. TimersThere'
  BY <1>1 DEF TimersThere
<1>4. DueKnown'
  BY <1>1 DEF DueKnown
<1>5. LinkKnown' /\ CheckKnown'
  BY DEF LinkKnown, CheckKnown, TimersInd
<1>6. Timers!TypeOK'
  <2>1. timeouts' \in Seq(Entry)
    BY DEF ListInv
  <2>2. 0 \in 0 .. Word - 1 /\ 0 \in Timers!Lefts
    BY TimersNumbers DEF Timers!Lefts
  <2> QED BY <2>1, <2>2 DEF TimersInd, Timers!TypeOK, Entry, Handlers
<1> QED BY <1>2, <1>3, <1>4, <1>5, <1>6 DEF TimersInd

LEMMA OverloadIs ==
  ASSUME TimersInd, pc \in Handlers
  PROVE  /\ Timers!Overload(pc) <=> dueLeft + Interval[pc] < 0
         /\ (due + Interval[pc]) % Word \in 0 .. Word - 1
         /\ Turned((due + Interval[pc]) % Word, now + (dueLeft + Interval[pc]))
<1> DEFINE w == Interval[pc]
           x == (due + w) % Word
<1>1. /\ now \in Int /\ due \in Int /\ dueLeft \in Int /\ round \in 0 .. MaxRound
      /\ Turned(due, now + dueLeft) /\ dueLeft <= 0 /\ dueLeft + round + MaxRound > 0
      /\ w \in Int /\ w > 0 /\ w + 2 * MaxRound < HalfTurn
  BY TimersTypes, TimersNumbers DEF TimersInd, DueKnown
<1> HIDE DEF w
<1>2. now + dueLeft \in Int /\ now + (dueLeft + w) = (now + dueLeft) + w
  BY <1>1
<1>3. x \in 0 .. Word - 1 /\ Turned(x, (now + dueLeft) + w)
  BY <1>1, <1>2, TurnedSum
<1>4. x \in Int
  BY <1>3, TimersNumbers
<1> HIDE DEF x
<1>5. now = now + 0 * Word
  BY <1>1, TimersNumbers
<1>6. Turned(now, now)
  BY <1>5 DEF Turned
<1> DEFINE a == now + (dueLeft + w)
<1>7. a \in Int /\ -HalfTurn < a - now /\ a - now < HalfTurn /\ (a < now <=> dueLeft + w < 0)
  <2>1. a \in Int /\ a - now = dueLeft + w /\ (a < now <=> dueLeft + w < 0)
    BY <1>1
  <2>2. -HalfTurn < dueLeft + w /\ dueLeft + w < HalfTurn
    BY <1>1, TimersNumbers
  <2> QED BY <2>1, <2>2
<1>8. Turned(x, a)
  BY <1>2, <1>3
<1> HIDE DEF a
<1>9. Timers!LessThan(x, now) <=> a < now
  BY <1>1, <1>4, <1>6, <1>7, <1>8, Comparison
<1>10. Timers!Overload(pc) <=> Timers!LessThan(x, now)
  BY DEF Timers!Overload, x, w
<1> QED BY <1>3, <1>7, <1>8, <1>9, <1>10 DEF x, w, a

LEMMA TimersCyclic ==
  ASSUME TimersInd, Timers!CyclicTimer
  PROVE  /\ TimersInd'
         /\ \E i \in 1 .. Len(timeouts') :
              /\ timeouts'[i].timer = pc
              /\ timeouts'[i].left = IF dueLeft + Interval[pc] >= 0
                                       THEN dueLeft + Interval[pc] ELSE Interval[pc]
<1> DEFINE w == Interval[pc]
           time == (due + w) % Word
<1>1. /\ pc \in Cyclic /\ pc' = "check" /\ due' = 0 /\ dueLeft' = 0
      /\ timeouts' = IF Timers!Overload(pc) THEN Timers!After(timeouts, pc)
                     ELSE Timers!Entered(timeouts, pc, time, dueLeft + w)
      /\ UNCHANGED <<now, pcbs, tcpActive, checkNow, linkTimer, linkAge, round>>
  BY DEF Timers!CyclicTimer
<1>2. /\ now \in Int /\ dueLeft \in Int /\ round \in 0 .. MaxRound /\ Late \in 0 .. 2 * MaxRound
      /\ tcpActive \in BOOLEAN /\ pcbs \in BOOLEAN /\ ListInv(timeouts, now, Late)
  BY TimersTypes DEF TimersInd
<1>3. pc \in Handlers /\ pc # "tcp" /\ pc # "link"
  BY <1>1, TimersNames
<1>4. /\ \A t \in Handlers : Holds(timeouts, t) <=> t # pc /\ (t = "tcp" => tcpActive)
      /\ pcbs => tcpActive
  BY DEF TimersInd, TimersThere
<1>5. ~Holds(timeouts, pc)
  BY <1>3, <1>4
<1>6. Timers!Overload(pc) <=> dueLeft + w < 0
  BY <1>3, OverloadIs
<1>7. w \in Int /\ w > 0
  BY <1>3, TimersNumbers
<1>8. /\ ListInv(timeouts', now, Late)
      /\ \A u : Holds(timeouts', u) <=> Holds(timeouts, u) \/ u = pc
      /\ \E i \in 1 .. Len(timeouts') :
           /\ timeouts'[i].timer = pc
           /\ timeouts'[i].left = IF dueLeft + w >= 0 THEN dueLeft + w ELSE w
  <2>1. CASE dueLeft + w < 0
    <3>1. timeouts' = Timers!After(timeouts, pc)
      BY <1>1, <1>6, <2>1
    <3>2. /\ ListInv(timeouts', now, Late)
          /\ \A u : Holds(timeouts', u) <=> Holds(timeouts, u) \/ u = pc
          /\ \E i \in 1 .. Len(timeouts') : timeouts'[i].timer = pc /\ timeouts'[i].left = w
      BY <1>3, <1>5, <3>1, AfterKeeps
    <3>3. w = IF dueLeft + w >= 0 THEN dueLeft + w ELSE w
      BY <1>2, <1>7, <2>1
    <3> QED BY <3>2, <3>3
  <2>2. CASE dueLeft + w >= 0
    <3>1. timeouts' = Timers!Entered(timeouts, pc, time, dueLeft + w)
      BY <1>1, <1>2, <1>6, <1>7, <2>2
    <3>2. time \in 0 .. Word - 1 /\ Turned(time, now + (dueLeft + w))
      BY <1>3, OverloadIs
    <3>3. dueLeft <= 0 /\ Late = round + MaxRound /\ dueLeft + round + MaxRound > 0
      BY <1>3 DEF TimersInd, DueKnown, Late
    <3>4. dueLeft + w \in Int /\ dueLeft + w + Late > 0 /\ dueLeft + w <= w
      BY <1>2, <1>7, <3>3, TimersNumbers
    <3> HIDE DEF time
    <3>5. EntryHolds([timer |-> pc, time |-> time, left |-> dueLeft + w], now, Late)
      BY <3>2, <3>4 DEF EntryHolds
    <3>6. /\ ListInv(timeouts', now, Late)
          /\ \A u : Holds(timeouts', u) <=> Holds(timeouts, u) \/ u = pc
          /\ \E i \in 1 .. Len(timeouts') : timeouts'[i].timer = pc /\ timeouts'[i].left = dueLeft + w
      <4> HIDE DEF w
      <4> QED BY <1>2, <1>3, <1>5, <3>1, <3>2, <3>4, <3>5, EnteredKeeps
    <3> QED BY <2>2, <3>6
  <2> QED BY <1>2, <1>7, <2>1, <2>2
<1>9. \A t \in Handlers : Holds(timeouts', t) <=> (t = "tcp" => tcpActive')
  BY <1>1, <1>3, <1>4, <1>8
<1>10. TimersInd'
  BY <1>1, <1>2, <1>3, <1>4, <1>8, <1>9, TimersReturn
<1> QED BY <1>8, <1>10

LEMMA TimersTcp == ASSUME TimersInd, Timers!TcpTimer PROVE TimersInd'
<1>1. /\ pc = "tcp" /\ pcbs' \in {FALSE, pcbs} /\ tcpActive' = pcbs'
      /\ timeouts' = IF pcbs' THEN Timers!After(timeouts, "tcp") ELSE timeouts
      /\ pc' = "check" /\ due' = 0 /\ dueLeft' = 0
      /\ UNCHANGED <<now, checkNow, linkTimer, linkAge, round>>
  BY DEF Timers!TcpTimer
<1>2. pcbs \in BOOLEAN /\ tcpActive \in BOOLEAN /\ ListInv(timeouts, now, Late)
  BY TimersTypes DEF TimersInd
<1>3. pc \in Handlers
  BY <1>1, TimersNames
<1>4. \A t \in Handlers : Holds(timeouts, t) <=> t # "tcp"
  BY <1>1 DEF TimersInd, TimersThere
<1>5. pcbs' \in BOOLEAN
  BY <1>1, <1>2
<1>6. /\ ListInv(timeouts', now, Late)
      /\ \A t \in Handlers : Holds(timeouts', t) <=> (t = "tcp" => tcpActive')
  <2>1. CASE pcbs'
    <3>1. /\ ListInv(timeouts', now, Late)
          /\ \A u : Holds(timeouts', u) <=> Holds(timeouts, u) \/ u = "tcp"
      BY <1>1, <1>3, <1>4, <2>1, AfterKeeps
    <3> QED BY <1>1, <1>4, <2>1, <3>1
  <2>2. CASE ~pcbs'
    BY <1>1, <1>2, <1>4, <2>2
  <2> QED BY <2>1, <2>2
<1> QED BY <1>1, <1>3, <1>5, <1>6, TimersReturn

LEMMA TimersInit == Timers!Init => TimersInd
<1> SUFFICES ASSUME Timers!Init PROVE TimersInd
  OBVIOUS
<1>1. PICK order \in Timers!SetToSeqs(Cyclic) :
        /\ \A i, j \in DOMAIN order : i < j => Interval[order[i]] <= Interval[order[j]]
        /\ timeouts = [i \in DOMAIN order |->
                         [timer |-> order[i], time |-> (now + Interval[order[i]]) % Word,
                          left |-> Interval[order[i]]]]
  BY DEF Timers!Init
<1>2. /\ now \in {0, Word - 1} /\ pcbs = FALSE /\ tcpActive = FALSE
      /\ pc = "input" /\ checkNow = 0 /\ due = 0 /\ dueLeft = 0
      /\ linkTimer = now /\ linkAge = 0 /\ round = 0
  BY DEF Timers!Init
<1> DEFINE n == Cardinality(Cyclic)
<1>3. n \in Nat /\ IsFiniteSet(Cyclic)
  BY TimersNames, FS_CardinalityType
<1>4. /\ order \in [1 .. n -> Cyclic]
      /\ \A i, j \in 1 .. n : i # j => order[i] # order[j]
  BY TimersCardinality DEF Timers!SetToSeqs
<1>5. \A t \in Cyclic : \E i \in 1 .. n : order[i] = t
  <2>1. order \in Injection(1 .. n, Cyclic)
    BY <1>4 DEF Injection, IsInjective
  <2>2. Cardinality(1 .. n) = n
    <3>1. Cardinality(1 .. n) = IF 1 > n THEN 0 ELSE n - 1 + 1
      BY <1>3, FS_Interval
    <3> QED BY <1>3, <3>1
  <2>3. order \in Surjection(1 .. n, Cyclic)
    BY <1>3, <2>1, <2>2, FS_Injection
  <2> QED BY <2>3 DEF Surjection
<1>6. now \in 0 .. Word - 1 /\ now \in Int
  BY <1>2, TimersNumbers
<1> HIDE DEF n
<1>7. \A i \in 1 .. n :
        /\ timeouts[i].timer = order[i] /\ timeouts[i].left = Interval[order[i]]
        /\ order[i] \in Cyclic /\ timeouts[i] \in Entry
        /\ EntryHolds(timeouts[i], now, MaxRound)
  <2> SUFFICES ASSUME NEW i \in 1 .. n
               PROVE  /\ timeouts[i].timer = order[i] /\ timeouts[i].left = Interval[order[i]]
                      /\ order[i] \in Cyclic /\ timeouts[i] \in Entry
                      /\ EntryHolds(timeouts[i], now, MaxRound)
    OBVIOUS
  <2> DEFINE w == Interval[order[i]]
             time == (now + w) % Word
  <2>1. timeouts[i] = [timer |-> order[i], time |-> time, left |-> w]
    BY <1>1, <1>4
  <2>2. order[i] \in Cyclic /\ order[i] \in Handlers
    BY <1>4, TimersNames
  <2>3. w \in Nat /\ w > 0 /\ w + 2 * MaxRound < HalfTurn
    BY <2>2, TimersNumbers
  <2>4. time \in 0 .. Word - 1 /\ Turned(time, now + w)
    BY <1>6, <2>3, TurnedModulo
  <2> HIDE DEF w, time
  <2>5. w \in Timers!Lefts
    BY <2>3, TimersNumbers DEF Timers!Lefts
  <2>6. timeouts[i] \in Entry
    BY <2>1, <2>2, <2>4, <2>5 DEF Entry
  <2>7. EntryHolds(timeouts[i], now, MaxRound)
    <3>1. timeouts[i].time = time /\ timeouts[i].left = w /\ Interval[timeouts[i].timer] = w
      BY <2>1 DEF w
    <3>2. w + MaxRound > 0 /\ w <= w
      BY <2>3, TimersNumbers
    <3> QED BY <2>4, <3>1, <3>2 DEF EntryHolds
  <2> QED BY <2>1, <2>2, <2>6, <2>7 DEF w
<1>8. timeouts \in Seq(Entry) /\ Len(timeouts) = n
  <2>1. DOMAIN timeouts = 1 .. n
    BY <1>1, <1>4
  <2>2. timeouts \in [1 .. n -> Entry]
    BY <1>1, <1>7, <2>1
  <2> QED BY <1>3, <2>2 DEF n
<1>9. ListInv(timeouts, now, MaxRound)
  <2>1. Sorted(timeouts)
    BY <1>1, <1>4, <1>7, <1>8 DEF Sorted
  <2>2. Distinct(timeouts)
    BY <1>4, <1>7, <1>8 DEF Distinct
  <2> QED BY <1>7, <1>8, <2>1, <2>2 DEF ListInv
<1>10. Late = MaxRound
  BY <1>2, TimersNumbers DEF Late
<1>11. TimersThere
  <2>1. \A t \in Handlers : Holds(timeouts, t) <=> t # pc /\ (t = "tcp" => tcpActive)
    <3> SUFFICES ASSUME NEW t \in Handlers PROVE Holds(timeouts, t) <=> t # "tcp"
      BY <1>2, TimersNames
    <3>1. t # "tcp" => t \in Cyclic
      BY TimersNames
    <3>2. "tcp" \notin Cyclic
      BY TimersNames
    <3> QED BY <1>5, <1>7, <1>8, <3>1, <3>2 DEF Holds
  <2> QED BY <1>2, <2>1 DEF TimersThere
<1>12. DueKnown /\ CheckKnown
  BY <1>2, TimersNames DEF DueKnown, CheckKnown
<1>13. LinkKnown
  <2>1. now = now - 0 + 0 * Word
    BY <1>6, TimersNumbers
  <2>2. Turned(now, now - 0)
    BY <2>1 DEF Turned
  <2> QED BY <1>2, <2>2, TimersNumbers DEF LinkKnown
<1>14. Timers!TypeOK
  <2>1. 0 \in 0 .. Word - 1 /\ 0 \in Timers!Lefts /\ 0 \in 0 .. MaxRound /\ 0 \in Nat
    BY TimersNumbers DEF Timers!Lefts
  <2> QED BY <1>2, <1>6, <1>8, <2>1 DEF Timers!TypeOK, Entry, Handlers
<1> QED BY <1>9, <1>10, <1>11, <1>12, <1>13, <1>14 DEF TimersInd

(* KeepsRhythm and the second half of LinkEveryPeriod, as an action. *)
Rhythm ==
  /\ \A t \in Cyclic : pc = t /\ pc' = "check" =>
       \E i \in DOMAIN timeouts' :
         /\ timeouts'[i].timer = t
         /\ timeouts'[i].left = IF dueLeft + Interval[t] >= 0
                                  THEN dueLeft + Interval[t] ELSE Interval[t]
  /\ linkAge' < linkAge => linkAge >= LinkPeriod

LEMMA TimersNext ==
  ASSUME TimersInd, [Timers!Next]_timersVars
  PROVE  TimersInd' /\ Rhythm
<1>1. linkAge \in Nat /\ "check" \notin Handlers /\ Handlers = Cyclic \cup {"tcp"} /\ "tcp" \notin Cyclic
  BY TimersTypes, TimersNames DEF TimersInd
<1>2. CASE UNCHANGED timersVars
  <2>1. TimersInd'
    BY <1>2 DEF timersVars, TimersInd, Timers!TypeOK, TimersThere, DueKnown, LinkKnown, CheckKnown, Late
  <2>2. pc' = pc /\ linkAge' = linkAge
    BY <1>2 DEF timersVars
  <2> QED BY <1>1, <2>1, <2>2 DEF Rhythm
<1>3. CASE Timers!Elapse
  <2>1. pc' = pc /\ linkAge' = linkAge + 1
    BY <1>3 DEF Timers!Elapse
  <2> QED BY <1>1, <1>3, <2>1, TimersElapse DEF Rhythm
<1>4. CASE Timers!EthernetInput
  <2>1. pc = "input" /\ linkAge' = linkAge /\ "input" \notin Cyclic
    BY <1>4, TimersNames DEF Timers!EthernetInput
  <2> QED BY <1>1, <1>4, <2>1, TimersInput DEF Rhythm
<1>5. CASE Timers!Fire
  <2>1. pc = "check" /\ linkAge' = linkAge
    BY <1>5 DEF Timers!Fire
  <2> QED BY <1>1, <1>5, <2>1, TimersFire DEF Rhythm
<1>6. CASE Timers!CyclicTimer
  <2>1. linkAge' = linkAge
    BY <1>6 DEF Timers!CyclicTimer
  <2>2. /\ TimersInd'
        /\ \E i \in 1 .. Len(timeouts') :
             /\ timeouts'[i].timer = pc
             /\ timeouts'[i].left = IF dueLeft + Interval[pc] >= 0
                                      THEN dueLeft + Interval[pc] ELSE Interval[pc]
    BY <1>6, TimersCyclic
  <2>3. DOMAIN timeouts' = 1 .. Len(timeouts')
    BY <2>2, LenProperties DEF TimersInd, ListInv
  <2> QED BY <1>1, <2>1, <2>2, <2>3 DEF Rhythm
<1>7. CASE Timers!TcpTimer
  <2>1. pc = "tcp" /\ linkAge' = linkAge
    BY <1>7 DEF Timers!TcpTimer
  <2> QED BY <1>1, <1>7, <2>1, TimersTcp DEF Rhythm
<1>8. CASE Timers!CheckEnd
  <2>1. pc = "check" /\ linkAge' = linkAge
    BY <1>8 DEF Timers!CheckEnd
  <2> QED BY <1>1, <1>8, <2>1, TimersCheckEnd DEF Rhythm
<1>9. CASE Timers!CheckLink
  <2>1. pc' = "input"
    BY <1>9 DEF Timers!CheckLink
  <2> QED BY <1>1, <1>9, <2>1, TimersLink DEF Rhythm
<1> QED BY <1>2, <1>3, <1>4, <1>5, <1>6, <1>7, <1>8, <1>9 DEF Timers!Next, Timers!Loop

LEMMA TimersCounted ==
  ASSUME TimersInd
  PROVE  /\ Timers!SortedByTrueTime /\ Timers!NeverEarly /\ Timers!EachTimerOnce
         /\ linkAge < LinkPeriod + MaxRound
<1>1. /\ timeouts \in Seq(Entry) /\ Len(timeouts) \in Nat /\ DOMAIN timeouts = 1 .. Len(timeouts)
      /\ tcpActive \in BOOLEAN
  BY TimersTypes, LenProperties DEF TimersInd, ListInv
<1>2. Timers!SortedByTrueTime
  BY <1>1 DEF TimersInd, ListInv, Sorted, Timers!SortedByTrueTime
<1>3. Timers!NeverEarly
  BY DEF TimersInd, DueKnown, Timers!NeverEarly, Handlers
<1>4. linkAge < LinkPeriod + MaxRound
  BY TimersTypes, TimersNumbers DEF TimersInd, LinkKnown
<1>5. pcbs => tcpActive
  BY DEF TimersInd, TimersThere
<1>6. ASSUME NEW t \in Handlers
      PROVE  Timers!Cardinality({i \in DOMAIN timeouts : timeouts[i].timer = t}) + (IF pc = t THEN 1 ELSE 0)
               = IF t = "tcp" /\ ~tcpActive THEN 0 ELSE 1
  <2> DEFINE S == {i \in DOMAIN timeouts : timeouts[i].timer = t}
  <2>1. Timers!Cardinality(S) = Cardinality(S)
    BY TimersCardinality
  <2>2. /\ Holds(timeouts, t) <=> t # pc /\ (t = "tcp" => tcpActive)
        /\ pc = "tcp" => tcpActive
    BY DEF TimersInd, TimersThere
  <2>3. CASE Holds(timeouts, t)
    <3>1. PICK i \in 1 .. Len(timeouts) : timeouts[i].timer = t
      BY <2>3 DEF Holds
    <3>2. S = {i}
      BY <1>1, <3>1 DEF TimersInd, ListInv, Distinct
    <3>3. Cardinality(S) = 1
      BY <3>2, FS_Singleton
    <3> QED BY <2>1, <2>2, <2>3, <3>3
  <2>4. CASE ~Holds(timeouts, t)
    <3>1. S = {}
      BY <1>1, <2>4 DEF Holds
    <3>2. Cardinality(S) = 0
      BY <3>1, FS_EmptySet
    <3>3. t = pc \/ (t = "tcp" /\ ~tcpActive)
      BY <2>2, <2>4
    <3>4. t = pc => ~(t = "tcp" /\ ~tcpActive)
      BY <2>2
    <3> QED BY <2>1, <3>2, <3>3, <3>4
  <2> QED BY <2>3, <2>4
<1>7. Timers!EachTimerOnce
  BY <1>5, <1>6 DEF Timers!EachTimerOnce, Handlers
<1> QED BY <1>2, <1>3, <1>4, <1>7

(***************************************************************************)
(* For any cyclic timers and intervals, wherever the counter starts and    *)
(* however the milliseconds fall: the list of timeouts is in the order of  *)
(* the true times, no handler is called early, no timer is lost or entered *)
(* twice, a late one keeps its rhythm or starts again, and the link is     *)
(* looked at every period, later by less than a round.                     *)
(***************************************************************************)
THEOREM TimersCorrect == PartsSpec => TimersKeepTime
<1>1. PartsInit => TimersInd
  BY TimersInit DEF PartsInit
<1>2. TimersInd /\ [PartsNext]_partsVars => TimersInd' /\ Rhythm
  BY TimersNext DEF PartsNext, partsVars, BesideTx, BesideStream, BesideTelnet, BesideSha256, BesideMeter
<1>3. TimersInd =>
        /\ Timers!TypeOK /\ Timers!SortedByTrueTime /\ Timers!NeverEarly /\ Timers!EachTimerOnce
        /\ linkAge < LinkPeriod + MaxRound
  BY TimersCounted DEF TimersInd
<1>4. Rhythm =>
        /\ [\A t \in Cyclic : pc = t /\ pc' = "check" =>
              \E i \in DOMAIN timeouts' :
                /\ timeouts'[i].timer = t
                /\ timeouts'[i].left = IF dueLeft + Interval[t] >= 0
                                         THEN dueLeft + Interval[t] ELSE Interval[t]]_Timers!vars
        /\ [linkAge' < linkAge => linkAge >= LinkPeriod]_Timers!vars
  BY DEF Rhythm, Timers!vars
<1> QED BY <1>1, <1>2, <1>3, <1>4, PTL
        DEF PartsSpec, TimersKeepTime, Timers!KeepsRhythm, Timers!LinkEveryPeriod

-----------------------------------------------------------------------------
(***************************************************************************)
(* RateMeter.  The tick and psLastDt differ by the true time between them  *)
(* and whole turns of the counter, and that time is below half a turn: so  *)
(* the comparison of the handler is one of true times.                     *)
(***************************************************************************)
(* What an int holds of a word of the counter. *)
Half == MeterWord \div 2

(* The tick is psLastDt and the true time since then, but for whole turns of the counter. *)
Elapsed(from, to, time) == \E k \in Int : to = from + time + k * MeterWord

(* The window is a second short of the pause, and every byte in it is counted. *)
MeterInv ==
  /\ Meter!TypeOK
  /\ window \in Nat /\ window - pause \in 0 .. Second - 1
  /\ Elapsed(psLastDt, halTick, window)
  /\ psCount = bytes

LEMMA MeterNumbers ==
  /\ MeterWord \in Nat /\ Half \in Nat /\ MeterWord = 2 * Half
  /\ Second \in Nat /\ Second > 0 /\ MaxPause \in Nat /\ MaxPause > 0 /\ Second + MaxPause <= Half
  /\ MeterWord > 0
<1>1. MeterWord \in Nat /\ MeterWord % 2 = 0
  BY PartsAssumption DEF Meter!RateMeterAssumption
<1>2. Half \in Nat /\ MeterWord = 2 * Half
  BY <1>1 DEF Half
<1>3. /\ Second \in Nat /\ Second > 0 /\ MaxPause \in Nat /\ MaxPause > 0
      /\ Second + MaxPause <= Half
  BY PartsAssumption DEF Meter!RateMeterAssumption, Half
<1> QED BY <1>1, <1>2, <1>3

(* A word as an int: equal up to whole turns, and in the range of an int. *)
LEMMA SignedOf ==
  ASSUME NEW n \in Int
  PROVE  /\ Meter!Signed(n) \in -Half .. Half - 1
         /\ \E k \in Int : Meter!Signed(n) = n + k * MeterWord
<1> DEFINE w == n % MeterWord
           q == n \div MeterWord
<1>1. w \in 0 .. MeterWord - 1 /\ n = MeterWord * q + w /\ q \in Int
  BY Divided, MeterNumbers
<1>2. Meter!Signed(n) = IF w >= Half THEN w - MeterWord ELSE w
  BY DEF Meter!Signed, Half
<1> HIDE DEF w, q
<1>3. CASE w >= Half
  <2>1. Meter!Signed(n) \in -Half .. Half - 1
    BY <1>1, <1>2, <1>3, MeterNumbers
  <2>2. Meter!Signed(n) = n + (-q - 1) * MeterWord /\ -q - 1 \in Int
    BY <1>1, <1>2, <1>3, MeterNumbers
  <2> QED BY <2>1, <2>2
<1>4. CASE w < Half
  <2>1. Meter!Signed(n) \in -Half .. Half - 1
    BY <1>1, <1>2, <1>4, MeterNumbers
  <2>2. Meter!Signed(n) = n + (-q) * MeterWord /\ -q \in Int
    BY <1>1, <1>2, <1>4, MeterNumbers
  <2> QED BY <2>1, <2>2
<1> QED BY <1>1, <1>3, <1>4, MeterNumbers

LEMMA SignedIs ==
  ASSUME NEW x \in 0 .. Half - 1, NEW n \in Int, NEW k \in Int, n = x + k * MeterWord
  PROVE  Meter!Signed(n) = x
<1>1. n % MeterWord = x
  BY Turns, MeterNumbers
<1> QED BY <1>1, MeterNumbers DEF Meter!Signed, Half

(* The comparison of the handler is one of the true times. *)
LEMMA DueWhenSecond ==
  ASSUME MeterInv
  PROVE  Meter!Due <=> window >= Second
<1>1. halTick \in Int /\ psLastDt \in Int /\ window \in 0 .. Half - 1
  BY MeterNumbers DEF MeterInv, Meter!TypeOK
<1>2. PICK k \in Int : halTick = psLastDt + window + k * MeterWord
  BY DEF MeterInv, Elapsed
<1>3. PICK j \in Int : Meter!Signed(halTick) = halTick + j * MeterWord
  BY <1>1, SignedOf
<1>4. Meter!Signed(halTick) - psLastDt = window + (k + j) * MeterWord
  BY <1>1, <1>2, <1>3, MeterNumbers
<1>5. Meter!Signed(Meter!Signed(halTick) - psLastDt) = window
  BY <1>1, <1>3, <1>4, SignedIs, MeterNumbers
<1> QED BY <1>5 DEF Meter!Due

LEMMA MeterInit == Meter!Init => MeterInv
<1> SUFFICES ASSUME Meter!Init PROVE MeterInv
  OBVIOUS
<1>1. 0 = 0 + 0 + 0 * MeterWord
  BY MeterNumbers
<1>2. Elapsed(psLastDt, halTick, window)
  BY <1>1 DEF Meter!Init, Elapsed
<1>3. Meter!TypeOK
  BY MeterNumbers DEF Meter!Init, Meter!TypeOK, Half
<1> QED BY <1>2, <1>3, MeterNumbers DEF Meter!Init, MeterInv

LEMMA ElapseStep == ASSUME MeterInv, Meter!Elapse PROVE MeterInv'
<1> USE DEF MeterInv, Meter!Elapse
<1>1. PICK k \in Int : halTick = psLastDt + window + k * MeterWord
  BY DEF Elapsed
<1>2. /\ halTick \in 0 .. MeterWord - 1 /\ psLastDt \in Int /\ window \in Nat
      /\ psLastDt' = psLastDt /\ window' = window + 1 /\ halTick' = (halTick + 1) % MeterWord
  BY MeterNumbers DEF Meter!TypeOK
<1>3. halTick' = IF halTick + 1 = MeterWord THEN 0 ELSE halTick + 1
  BY <1>2, MeterNumbers
<1>4. Elapsed(psLastDt', halTick', window')
  <2>1. CASE halTick + 1 = MeterWord
    <3>1. halTick' = psLastDt' + window' + (k - 1) * MeterWord
      BY <1>1, <1>2, <1>3, <2>1, MeterNumbers
    <3> QED BY <3>1 DEF Elapsed
  <2>2. CASE halTick + 1 # MeterWord
    <3>1. halTick' = psLastDt' + window' + k * MeterWord
      BY <1>1, <1>2, <1>3, <2>2, MeterNumbers
    <3> QED BY <3>1 DEF Elapsed
  <2> QED BY <2>1, <2>2
<1>5. Meter!TypeOK'
  BY <1>2, <1>3, MeterNumbers DEF Meter!TypeOK
<1> QED BY <1>2, <1>4, <1>5, MeterNumbers DEF Meter!TypeOK

(* What a packet publishes: the sum of a second and less than a pause. *)
LEMMA PeriodicStep ==
  ASSUME MeterInv, NEW amount \in MeterSizes, Meter!PeriodicTC(amount)
  PROVE  /\ MeterInv'
         /\ window' < Second
         /\ psLastDt' # psLastDt =>
              window \in Second .. Second + MaxPause - 1 /\ psPerSecond' = bytes + lastSize'
<1> USE DEF MeterInv
<1>1. /\ halTick \in 0 .. MeterWord - 1 /\ psLastDt \in Int /\ window \in Nat /\ pause \in 0 .. MaxPause
      /\ amount \in Nat /\ lastSize' = amount
      /\ pause > 0 /\ pause' = 0 /\ halTick' = halTick /\ psCount \in Nat /\ psPerSecond \in Nat
  BY MeterNumbers, PartsAssumption DEF Meter!RateMeterAssumption, Meter!TypeOK, Meter!PeriodicTC
<1>2. CASE Meter!Due
  <2>1. window \in Second .. Second + MaxPause - 1
    BY <1>1, <1>2, DueWhenSecond, MeterNumbers
  <2>2. /\ psLastDt' = Meter!Signed(halTick) /\ psPerSecond' = psCount + amount
        /\ psCount' = 0 /\ window' = 0 /\ bytes' = 0
    BY <1>2 DEF Meter!PeriodicTC
  <2>3. psLastDt' \in -Half .. Half - 1 /\ \E k \in Int : psLastDt' = halTick + k * MeterWord
    BY <1>1, <2>2, SignedOf
  <2>4. PICK k \in Int : psLastDt' = halTick + k * MeterWord
    BY <2>3
  <2>5. halTick' = psLastDt' + window' + (-k) * MeterWord
    BY <1>1, <2>2, <2>4, MeterNumbers
  <2>6. Elapsed(psLastDt', halTick', window')
    BY <2>5 DEF Elapsed
  <2>7. psPerSecond' \in Nat
    BY <1>1, <2>2
  <2>8. Meter!TypeOK'
    BY <1>1, <2>2, <2>3, <2>7, MeterNumbers DEF Meter!TypeOK, Half
  <2> QED BY <1>1, <2>1, <2>2, <2>6, <2>8, MeterNumbers
<1>3. CASE ~Meter!Due
  <2>1. window < Second
    BY <1>1, <1>3, DueWhenSecond, MeterNumbers
  <2>2. /\ psCount' = psCount + amount /\ bytes' = bytes + amount
        /\ psLastDt' = psLastDt /\ psPerSecond' = psPerSecond /\ window' = window
    BY <1>3 DEF Meter!PeriodicTC
  <2>4. Meter!TypeOK'
    BY <1>1, <2>1, <2>2, MeterNumbers DEF Meter!TypeOK
  <2>5. Elapsed(psLastDt', halTick', window')
    BY <1>1, <2>2 DEF Elapsed
  <2> QED BY <1>1, <2>1, <2>2, <2>4, <2>5, MeterNumbers
<1> QED BY <1>2, <1>3

(* PublishesSecond, as an action. *)
Published ==
  /\ [pause' = 0 => window' < Second]_meterVars
  /\ [psLastDt' # psLastDt =>
        window \in Second .. Second + MaxPause - 1 /\ psPerSecond' = bytes + lastSize']_meterVars

LEMMA MeterNext == ASSUME MeterInv, [Meter!Next]_meterVars PROVE MeterInv' /\ Published
<1>1. CASE UNCHANGED meterVars
  BY <1>1 DEF meterVars, MeterInv, Meter!TypeOK, Elapsed, Published
<1>2. CASE Meter!Elapse
  <2>1. pause' # 0 /\ psLastDt' = psLastDt
    BY <1>2 DEF Meter!Elapse, MeterInv, Meter!TypeOK
  <2> QED BY <1>2, <2>1, ElapseStep DEF Published
<1>3. CASE \E amount \in MeterSizes : Meter!PeriodicTC(amount)
  BY <1>3, PeriodicStep DEF Published
<1> QED BY <1>1, <1>2, <1>3 DEF Meter!Next

(***************************************************************************)
(* For every length of the second, and across every wrap of the millisecond*)
(* counter, a packet that publishes a rate ends a window of a second and   *)
(* less than a pause, and publishes the bytes received in it.              *)
(***************************************************************************)
THEOREM MeterCorrect == PartsSpec => RateIsPerSecond
<1>1. PartsInit => MeterInv
  BY MeterInit DEF PartsInit
<1>2. MeterInv /\ [PartsNext]_partsVars => MeterInv' /\ Published
  BY MeterNext DEF PartsNext, partsVars, BesideTx, BesideStream, BesideTimers, BesideTelnet, BesideSha256
<1>3. MeterInv => Meter!TypeOK
  BY DEF MeterInv
<1>4. Published => /\ [pause' = 0 => window' < Second]_Meter!vars
                   /\ [psLastDt' # psLastDt =>
                         /\ window \in Second .. Second + MaxPause - 1
                         /\ psPerSecond' = bytes + lastSize']_Meter!vars
  BY DEF Published, meterVars, Meter!vars
<1> QED BY <1>1, <1>2, <1>3, <1>4, PTL DEF PartsSpec, RateIsPerSecond, Meter!PublishesSecond

-----------------------------------------------------------------------------
(***************************************************************************)
(* Sha256Chunks.  What has been given to the compression function and what *)
(* waits in the chunk are, one behind the other, the message so far; then  *)
(* the message, the one bit and zeros.  A close writes the length where a  *)
(* whole chunk ends.                                                       *)
(***************************************************************************)
(* Bytes as the chunk holds them, by their short names. *)
ShaByte == Sha256!Byte
Filled == Sha256!Filled
DataByte(i) == Sha256!Data(i, hash)
One == Sha256!Other(Base \div 2)

(* The padded message byte by byte, but for its length field. *)
PaddedByte(i) ==
  IF i <= total THEN DataByte(i) ELSE IF i = total + 1 THEN One ELSE Sha256!Other(0)

(* Consumed and waiting: the bytes of the message written so far. *)
SoFar ==
  /\ Len(hashed) + Filled = total - left
  /\ \A i \in 1 .. Len(hashed) : hashed[i] = DataByte(i)
  /\ \A j \in 1 .. Filled : chunk[j] = DataByte(Len(hashed) + j)

(* The same after the one bit and the zeros, with room for the length. *)
PaddedSoFar ==
  /\ Len(hashed) + Filled \in total + 1 .. total + LenLen
  /\ \A i \in 1 .. Len(hashed) : hashed[i] = PaddedByte(i)
  /\ \A j \in 1 .. Filled : chunk[j] = PaddedByte(Len(hashed) + j)

WholeChunks == \E k \in Nat : Len(hashed) = k * ChunkSize

ShaInv ==
  /\ Sha256!TypeOK
  /\ WholeChunks
  /\ shaPc \in {"open", "write"} => spaceLeft > 0 /\ SoFar
  /\ shaPc = "open" => left = 0
  /\ shaPc = "padded" => spaceLeft >= LenLen /\ PaddedSoFar
  /\ Sha256!HashedIsPadded

LEMMA ShaNumbers ==
  /\ ChunkSize \in Nat /\ LenLen \in Nat /\ LenLen > 0 /\ ChunkSize > LenLen
  /\ Base \in Nat /\ Base >= 8 /\ Base \div 8 \in Nat \ {0} /\ Base = 8 * (Base \div 8)
  /\ Base \div 2 \in 0 .. Base - 1
  /\ MaxTotal \in Nat
  /\ Sha256!PowersOf(Base, LenLen)
<1>1. /\ ChunkSize \in Nat /\ LenLen \in Nat /\ LenLen > 0 /\ ChunkSize > LenLen
      /\ Base \in Nat /\ Base > 0 /\ Base % 8 = 0 /\ MaxTotal \in Nat
      /\ Sha256!PowersOf(Base, LenLen)
  BY PartsAssumption DEF Sha256!Sha256Assumption
<1>2. Base \div 8 \in Nat \ {0} /\ Base = 8 * (Base \div 8) /\ Base >= 8 /\ Base \div 2 \in 0 .. Base - 1
  BY <1>1
<1> QED BY <1>1, <1>2

LEMMA MultipleOf == ASSUME NEW n \in Int, NEW m \in Nat \ {0} PROVE (n * m) % m = 0
OBVIOUS

LEMMA DividedTwice ==
  ASSUME NEW t \in Nat, NEW q \in Nat \ {0}, NEW p \in Nat \ {0}
  PROVE  t \div (q * p) = (t \div q) \div p
OBVIOUS

LEMMA EightCancels ==
  ASSUME NEW t \in Nat, NEW q \in Nat \ {0}
  PROVE  (8 * t) \div (8 * q) = t \div q
OBVIOUS

LEMMA SeqOf ==
  ASSUME NEW S, NEW n \in Nat, NEW f \in [1 .. n -> S]
  PROVE  f \in Seq(S) /\ Len(f) = n
OBVIOUS

LEMMA MinOfTwo ==
  ASSUME NEW a \in Nat, NEW b \in Nat
  PROVE  Sha256!Min({a, b}) = IF a <= b THEN a ELSE b
<1>1. \E x \in {a, b} : \A y \in {a, b} : x <= y
  OBVIOUS
<1>2. Sha256!Min({a, b}) \in {a, b} /\ \A y \in {a, b} : Sha256!Min({a, b}) <= y
  BY <1>1 DEF Sha256!Min
<1> QED BY <1>2

LEMMA DataIsByte ==
  ASSUME hash \in {1, 2}, NEW i \in 1 .. MaxTotal
  PROVE  DataByte(i) \in ShaByte
BY DEF DataByte, ShaByte, Sha256!Data, Sha256!Byte

LEMMA OtherIsByte == ASSUME NEW v \in 0 .. Base - 1 PROVE Sha256!Other(v) \in ShaByte
BY DEF ShaByte, Sha256!Other, Sha256!Byte

LEMMA PieceIs ==
  ASSUME hash \in {1, 2}, NEW from \in Nat, NEW n \in Nat, from + n <= MaxTotal
  PROVE  /\ Sha256!Piece(from, n) \in Seq(ShaByte) /\ Len(Sha256!Piece(from, n)) = n
         /\ \A k \in 1 .. n : Sha256!Piece(from, n)[k] = DataByte(from + k)
<1> DEFINE p == [k \in 1 .. n |-> DataByte(from + k)]
<1>1. Sha256!Piece(from, n) = p
  BY DEF Sha256!Piece, DataByte
<1>2. \A k \in 1 .. n : DataByte(from + k) \in ShaByte
  BY DataIsByte, ShaNumbers
<1>3. p \in [1 .. n -> ShaByte]
  BY <1>2
<1>4. p \in Seq(ShaByte) /\ Len(p) = n
  BY <1>3, SeqOf
<1> QED BY <1>1, <1>4

LEMMA ZerosAre ==
  ASSUME NEW n \in Nat
  PROVE  /\ Sha256!Zeros(n) \in Seq(ShaByte) /\ Len(Sha256!Zeros(n)) = n
         /\ \A k \in 1 .. n : Sha256!Zeros(n)[k] = Sha256!Other(0)
<1>1. Sha256!Other(0) \in ShaByte
  BY OtherIsByte, ShaNumbers
<1>2. Sha256!Zeros(n) \in [1 .. n -> ShaByte]
  BY <1>1 DEF Sha256!Zeros
<1>3. \A k \in 1 .. n : Sha256!Zeros(n)[k] = Sha256!Other(0)
  BY DEF Sha256!Zeros
<1> QED BY <1>2, <1>3, SeqOf

LEMMA PutIs ==
  ASSUME NEW c \in [1 .. ChunkSize -> ShaByte], NEW p \in 0 .. ChunkSize,
         NEW piece \in Seq(ShaByte), p + Len(piece) <= ChunkSize
  PROVE  /\ Sha256!Put(c, p, piece) \in [1 .. ChunkSize -> ShaByte]
         /\ \A k \in 1 .. p : Sha256!Put(c, p, piece)[k] = c[k]
         /\ \A k \in 1 .. Len(piece) : Sha256!Put(c, p, piece)[p + k] = piece[k]
<1>1. ChunkSize \in Nat /\ Len(piece) \in Nat
  BY ShaNumbers, LenProperties
<1> DEFINE n == Len(piece)
<1>2. \A k \in 1 .. n : piece[k] \in ShaByte
  BY ElementOfSeq
<1> HIDE DEF n
<1>3. /\ n \in Nat /\ p + n <= ChunkSize
      /\ Sha256!Put(c, p, piece) =
           [k \in 1 .. ChunkSize |-> IF k \in p + 1 .. p + n THEN piece[k - p] ELSE c[k]]
  BY <1>1 DEF n, Sha256!Put
<1>4. Sha256!Put(c, p, piece) \in [1 .. ChunkSize -> ShaByte]
  <2>1. \A k \in 1 .. ChunkSize : k \in p + 1 .. p + n => k - p \in 1 .. n
    BY <1>1, <1>3
  <2> QED BY <1>2, <1>3, <2>1
<1>5. \A k \in 1 .. p : Sha256!Put(c, p, piece)[k] = c[k]
  BY <1>1, <1>3
<1>6. \A k \in 1 .. n : Sha256!Put(c, p, piece)[p + k] = piece[k]
  <2> SUFFICES ASSUME NEW k \in 1 .. n PROVE Sha256!Put(c, p, piece)[p + k] = piece[k]
    OBVIOUS
  <2>1. p + k \in 1 .. ChunkSize /\ p + k \in p + 1 .. p + n /\ (p + k) - p = k
    BY <1>1, <1>3
  <2> QED BY <1>3, <2>1
<1> QED BY <1>4, <1>5, <1>6 DEF n

LEMMA ShaTypes ==
  ASSUME Sha256!TypeOK
  PROVE  /\ hash \in {1, 2} /\ total \in 0 .. MaxTotal /\ left \in 0 .. total /\ MaxTotal \in Nat
         /\ chunk \in [1 .. ChunkSize -> ShaByte] /\ ChunkSize \in Nat
         /\ spaceLeft \in 0 .. ChunkSize /\ Filled = ChunkSize - spaceLeft /\ Filled \in 0 .. ChunkSize
         /\ hashed \in Seq(ShaByte) /\ Len(hashed) \in Nat
BY ShaNumbers, LenProperties DEF Sha256!TypeOK, ShaByte, Filled, Sha256!Filled

LEMMA ShaInitial == Sha256!Init => ShaInv
<1> SUFFICES ASSUME Sha256!Init PROVE ShaInv
  OBVIOUS
<1> USE DEF Sha256!Init
<1>1. Sha256!Other(1) \in ShaByte
  BY OtherIsByte, ShaNumbers
<1>2. hashed \in Seq(ShaByte) /\ Len(hashed) = 0
  OBVIOUS
<1>3. Sha256!TypeOK
  BY <1>1, <1>2, ShaNumbers DEF Sha256!TypeOK, ShaByte
<1>4. WholeChunks
  BY <1>2, ShaNumbers DEF WholeChunks
<1> QED BY <1>3, <1>4 DEF ShaInv, Sha256!HashedIsPadded

LEMMA ShaInitStep == ASSUME ShaInv, Sha256!ShaInit PROVE ShaInv'
<1> USE DEF ShaInv, Sha256!ShaInit
<1>1. hashed' \in Seq(ShaByte) /\ Len(hashed') = 0
  OBVIOUS
<1>2. hash' \in {1, 2}
  BY DEF Sha256!TypeOK
<1>3. Sha256!TypeOK'
  BY <1>1, <1>2, ShaNumbers DEF Sha256!TypeOK, ShaByte
<1>4. WholeChunks'
  BY <1>1, ShaNumbers DEF WholeChunks
<1>5. SoFar'
  BY <1>1, ShaNumbers DEF SoFar, Filled, Sha256!Filled
<1> QED BY <1>3, <1>4, <1>5, ShaNumbers DEF Sha256!HashedIsPadded

LEMMA WriteStep == ASSUME ShaInv, NEW len \in 0 .. MaxTotal, Sha256!Write(len) PROVE ShaInv'
<1> USE DEF ShaInv, Sha256!Write
<1>1. Sha256!TypeOK'
  BY ShaTypes DEF Sha256!TypeOK
<1>2. SoFar'
  BY ShaTypes DEF SoFar, Filled, Sha256!Filled, DataByte
<1>3. WholeChunks'
  BY DEF WholeChunks
<1> QED BY <1>1, <1>2, <1>3 DEF Sha256!HashedIsPadded

LEMMA WriteEndStep == ASSUME ShaInv, Sha256!WriteEnd PROVE ShaInv'
<1> USE DEF ShaInv, Sha256!WriteEnd
<1>1. Sha256!TypeOK'
  BY DEF Sha256!TypeOK
<1>2. SoFar'
  BY DEF SoFar, Filled, Sha256!Filled, DataByte
<1>3. WholeChunks'
  BY DEF WholeChunks
<1> QED BY <1>1, <1>2, <1>3 DEF Sha256!HashedIsPadded

(* A chunk consumed: the bytes of one behind the bytes of those before. *)
LEMMA Consumed ==
  ASSUME hashed \in Seq(ShaByte), NEW c \in [1 .. ChunkSize -> ShaByte], hashed' = hashed \o c
  PROVE  /\ hashed' \in Seq(ShaByte) /\ Len(hashed') = Len(hashed) + ChunkSize
         /\ \A i \in 1 .. Len(hashed) : hashed'[i] = hashed[i]
         /\ \A j \in 1 .. ChunkSize : hashed'[Len(hashed) + j] = c[j]
         /\ \A i \in 1 .. Len(hashed') :
              i \in 1 .. Len(hashed) \/ \E j \in 1 .. ChunkSize : i = Len(hashed) + j
         /\ WholeChunks => WholeChunks'
<1>1. c \in Seq(ShaByte) /\ Len(c) = ChunkSize /\ ChunkSize \in Nat
  BY SeqOf, ShaNumbers
<1> DEFINE h == Len(hashed)
<1>2. h \in Nat
  BY LenProperties
<1>3. /\ hashed' \in Seq(ShaByte) /\ Len(hashed') = h + ChunkSize
      /\ \A i \in 1 .. h + ChunkSize : hashed'[i] = IF i <= h THEN hashed[i] ELSE c[i - h]
  BY <1>1, ConcatProperties
<1> HIDE DEF h
<1>4. \A i \in 1 .. h : hashed'[i] = hashed[i]
  BY <1>1, <1>2, <1>3
<1>5. \A j \in 1 .. ChunkSize : hashed'[h + j] = c[j]
  <2> SUFFICES ASSUME NEW j \in 1 .. ChunkSize PROVE hashed'[h + j] = c[j]
    OBVIOUS
  <2>1. h + j \in 1 .. h + ChunkSize /\ ~(h + j <= h) /\ (h + j) - h = j
    BY <1>1, <1>2
  <2> QED BY <1>3, <2>1
<1>6. \A i \in 1 .. h + ChunkSize : i \in 1 .. h \/ \E j \in 1 .. ChunkSize : i = h + j
  <2> SUFFICES ASSUME NEW i \in 1 .. h + ChunkSize, i \notin 1 .. h
               PROVE  \E j \in 1 .. ChunkSize : i = h + j
    OBVIOUS
  <2>1. i - h \in 1 .. ChunkSize /\ i = h + (i - h)
    BY <1>1, <1>2
  <2> QED BY <2>1
<1>7. WholeChunks => WholeChunks'
  <2> SUFFICES ASSUME NEW k \in Nat, h = k * ChunkSize PROVE WholeChunks'
    BY DEF WholeChunks, h
  <2>1. h + ChunkSize = (k + 1) * ChunkSize /\ k + 1 \in Nat
    BY <1>1
  <2> QED BY <1>3, <2>1 DEF WholeChunks
<1> QED BY <1>3, <1>4, <1>5, <1>6, <1>7 DEF h

LEMMA WriteDirectStep == ASSUME ShaInv, Sha256!WriteDirect PROVE ShaInv'
<1> DEFINE piece == Sha256!Piece(total - left, ChunkSize)
<1>1. /\ spaceLeft = ChunkSize /\ left >= ChunkSize /\ Filled = 0 /\ Filled' = 0
      /\ SoFar /\ shaPc = "write" /\ UNCHANGED <<hash, total, chunk, spaceLeft, shaPc>>
  BY ShaNumbers DEF ShaInv, Sha256!WriteDirect, Sha256!Direct, Filled, Sha256!Filled
<1>2. /\ total \in Nat /\ left \in Nat /\ left <= total /\ total <= MaxTotal /\ Len(hashed) \in Nat
      /\ Len(hashed) = total - left /\ Sha256!TypeOK
  BY <1>1, ShaTypes DEF ShaInv, SoFar
<1>3. /\ piece \in [1 .. ChunkSize -> ShaByte]
      /\ \A k \in 1 .. ChunkSize : piece[k] = DataByte(total - left + k)
  <2>1. /\ piece \in Seq(ShaByte) /\ Len(piece) = ChunkSize
        /\ \A k \in 1 .. ChunkSize : piece[k] = DataByte(total - left + k)
    <3>1. total - left \in Nat /\ (total - left) + ChunkSize <= MaxTotal
      BY <1>1, <1>2, ShaTypes, ShaNumbers
    <3>2. hash \in {1, 2} /\ ChunkSize \in Nat
      BY <1>2, ShaTypes
    <3> HIDE DEF piece
    <3>3. piece = Sha256!Piece(total - left, ChunkSize)
      BY DEF piece
    <3> QED BY <1>2, <3>1, <3>2, <3>3, PieceIs
  <2> QED BY <2>1, LenProperties
<1>4. hashed' = hashed \o piece /\ left' = left - ChunkSize /\ WholeChunks
  BY DEF ShaInv, Sha256!WriteDirect
<1> HIDE DEF piece
<1>5. /\ hashed' \in Seq(ShaByte) /\ Len(hashed') = Len(hashed) + ChunkSize
      /\ \A i \in 1 .. Len(hashed) : hashed'[i] = hashed[i]
      /\ \A j \in 1 .. ChunkSize : hashed'[Len(hashed) + j] = piece[j]
      /\ \A i \in 1 .. Len(hashed') :
           i \in 1 .. Len(hashed) \/ \E j \in 1 .. ChunkSize : i = Len(hashed) + j
      /\ WholeChunks'
  <2>1. hashed \in Seq(ShaByte)
    BY <1>2, ShaTypes
  <2> QED BY <1>3, <1>4, <2>1, Consumed
<1>6. left' = left - ChunkSize /\ left' \in 0 .. total'
  BY <1>1, <1>2, <1>4, ShaNumbers
<1>7. Sha256!TypeOK'
  BY <1>1, <1>2, <1>5, <1>6 DEF Sha256!TypeOK, ShaByte
<1>8. \A i \in 1 .. Len(hashed') : hashed'[i] = DataByte(i)
  <2> SUFFICES ASSUME NEW i \in 1 .. Len(hashed') PROVE hashed'[i] = DataByte(i)
    OBVIOUS
  <2>1. CASE i \in 1 .. Len(hashed)
    <3>1. hashed[i] = DataByte(i)
      BY <1>1, <2>1 DEF SoFar
    <3> QED BY <1>5, <2>1, <3>1
  <2>2. ASSUME NEW j \in 1 .. ChunkSize, i = Len(hashed) + j PROVE hashed'[i] = DataByte(i)
    <3>1. hashed'[i] = piece[j] /\ piece[j] = DataByte(total - left + j)
      BY <1>3, <1>5, <2>2
    <3>2. total - left + j = i
      BY <1>2, <2>2
    <3> QED BY <3>1, <3>2
  <2> QED BY <1>5, <2>1, <2>2
<1>9. SoFar'
  <2>1. Len(hashed') + Filled' = total' - left'
    <3>1. PICK h \in Nat : h = Len(hashed) /\ h + Filled = total - left
      BY <1>1, <1>2 DEF SoFar
    <3>2. Len(hashed') = h + ChunkSize /\ left' = left - ChunkSize
      BY <1>5, <1>6, <3>1
    <3>3. /\ Filled = 0 /\ Filled' = 0 /\ total' = total /\ total \in Nat /\ left \in Nat
          /\ ChunkSize \in Nat
      BY <1>1, <1>2, ShaNumbers
    <3> QED BY <3>1, <3>2, <3>3
  <2>2. \A i \in 1 .. Len(hashed') : hashed'[i] = DataByte(i)'
    BY <1>1, <1>8 DEF DataByte, Sha256!Data
  <2> QED BY <1>1, <2>1, <2>2 DEF SoFar
<1> QED BY <1>1, <1>5, <1>7, <1>9, ShaNumbers DEF ShaInv, Sha256!HashedIsPadded

LEMMA WriteBufferedStep == ASSUME ShaInv, Sha256!WriteBuffered PROVE ShaInv'
<1> DEFINE consumed == Sha256!Min({left, spaceLeft})
           piece == Sha256!Piece(total - left, consumed)
           filled == Sha256!Put(chunk, Filled, piece)
           room == spaceLeft - consumed
<1>1. /\ left > 0 /\ chunk' = filled /\ left' = left - consumed /\ shaPc = "write"
      /\ \/ room = 0 /\ hashed' = hashed \o filled /\ spaceLeft' = ChunkSize
         \/ room # 0 /\ spaceLeft' = room /\ hashed' = hashed
      /\ UNCHANGED <<hash, total, shaPc>>
  BY DEF ShaInv, Sha256!WriteBuffered, Sha256!ConsumeFull, Filled
<1>2. /\ hash \in {1, 2} /\ total \in Nat /\ left \in Nat /\ left <= total /\ total <= MaxTotal
      /\ MaxTotal \in Nat /\ ChunkSize \in Nat /\ ChunkSize > 0
      /\ spaceLeft \in Nat /\ spaceLeft <= ChunkSize /\ Filled = ChunkSize - spaceLeft
      /\ Filled \in 0 .. ChunkSize /\ Len(hashed) \in Nat /\ SoFar /\ spaceLeft > 0
      /\ chunk \in [1 .. ChunkSize -> ShaByte] /\ hashed \in Seq(ShaByte)
      /\ Len(hashed) + Filled = total - left /\ Sha256!TypeOK /\ WholeChunks
  BY <1>1, ShaTypes, ShaNumbers DEF ShaInv, SoFar
<1>3. consumed \in Nat /\ consumed <= left /\ consumed <= spaceLeft
  BY <1>2, MinOfTwo
<1> HIDE DEF consumed
<1>4. /\ piece \in Seq(ShaByte) /\ Len(piece) = consumed
      /\ \A k \in 1 .. consumed : piece[k] = DataByte(total - left + k)
  BY <1>2, <1>3, PieceIs
<1> HIDE DEF piece
<1>5. /\ filled \in [1 .. ChunkSize -> ShaByte]
      /\ \A k \in 1 .. Filled : filled[k] = chunk[k]
      /\ \A k \in 1 .. consumed : filled[Filled + k] = piece[k]
  <2>1. Filled + Len(piece) <= ChunkSize
    BY <1>2, <1>3, <1>4
  <2>2. chunk \in [1 .. ChunkSize -> ShaByte] /\ Filled \in 0 .. ChunkSize
    BY <1>2
  <2>3. filled = Sha256!Put(chunk, Filled, piece)
    OBVIOUS
  <2> HIDE DEF filled
  <2> QED BY <1>4, <2>1, <2>2, <2>3, PutIs
<1> HIDE DEF filled
<1>6. \A j \in 1 .. Filled + consumed : filled[j] = DataByte(Len(hashed) + j)
  <2> SUFFICES ASSUME NEW j \in 1 .. Filled + consumed PROVE filled[j] = DataByte(Len(hashed) + j)
    OBVIOUS
  <2>1. CASE j <= Filled
    BY <1>2, <1>5, <2>1 DEF SoFar
  <2>2. CASE j > Filled
    <3> DEFINE k == j - Filled
    <3>1. k \in 1 .. consumed /\ j = Filled + k
      BY <1>2, <1>3, <2>2
    <3>2. filled[j] = DataByte(total - left + k)
      BY <1>4, <1>5, <3>1
    <3>3. total - left + k = Len(hashed) + j
      BY <1>2, <3>1
    <3> QED BY <3>2, <3>3
  <2> QED BY <1>2, <1>3, <2>1, <2>2
<1>7. \A i \in Nat : DataByte(i)' = DataByte(i)
  BY <1>1 DEF DataByte, Sha256!Data
<1>8. CASE room = 0
  <2>1. consumed = spaceLeft /\ Filled + consumed = ChunkSize /\ spaceLeft' = ChunkSize
        /\ hashed' = hashed \o filled
    BY <1>1, <1>2, <1>3, <1>8
  <2>2. /\ hashed' \in Seq(ShaByte) /\ Len(hashed') = Len(hashed) + ChunkSize
        /\ \A i \in 1 .. Len(hashed) : hashed'[i] = hashed[i]
        /\ \A j \in 1 .. ChunkSize : hashed'[Len(hashed) + j] = filled[j]
        /\ \A i \in 1 .. Len(hashed') :
             i \in 1 .. Len(hashed) \/ \E j \in 1 .. ChunkSize : i = Len(hashed) + j
        /\ WholeChunks'
    BY <1>2, <1>5, <2>1, Consumed
  <2>3. Sha256!TypeOK'
    <3>1. left' \in 0 .. total' /\ spaceLeft' \in 0 .. ChunkSize
      BY <1>1, <1>2, <1>3, <2>1
    <3> QED BY <1>1, <1>2, <1>5, <2>2, <3>1 DEF Sha256!TypeOK, ShaByte
  <2>4. Filled' = 0
    BY <1>2, <2>1 DEF Filled, Sha256!Filled
  <2>5. Len(hashed') + Filled' = total' - left'
    <3> DEFINE h == Len(hashed)
               h2 == Len(hashed')
    <3>1. h \in Nat /\ h + Filled = total - left /\ h2 = h + ChunkSize
      BY <1>2, <2>2
    <3> HIDE DEF h, h2
    <3>2. h2 = total - (left - consumed)
      BY <1>2, <1>3, <2>1, <3>1
    <3>3. h2 + Filled' = total' - left'
      BY <1>1, <1>2, <2>4, <3>1, <3>2
    <3> QED BY <3>3 DEF h2
  <2>6. \A i \in 1 .. Len(hashed') : hashed'[i] = DataByte(i)
    <3> SUFFICES ASSUME NEW i \in 1 .. Len(hashed') PROVE hashed'[i] = DataByte(i)
      OBVIOUS
    <3>1. CASE i \in 1 .. Len(hashed)
      <4>1. hashed[i] = DataByte(i)
        BY <1>2, <3>1 DEF SoFar
      <4> QED BY <2>2, <3>1, <4>1
    <3>2. ASSUME NEW j \in 1 .. ChunkSize, i = Len(hashed) + j
          PROVE  hashed'[i] = DataByte(i)
      BY <1>6, <2>1, <2>2, <3>2
    <3> QED BY <2>2, <3>1, <3>2
  <2>7. SoFar'
    BY <1>2, <1>7, <2>2, <2>4, <2>5, <2>6 DEF SoFar
  <2> QED BY <1>1, <1>2, <2>1, <2>2, <2>3, <2>7 DEF ShaInv, Sha256!HashedIsPadded
<1>9. CASE room # 0
  <2>1. spaceLeft' = spaceLeft - consumed /\ hashed' = hashed /\ spaceLeft' \in 1 .. ChunkSize
    BY <1>1, <1>2, <1>3, <1>9
  <2>2. Sha256!TypeOK'
    BY <1>1, <1>2, <1>3, <1>5, <2>1 DEF Sha256!TypeOK, ShaByte
  <2>3. Filled' = Filled + consumed
    BY <1>2, <1>3, <2>1 DEF Filled, Sha256!Filled
  <2>4. Len(hashed') + Filled' = total' - left'
    BY <1>1, <1>2, <1>3, <2>1, <2>3
  <2>5. \A j \in 1 .. Filled' : chunk'[j] = DataByte(Len(hashed) + j)'
    BY <1>1, <1>2, <1>3, <1>6, <1>7, <2>1, <2>3
  <2>6. SoFar'
    BY <1>2, <1>7, <2>1, <2>4, <2>5 DEF SoFar
  <2> QED BY <1>1, <1>2, <2>1, <2>2, <2>6 DEF ShaInv, Sha256!HashedIsPadded, WholeChunks
<1> QED BY <1>8, <1>9

LEMMA PadOneStep == ASSUME ShaInv, Sha256!PadOne PROVE ShaInv'
<1> DEFINE one == Sha256!Put(chunk, Filled, <<One>>)
           room == spaceLeft - 1
           full == Sha256!Put(one, ChunkSize - room, Sha256!Zeros(room))
<1>1. /\ shaPc = "open" /\ shaPc' = "padded" /\ UNCHANGED <<hash, total, left>>
      /\ \/ room < LenLen /\ chunk' = full /\ hashed' = hashed \o full /\ spaceLeft' = ChunkSize
         \/ ~(room < LenLen) /\ chunk' = one /\ spaceLeft' = room /\ hashed' = hashed
  BY DEF Sha256!PadOne, Sha256!NoRoom, Filled, One
<1>2. /\ hash \in {1, 2} /\ total \in Nat /\ total <= MaxTotal /\ left = 0
      /\ MaxTotal \in Nat /\ ChunkSize \in Nat /\ ChunkSize > LenLen /\ LenLen \in Nat /\ LenLen > 0
      /\ spaceLeft \in Nat /\ spaceLeft <= ChunkSize /\ Filled = ChunkSize - spaceLeft
      /\ Filled \in 0 .. ChunkSize /\ Len(hashed) \in Nat /\ SoFar /\ spaceLeft > 0
      /\ chunk \in [1 .. ChunkSize -> ShaByte] /\ hashed \in Seq(ShaByte)
      /\ Len(hashed) + Filled = total /\ Sha256!TypeOK /\ WholeChunks
  BY <1>1, ShaTypes, ShaNumbers DEF ShaInv, SoFar
<1>3. <<One>> \in Seq(ShaByte) /\ Len(<<One>>) = 1 /\ <<One>>[1] = One
  <2>1. One \in ShaByte
    BY OtherIsByte, ShaNumbers DEF One
  <2> QED BY <2>1
<1>4. /\ one \in [1 .. ChunkSize -> ShaByte]
      /\ \A k \in 1 .. Filled : one[k] = chunk[k]
      /\ one[Filled + 1] = One
  <2>1. Filled + Len(<<One>>) <= ChunkSize /\ 1 \in 1 .. Len(<<One>>)
    BY <1>2, <1>3
  <2> QED BY <1>2, <1>3, <2>1, PutIs
<1> HIDE DEF one
<1>5. \A j \in 1 .. Filled + 1 : one[j] = PaddedByte(Len(hashed) + j)
  <2> SUFFICES ASSUME NEW j \in 1 .. Filled + 1 PROVE one[j] = PaddedByte(Len(hashed) + j)
    OBVIOUS
  <2>1. CASE j <= Filled
    <3>1. Len(hashed) + j <= total /\ j \in 1 .. Filled
      BY <1>2, <2>1
    <3> QED BY <1>2, <1>4, <3>1 DEF SoFar, PaddedByte
  <2>2. CASE j = Filled + 1
    <3>1. Len(hashed) + j = total + 1 /\ ~(total + 1 <= total)
      BY <1>2, <2>2
    <3> QED BY <1>4, <2>2, <3>1 DEF PaddedByte
  <2> QED BY <1>2, <2>1, <2>2
<1>6. \A i \in 1 .. Len(hashed) : hashed[i] = PaddedByte(i)
  <2>1. \A i \in 1 .. Len(hashed) : i <= total
    BY <1>2
  <2> QED BY <1>2, <2>1 DEF SoFar, PaddedByte
<1>7. \A i \in Nat : PaddedByte(i)' = PaddedByte(i)
  BY <1>1 DEF PaddedByte, DataByte, Sha256!Data, One, Sha256!Other
<1>8. CASE room < LenLen
  <2>1. chunk' = full /\ hashed' = hashed \o full /\ spaceLeft' = ChunkSize
    BY <1>1, <1>8
  <2>2. room \in Nat /\ ChunkSize - room = Filled + 1 /\ ChunkSize - room \in 0 .. ChunkSize
        /\ Filled + 1 + room = ChunkSize
    BY <1>2
  <2>3. /\ Sha256!Zeros(room) \in Seq(ShaByte) /\ Len(Sha256!Zeros(room)) = room
        /\ \A k \in 1 .. room : Sha256!Zeros(room)[k] = Sha256!Other(0)
    BY <2>2, ZerosAre
  <2>4. /\ full \in [1 .. ChunkSize -> ShaByte]
        /\ \A k \in 1 .. Filled + 1 : full[k] = one[k]
        /\ \A k \in 1 .. room : full[Filled + 1 + k] = Sha256!Other(0)
    <3>1. /\ Filled + 1 \in 0 .. ChunkSize
          /\ Filled + 1 + Len(Sha256!Zeros(room)) <= ChunkSize
      BY <2>2, <2>3
    <3>2. full = Sha256!Put(one, Filled + 1, Sha256!Zeros(room))
      BY <2>2
    <3> HIDE DEF full, room
    <3>3. PICK z \in Seq(ShaByte), p \in 0 .. ChunkSize :
            /\ z = Sha256!Zeros(room) /\ p = Filled + 1
            /\ Len(z) = room /\ p + Len(z) <= ChunkSize
      BY <2>3, <3>1
    <3>4. /\ full \in [1 .. ChunkSize -> ShaByte]
          /\ \A k \in 1 .. p : full[k] = one[k]
          /\ \A k \in 1 .. Len(z) : full[p + k] = z[k]
      BY <1>4, <3>2, <3>3, PutIs
    <3> QED BY <2>3, <3>3, <3>4
  <2> HIDE DEF full
  <2>5. \A j \in 1 .. ChunkSize : full[j] = PaddedByte(Len(hashed) + j)
    <3> SUFFICES ASSUME NEW j \in 1 .. ChunkSize PROVE full[j] = PaddedByte(Len(hashed) + j)
      OBVIOUS
    <3>1. CASE j <= Filled + 1
      BY <1>2, <1>5, <2>4, <3>1
    <3>2. CASE j > Filled + 1
      <4> DEFINE k == j - (Filled + 1)
      <4>1. k \in 1 .. room /\ j = Filled + 1 + k
        BY <1>2, <2>2, <3>2
      <4>2. Len(hashed) + j > total + 1
        BY <1>2, <3>2
      <4>3. full[j] = Sha256!Other(0)
        BY <2>4, <4>1
      <4> HIDE DEF k
      <4> QED BY <1>2, <4>2, <4>3 DEF PaddedByte
    <3> QED BY <1>2, <3>1, <3>2
  <2>6. /\ hashed' \in Seq(ShaByte) /\ Len(hashed') = Len(hashed) + ChunkSize
        /\ \A i \in 1 .. Len(hashed) : hashed'[i] = hashed[i]
        /\ \A j \in 1 .. ChunkSize : hashed'[Len(hashed) + j] = full[j]
        /\ \A i \in 1 .. Len(hashed') :
             i \in 1 .. Len(hashed) \/ \E j \in 1 .. ChunkSize : i = Len(hashed) + j
        /\ WholeChunks'
    BY <1>2, <2>1, <2>4, Consumed
  <2>7. Sha256!TypeOK'
    BY <1>1, <1>2, <2>1, <2>4, <2>6 DEF Sha256!TypeOK, ShaByte
  <2>8. Filled' = 0
    BY <1>2, <2>1 DEF Filled, Sha256!Filled
  <2>9. Len(hashed') + Filled' \in total' + 1 .. total' + LenLen
    <3>1. /\ total' = total /\ Len(hashed') + Filled' = Len(hashed) + ChunkSize
          /\ Len(hashed) + Filled = total /\ Filled + 1 + room = ChunkSize
      BY <1>1, <1>2, <2>2, <2>6, <2>8
    <3>2. /\ room \in Nat /\ room < LenLen /\ LenLen \in Nat /\ ChunkSize \in Nat
          /\ Filled \in Nat /\ Len(hashed) \in Nat /\ total \in Nat
      BY <1>2, <1>8, <2>2
    <3> HIDE DEF room
    <3>3. Len(hashed) + ChunkSize = total + 1 + room
      BY <3>1, <3>2
    <3> QED BY <3>1, <3>2, <3>3
  <2>10. \A i \in 1 .. Len(hashed') : hashed'[i] = PaddedByte(i)
    <3> SUFFICES ASSUME NEW i \in 1 .. Len(hashed') PROVE hashed'[i] = PaddedByte(i)
      OBVIOUS
    <3>1. CASE i \in 1 .. Len(hashed)
      BY <1>6, <2>6, <3>1
    <3>2. ASSUME NEW j \in 1 .. ChunkSize, i = Len(hashed) + j
          PROVE  hashed'[i] = PaddedByte(i)
      BY <2>5, <2>6, <3>2
    <3> QED BY <2>6, <3>1, <3>2
  <2>11. PaddedSoFar'
    BY <1>2, <1>7, <2>6, <2>8, <2>9, <2>10 DEF PaddedSoFar
  <2> QED BY <1>1, <1>2, <2>1, <2>6, <2>7, <2>11 DEF ShaInv, Sha256!HashedIsPadded
<1>9. CASE ~(room < LenLen)
  <2>1. chunk' = one /\ spaceLeft' = room /\ hashed' = hashed /\ room \in LenLen .. ChunkSize
    BY <1>1, <1>2, <1>9
  <2>2. Sha256!TypeOK'
    BY <1>1, <1>2, <1>4, <2>1 DEF Sha256!TypeOK, ShaByte
  <2>3. Filled' = Filled + 1
    BY <1>2, <2>1 DEF Filled, Sha256!Filled
  <2>4. Len(hashed') + Filled' \in total' + 1 .. total' + LenLen
    BY <1>1, <1>2, <2>1, <2>3
  <2>5. \A i \in 1 .. Len(hashed') : hashed'[i] = PaddedByte(i)'
    BY <1>2, <1>6, <1>7, <2>1
  <2>6. \A j \in 1 .. Filled' : chunk'[j] = PaddedByte(Len(hashed) + j)'
    <3> SUFFICES ASSUME NEW j \in 1 .. Filled'
                 PROVE  chunk'[j] = PaddedByte(Len(hashed) + j)'
      OBVIOUS
    <3>1. j \in 1 .. Filled + 1 /\ j \in Nat
      BY <1>2, <2>3
    <3>2. chunk'[j] = PaddedByte(Len(hashed) + j)
      BY <1>5, <2>1, <3>1
    <3>3. PICK k \in Nat : k = Len(hashed) + j /\ k = Len(hashed') + j
      BY <1>2, <2>1, <3>1
    <3> QED BY <1>7, <2>1, <3>2, <3>3
  <2>7. PaddedSoFar'
    BY <2>4, <2>5, <2>6 DEF PaddedSoFar
  <2> QED BY <1>1, <1>2, <2>1, <2>2, <2>7 DEF ShaInv, Sha256!HashedIsPadded, WholeChunks
<1> QED BY <1>8, <1>9

-----------------------------------------------------------------------------
LEMMA PaddingIs ==
  ASSUME NEW n \in Nat, NEW z \in 0 .. ChunkSize - 1, (n + 1 + z + LenLen) % ChunkSize = 0
  PROVE  Sha256!Padding(n) = z
<1>1. ChunkSize \in Nat \ {0} /\ LenLen \in Nat
  BY ShaNumbers
<1>2. \A y \in 0 .. ChunkSize - 1 : (n + 1 + y + LenLen) % ChunkSize = 0 => y = z
  <2> SUFFICES ASSUME NEW y \in 0 .. ChunkSize - 1, (n + 1 + y + LenLen) % ChunkSize = 0
               PROVE  y = z
    OBVIOUS
  <2> DEFINE a == n + 1 + y + LenLen
             b == n + 1 + z + LenLen
             p == a \div ChunkSize
             q == b \div ChunkSize
  <2>1. a \in Int /\ b \in Int /\ a - b = y - z /\ a % ChunkSize = 0 /\ b % ChunkSize = 0
    BY <1>1
  <2> HIDE DEF a, b
  <2>2. a \in Int /\ b \in Int
    BY <2>1
  <2>3. a = ChunkSize * p + (a % ChunkSize) /\ p \in Int
    BY <1>1, <2>2, Divided
  <2>4. b = ChunkSize * q + (b % ChunkSize) /\ q \in Int
    BY <1>1, <2>2, Divided
  <2> HIDE DEF p, q
  <2>5. a = ChunkSize * p /\ b = ChunkSize * q
    BY <1>1, <2>1, <2>3, <2>4
  <2>6. y - z = ChunkSize * (p - q) /\ p - q \in Int
    BY <1>1, <2>1, <2>3, <2>4, <2>5
  <2>7. p - q > -1 /\ p - q < 1
    BY <1>1, <2>6
  <2>8. p - q = 0
    BY <2>6, <2>7
  <2> QED BY <1>1, <2>6, <2>8
<1> QED BY <1>2 DEF Sha256!Padding

(* pos[7] = len << 3 and the bytes shifted out of len are the digits of 8 * len. *)
LEMMA LengthIsDigits == ASSUME total \in Nat PROVE Sha256!LengthBytes = Sha256!Digits(8 * total)
<1>1. ASSUME NEW k \in 1 .. LenLen
      PROVE  (IF k = LenLen THEN (total * 8) % Base
              ELSE ((total \div (Base \div 8)) \div Base ^ (LenLen - 1 - k)) % Base)
               = ((8 * total) \div Base ^ (LenLen - k)) % Base
  <2>1. CASE k = LenLen
    <3>1. Base ^ (LenLen - k) = 1
      <4>1. LenLen - k = 0
        BY <2>1, ShaNumbers
      <4> QED BY <4>1, ShaNumbers DEF Sha256!PowersOf
    <3>2. (8 * total) \div 1 = total * 8
      OBVIOUS
    <3> QED BY <2>1, <3>1, <3>2
  <2>2. CASE k # LenLen
    <3> DEFINE n == LenLen - 1 - k
               power == Base ^ n
               q == Base \div 8
    <3>1. n \in 0 .. LenLen - 1 /\ n + 1 = LenLen - k
      BY <1>1, <2>2, ShaNumbers
    <3>2. power \in Nat \ {0} /\ Base ^ (n + 1) = Base * power
      BY <3>1, ShaNumbers DEF Sha256!PowersOf
    <3>3. q \in Nat \ {0} /\ Base = 8 * q
      BY ShaNumbers
    <3> HIDE DEF power, q
    <3>4. Base * power = 8 * (q * power) /\ q * power \in Nat \ {0}
      BY <3>2, <3>3
    <3>5. (8 * total) \div (8 * (q * power)) = total \div (q * power)
      BY <3>4, EightCancels
    <3>6. total \div (q * power) = (total \div q) \div power
      BY <3>2, <3>3, DividedTwice
    <3>7. (8 * total) \div Base ^ (LenLen - k) = (total \div q) \div power
      BY <3>1, <3>2, <3>4, <3>5, <3>6
    <3> QED BY <2>2, <3>7 DEF power, q
  <2> QED BY <2>1, <2>2
<1> QED BY <1>1 DEF Sha256!LengthBytes, Sha256!Digits

LEMMA DigitsAre ==
  ASSUME total \in Nat
  PROVE  Sha256!Digits(8 * total) \in Seq(ShaByte) /\ Len(Sha256!Digits(8 * total)) = LenLen
<1>1. \A k \in 1 .. LenLen : ((8 * total) \div Base ^ (LenLen - k)) % Base \in 0 .. Base - 1
  <2> SUFFICES ASSUME NEW k \in 1 .. LenLen
               PROVE  ((8 * total) \div Base ^ (LenLen - k)) % Base \in 0 .. Base - 1
    OBVIOUS
  <2>1. Base ^ (LenLen - k) \in Nat \ {0}
    <3>1. LenLen - k \in 0 .. LenLen - 1
      BY ShaNumbers
    <3> QED BY <3>1, ShaNumbers DEF Sha256!PowersOf
  <2> DEFINE power == Base ^ (LenLen - k)
  <2> HIDE DEF power
  <2>2. power \in Nat \ {0} /\ 8 * total \in Nat
    BY <2>1 DEF power
  <2>3. (8 * total) \div power \in Int
    BY <2>2, Divided
  <2>4. ((8 * total) \div power) % Base \in 0 .. Base - 1
    BY <2>3, ShaNumbers
  <2> QED BY <2>4 DEF power
<1>2. Sha256!Digits(8 * total) \in [1 .. LenLen -> ShaByte]
  BY <1>1, OtherIsByte DEF Sha256!Digits
<1> QED BY <1>2, SeqOf, ShaNumbers

(* The message, the one bit and z zeros, and then the length. *)
LEMMA PaddedMessage ==
  ASSUME hash \in {1, 2}, total \in Nat, total <= MaxTotal, NEW z \in Nat
  PROVE  LET padded == Sha256!Message \o <<One>> \o Sha256!Zeros(z) \o Sha256!Digits(8 * total)
         IN  /\ padded \in Seq(ShaByte) /\ Len(padded) = total + 1 + z + LenLen
             /\ \A i \in 1 .. total + 1 + z : padded[i] = PaddedByte(i)
             /\ \A k \in 1 .. LenLen : padded[total + 1 + z + k] = Sha256!Digits(8 * total)[k]
<1> DEFINE a == Sha256!Message
           b == a \o <<One>>
           c == b \o Sha256!Zeros(z)
           digits == Sha256!Digits(8 * total)
           padded == c \o digits
<1>1. /\ a \in Seq(ShaByte) /\ Len(a) = total
      /\ \A i \in 1 .. total : a[i] = DataByte(i)
  <2>1. \A i \in 1 .. total : 0 + i = i
    OBVIOUS
  <2>2. MaxTotal \in Nat
    BY ShaNumbers
  <2>3. 0 + total <= MaxTotal /\ 0 \in Nat
    BY <2>2
  <2>4. /\ Sha256!Piece(0, total) \in Seq(ShaByte) /\ Len(Sha256!Piece(0, total)) = total
        /\ \A i \in 1 .. total : Sha256!Piece(0, total)[i] = DataByte(0 + i)
    BY <2>3, PieceIs
  <2> QED BY <2>1, <2>4 DEF Sha256!Message
<1>2. <<One>> \in Seq(ShaByte) /\ Len(<<One>>) = 1 /\ <<One>>[1] = One
  <2>1. One \in ShaByte
    BY OtherIsByte, ShaNumbers DEF One
  <2> QED BY <2>1
<1> HIDE DEF a
<1>3. /\ b \in Seq(ShaByte) /\ Len(b) = total + 1
      /\ \A i \in 1 .. total : b[i] = DataByte(i)
      /\ b[total + 1] = One
  <2>1. /\ b \in Seq(ShaByte) /\ Len(b) = total + 1
        /\ \A i \in 1 .. total + 1 : b[i] = IF i <= total THEN a[i] ELSE <<One>>[i - total]
    BY <1>1, <1>2, ConcatProperties
  <2> QED BY <1>1, <1>2, <2>1
<1> HIDE DEF b
<1>4. /\ Sha256!Zeros(z) \in Seq(ShaByte) /\ Len(Sha256!Zeros(z)) = z
      /\ \A k \in 1 .. z : Sha256!Zeros(z)[k] = Sha256!Other(0)
  BY ZerosAre
<1>5. /\ c \in Seq(ShaByte) /\ Len(c) = total + 1 + z
      /\ \A i \in 1 .. total + 1 + z : c[i] = PaddedByte(i)
  <2>1. /\ c \in Seq(ShaByte) /\ Len(c) = total + 1 + z
        /\ \A i \in 1 .. total + 1 + z :
             c[i] = IF i <= total + 1 THEN b[i] ELSE Sha256!Zeros(z)[i - (total + 1)]
    <3> DEFINE n == total + 1
               zeros == Sha256!Zeros(z)
    <3>1. n \in Nat
      OBVIOUS
    <3>2. b \in Seq(ShaByte) /\ Len(b) = n /\ zeros \in Seq(ShaByte) /\ Len(zeros) = z
      BY <1>3, <1>4
    <3>3. c = b \o zeros
      OBVIOUS
    <3> HIDE DEF n, zeros
    <3>4. /\ b \o zeros \in Seq(ShaByte) /\ Len(b \o zeros) = Len(b) + Len(zeros)
          /\ \A i \in 1 .. Len(b) + Len(zeros) :
               (b \o zeros)[i] = IF i <= Len(b) THEN b[i] ELSE zeros[i - Len(b)]
      <4>1. b \in Seq(ShaByte) /\ zeros \in Seq(ShaByte)
        BY <3>2
      <4> QED BY <4>1, ConcatProperties
    <3>5. /\ b \o zeros \in Seq(ShaByte) /\ Len(b \o zeros) = n + z
          /\ \A i \in 1 .. n + z : (b \o zeros)[i] = IF i <= n THEN b[i] ELSE zeros[i - n]
      BY <3>2, <3>4
    <3> QED BY <3>3, <3>5 DEF n, zeros
  <2>2. ASSUME NEW i \in 1 .. total + 1 + z PROVE c[i] = PaddedByte(i)
    <3>1. CASE i <= total
      BY <1>3, <2>1, <3>1 DEF PaddedByte
    <3>2. CASE i = total + 1
      BY <1>3, <2>1, <3>2 DEF PaddedByte
    <3>3. CASE i > total + 1
      <4>1. i - (total + 1) \in 1 .. z
        BY <3>3
      <4> QED BY <1>4, <2>1, <3>3, <4>1 DEF PaddedByte
    <3>4. i \in Int /\ (i <= total \/ i = total + 1 \/ i > total + 1)
      OBVIOUS
    <3> QED BY <3>1, <3>2, <3>3, <3>4
  <2> QED BY <2>1, <2>2
<1> HIDE DEF c
<1>6. digits \in Seq(ShaByte) /\ Len(digits) = LenLen /\ LenLen \in Nat
  BY DigitsAre, ShaNumbers
<1> HIDE DEF digits
<1>7. /\ padded \in Seq(ShaByte) /\ Len(padded) = total + 1 + z + LenLen
      /\ \A i \in 1 .. total + 1 + z + LenLen :
           padded[i] = IF i <= total + 1 + z THEN c[i] ELSE digits[i - (total + 1 + z)]
  <2> DEFINE n == total + 1 + z
  <2>1. n \in Nat /\ Len(c) = n
    BY <1>5
  <2> HIDE DEF n
  <2>2. /\ padded \in Seq(ShaByte) /\ Len(padded) = Len(c) + Len(digits)
        /\ \A i \in 1 .. Len(c) + Len(digits) :
             padded[i] = IF i <= Len(c) THEN c[i] ELSE digits[i - Len(c)]
    <3>1. c \in Seq(ShaByte) /\ digits \in Seq(ShaByte)
      BY <1>5, <1>6
    <3> QED BY <3>1, ConcatProperties
  <2> HIDE DEF padded
  <2>3. /\ padded \in Seq(ShaByte) /\ Len(padded) = n + LenLen
        /\ \A i \in 1 .. n + LenLen : padded[i] = IF i <= n THEN c[i] ELSE digits[i - n]
    BY <1>6, <2>1, <2>2
  <2> QED BY <2>3 DEF n
<1>8. \A i \in 1 .. total + 1 + z : padded[i] = PaddedByte(i)
  BY <1>5, <1>6, <1>7
<1>9. \A k \in 1 .. LenLen : padded[total + 1 + z + k] = digits[k]
  <2> SUFFICES ASSUME NEW k \in 1 .. LenLen PROVE padded[total + 1 + z + k] = digits[k]
    OBVIOUS
  <2> DEFINE i == total + 1 + z + k
  <2>1. i \in 1 .. total + 1 + z + LenLen /\ ~(i <= total + 1 + z) /\ i - (total + 1 + z) = k
    BY <1>6
  <2> HIDE DEF i
  <2>2. padded[i] = digits[k]
    BY <1>7, <2>1
  <2> QED BY <2>2 DEF i
<1> QED BY <1>7, <1>8, <1>9 DEF padded, c, b, a, digits

LEMMA PadLengthStep == ASSUME ShaInv, Sha256!PadLength PROVE ShaInv'
<1> USE DEF ShaInv
<1> DEFINE zeros == spaceLeft - LenLen
           digits == Sha256!Digits(8 * total)
           end == Sha256!Zeros(zeros) \o digits
           filled == Sha256!Put(chunk, Filled, end)
           h == Len(hashed)
           z == h + ChunkSize - (total + 1 + LenLen)
<1>1. /\ hash \in {1, 2} /\ total \in Nat /\ total <= MaxTotal /\ MaxTotal \in Nat
      /\ ChunkSize \in Nat /\ ChunkSize > LenLen /\ LenLen \in Nat /\ LenLen > 0
      /\ spaceLeft \in Nat /\ spaceLeft <= ChunkSize /\ Filled = ChunkSize - spaceLeft
      /\ Filled \in 0 .. ChunkSize /\ h \in Nat /\ spaceLeft >= LenLen /\ PaddedSoFar
      /\ chunk \in [1 .. ChunkSize -> ShaByte] /\ hashed \in Seq(ShaByte)
      /\ h + Filled \in total + 1 .. total + LenLen
  BY ShaTypes, ShaNumbers DEF Sha256!PadLength, PaddedSoFar
<1>2. chunk' = filled /\ hashed' = hashed \o filled /\ shaPc' = "closed"
      /\ UNCHANGED <<hash, total, left, spaceLeft>>
  BY <1>1, LengthIsDigits DEF Sha256!PadLength, Filled
<1>3. zeros \in Nat /\ zeros + LenLen = spaceLeft
  BY <1>1
<1>4. /\ Sha256!Zeros(zeros) \in Seq(ShaByte) /\ Len(Sha256!Zeros(zeros)) = zeros
      /\ \A k \in 1 .. zeros : Sha256!Zeros(zeros)[k] = Sha256!Other(0)
  BY <1>3, ZerosAre
<1>5. digits \in Seq(ShaByte) /\ Len(digits) = LenLen
  BY <1>1, DigitsAre
<1> HIDE DEF digits, zeros
<1>6. /\ end \in Seq(ShaByte) /\ Len(end) = spaceLeft
      /\ \A k \in 1 .. spaceLeft :
           end[k] = IF k <= zeros THEN Sha256!Other(0) ELSE digits[k - zeros]
  <2>1. /\ end \in Seq(ShaByte) /\ Len(end) = zeros + LenLen
        /\ \A k \in 1 .. zeros + LenLen :
             end[k] = IF k <= zeros THEN Sha256!Zeros(zeros)[k] ELSE digits[k - zeros]
    <3> DEFINE none == Sha256!Zeros(zeros)
    <3>1. none \in Seq(ShaByte) /\ digits \in Seq(ShaByte) /\ Len(none) = zeros /\ Len(digits) = LenLen
      BY <1>4, <1>5
    <3> HIDE DEF none
    <3>2. /\ none \o digits \in Seq(ShaByte) /\ Len(none \o digits) = Len(none) + Len(digits)
          /\ \A k \in 1 .. Len(none) + Len(digits) :
               (none \o digits)[k] = IF k <= Len(none) THEN none[k] ELSE digits[k - Len(none)]
      BY <3>1, ConcatProperties
    <3>3. /\ none \o digits \in Seq(ShaByte) /\ Len(none \o digits) = zeros + LenLen
          /\ \A k \in 1 .. zeros + LenLen :
               (none \o digits)[k] = IF k <= zeros THEN none[k] ELSE digits[k - zeros]
      BY <3>1, <3>2
    <3> QED BY <3>3 DEF none
  <2> QED BY <1>1, <1>3, <1>4, <2>1
<1> HIDE DEF end
<1>7. /\ filled \in [1 .. ChunkSize -> ShaByte]
      /\ \A k \in 1 .. Filled : filled[k] = chunk[k]
      /\ \A k \in 1 .. spaceLeft : filled[Filled + k] = end[k]
  <2>1. Len(end) \in Nat /\ Filled + Len(end) <= ChunkSize /\ end \in Seq(ShaByte)
    BY <1>1, <1>6
  <2>2. /\ filled \in [1 .. ChunkSize -> ShaByte]
        /\ \A k \in 1 .. Filled : filled[k] = chunk[k]
        /\ \A k \in 1 .. Len(end) : filled[Filled + k] = end[k]
    BY <1>1, <2>1, PutIs
  <2> QED BY <1>6, <2>2
<1> HIDE DEF filled
<1>8. /\ hashed' \in Seq(ShaByte) /\ Len(hashed') = h + ChunkSize
      /\ \A i \in 1 .. h : hashed'[i] = hashed[i]
      /\ \A j \in 1 .. ChunkSize : hashed'[h + j] = filled[j]
      /\ \A i \in 1 .. Len(hashed') : i \in 1 .. h \/ \E j \in 1 .. ChunkSize : i = h + j
      /\ WholeChunks'
  BY <1>1, <1>2, <1>7, Consumed
<1>9. /\ \A i \in 1 .. h : hashed[i] = PaddedByte(i)
      /\ \A j \in 1 .. Filled : chunk[j] = PaddedByte(h + j)
  BY <1>1 DEF PaddedSoFar
<1> HIDE DEF h
<1>10. z \in 0 .. ChunkSize - 1 /\ total + 1 + z + LenLen = h + ChunkSize
       /\ total + 1 + z = h + Filled + zeros
  BY <1>1, <1>3
<1> HIDE DEF z
<1>11. \A j \in 1 .. Filled + zeros : filled[j] = PaddedByte(h + j)
  <2> SUFFICES ASSUME NEW j \in 1 .. Filled + zeros PROVE filled[j] = PaddedByte(h + j)
    OBVIOUS
  <2>1. CASE j <= Filled
    BY <1>1, <1>7, <1>9, <2>1
  <2>2. CASE j > Filled
    <3> DEFINE k == j - Filled
    <3>1. k \in 1 .. zeros /\ k \in 1 .. spaceLeft /\ j = Filled + k
      BY <1>1, <1>3, <2>2
    <3>2. h + j > total + 1
      BY <1>1, <2>2
    <3>3. filled[j] = Sha256!Other(0)
      BY <1>6, <1>7, <3>1
    <3> HIDE DEF k
    <3> QED BY <1>1, <1>3, <3>2, <3>3 DEF PaddedByte
  <2> QED BY <1>1, <1>3, <2>1, <2>2
<1>12. \A k \in 1 .. LenLen : filled[Filled + zeros + k] = digits[k]
  <2> SUFFICES ASSUME NEW k \in 1 .. LenLen PROVE filled[Filled + zeros + k] = digits[k]
    OBVIOUS
  <2>1. zeros + k \in 1 .. spaceLeft /\ ~(zeros + k <= zeros) /\ (zeros + k) - zeros = k
    BY <1>1, <1>3
  <2>2. filled[Filled + (zeros + k)] = digits[k]
    BY <1>6, <1>7, <2>1
  <2>3. Filled + (zeros + k) = Filled + zeros + k
    BY <1>1, <1>3
  <2> QED BY <2>2, <2>3
<1> DEFINE padded == Sha256!Message \o <<One>> \o Sha256!Zeros(z) \o Sha256!Digits(8 * total)
<1>13. /\ padded \in Seq(ShaByte) /\ Len(padded) = total + 1 + z + LenLen
       /\ \A i \in 1 .. total + 1 + z : padded[i] = PaddedByte(i)
       /\ \A k \in 1 .. LenLen : padded[total + 1 + z + k] = digits[k]
  <2>1. z \in Nat
    BY <1>10
  <2> QED BY <1>1, <2>1, PaddedMessage DEF digits
<1> HIDE DEF padded
<1>14. \A i \in 1 .. Len(hashed') : hashed'[i] = padded[i]
  <2> SUFFICES ASSUME NEW i \in 1 .. h + ChunkSize PROVE hashed'[i] = padded[i]
    BY <1>8
  <2>1. CASE i <= h
    <3>1. i \in 1 .. h /\ i \in 1 .. total + 1 + z
      BY <1>1, <1>3, <1>10, <2>1
    <3> QED BY <1>8, <1>9, <1>13, <3>1
  <2>2. CASE i > h /\ i <= total + 1 + z
    <3> DEFINE j == i - h
    <3>1. j \in 1 .. ChunkSize /\ j \in 1 .. Filled + zeros /\ i = h + j /\ i \in 1 .. total + 1 + z
      BY <1>1, <1>3, <1>10, <2>2
    <3> HIDE DEF j
    <3> QED BY <1>8, <1>11, <1>13, <3>1
  <2>3. CASE i > total + 1 + z
    <3> DEFINE k == i - (total + 1 + z)
    <3>1. k \in 1 .. LenLen /\ i = total + 1 + z + k /\ Filled + zeros + k \in 1 .. ChunkSize
          /\ i = h + (Filled + zeros + k)
      BY <1>1, <1>3, <1>10, <2>3
    <3> HIDE DEF k
    <3>2. hashed'[i] = filled[Filled + zeros + k]
      BY <1>8, <3>1
    <3>3. padded[i] = digits[k]
      BY <1>13, <3>1
    <3> QED BY <1>12, <3>1, <3>2, <3>3
  <2>4. i <= h \/ (i > h /\ i <= total + 1 + z) \/ i > total + 1 + z
    BY <1>1, <1>10
  <2> QED BY <2>1, <2>2, <2>3, <2>4
<1>15. hashed' = padded
  <2>1. Len(hashed') = Len(padded)
    BY <1>8, <1>10, <1>13
  <2> QED BY <1>8, <1>13, <1>14, <2>1, SeqEqual
<1>16. Sha256!Padding(total) = z
  <2>1. PICK n \in Nat : h = n * ChunkSize
    BY DEF WholeChunks, h
  <2>2. total + 1 + z + LenLen = (n + 1) * ChunkSize /\ n + 1 \in Int
    BY <1>1, <1>10, <2>1
  <2>3. (total + 1 + z + LenLen) % ChunkSize = 0
    BY <1>1, <2>2, MultipleOf
  <2> QED BY <1>1, <1>10, <2>3, PaddingIs
<1>17. Sha256!HashedIsPadded'
  <2>1. hashed' = Sha256!Message \o <<One>> \o Sha256!Zeros(Sha256!Padding(total)) \o Sha256!Digits(8 * total)
    BY <1>15, <1>16 DEF padded
  <2> QED BY <1>2, <2>1 DEF Sha256!HashedIsPadded, Sha256!Message, Sha256!Piece, Sha256!Data, One
<1>18. Sha256!TypeOK'
  BY <1>1, <1>2, <1>7, <1>8 DEF Sha256!TypeOK, ShaByte
<1> QED BY <1>2, <1>8, <1>17, <1>18

LEMMA ShaNext == ASSUME ShaInv, [Sha256!Next]_sha256Vars PROVE ShaInv'
<1>1. CASE UNCHANGED sha256Vars
  BY <1>1 DEF sha256Vars, ShaInv, Sha256!TypeOK, WholeChunks, SoFar, PaddedSoFar, PaddedByte, DataByte,
    Sha256!Data, Filled, Sha256!Filled, Sha256!HashedIsPadded, Sha256!Message, Sha256!Piece
<1> QED BY <1>1, ShaInitStep, WriteStep, WriteDirectStep, WriteBufferedStep, WriteEndStep, PadOneStep,
      PadLengthStep DEF Sha256!Next

LEMMA InvHashes == ShaInv => HashesPaddedMessage
<1> SUFFICES ASSUME ShaInv, shaPc \in {"open", "write"} PROVE Sha256!MessageSoFar
  BY DEF ShaInv, HashesPaddedMessage, Sha256!ChunkNotFull, Sha256!MessageSoFar
<1> DEFINE start == SubSeq(chunk, 1, Filled)
           h == Len(hashed)
           piece == Sha256!Piece(0, total - left)
<1>1. /\ hash \in {1, 2} /\ total - left \in Nat /\ total - left <= MaxTotal /\ MaxTotal \in Nat
      /\ ChunkSize \in Nat /\ Filled \in 0 .. ChunkSize /\ h \in Nat
      /\ chunk \in [1 .. ChunkSize -> ShaByte] /\ hashed \in Seq(ShaByte) /\ SoFar
  BY ShaTypes DEF ShaInv
<1>2. /\ start \in Seq(ShaByte) /\ Len(start) = Filled
      /\ \A j \in 1 .. Filled : start[j] = chunk[j]
  <2>1. \A j \in 1 .. Filled : chunk[j] \in ShaByte
    BY <1>1
  <2> QED BY <1>1, <2>1, SubSeqProperties
<1>3. /\ piece \in Seq(ShaByte) /\ Len(piece) = total - left
      /\ \A k \in 1 .. total - left : piece[k] = DataByte(k)
  <2>1. /\ piece \in Seq(ShaByte) /\ Len(piece) = total - left
        /\ \A k \in 1 .. total - left : piece[k] = DataByte(0 + k)
    <3>1. 0 \in Nat /\ 0 + (total - left) <= MaxTotal
      BY <1>1
    <3> QED BY <1>1, <3>1, PieceIs
  <2>2. \A k \in 1 .. total - left : 0 + k = k
    OBVIOUS
  <2> QED BY <2>1, <2>2
<1> HIDE DEF start, piece
<1>4. /\ h + Filled = total - left
      /\ \A i \in 1 .. h : hashed[i] = DataByte(i)
      /\ \A j \in 1 .. Filled : chunk[j] = DataByte(h + j)
  BY <1>1 DEF SoFar
<1>5. /\ hashed \o start \in Seq(ShaByte) /\ Len(hashed \o start) = h + Filled
      /\ \A i \in 1 .. h + Filled : (hashed \o start)[i] = IF i <= h THEN hashed[i] ELSE start[i - h]
  BY <1>1, <1>2, ConcatProperties
<1> HIDE DEF h
<1>6. \A i \in 1 .. h + Filled : (hashed \o start)[i] = DataByte(i)
  <2> SUFFICES ASSUME NEW i \in 1 .. h + Filled PROVE (hashed \o start)[i] = DataByte(i)
    OBVIOUS
  <2>1. CASE i <= h
    BY <1>1, <1>4, <1>5, <2>1
  <2>2. CASE i > h
    <3>1. i - h \in 1 .. Filled /\ h + (i - h) = i
      BY <1>1, <2>2
    <3> QED BY <1>2, <1>4, <1>5, <2>2, <3>1
  <2>3. i <= h \/ i > h
    BY <1>1
  <2> QED BY <2>1, <2>2, <2>3
<1>7. hashed \o start = piece
  <2>1. Len(hashed \o start) = Len(piece)
    BY <1>3, <1>4, <1>5
  <2>2. \A i \in 1 .. Len(hashed \o start) : (hashed \o start)[i] = piece[i]
    BY <1>3, <1>4, <1>5, <1>6
  <2> QED BY <1>3, <1>5, <2>1, <2>2, SeqEqual
<1> QED BY <1>7 DEF Sha256!MessageSoFar, start, piece, Filled

(***************************************************************************)
(* For every size of a chunk, of its length field and of a byte, and       *)
(* however a message is cut into calls, what the compression function is   *)
(* given is the message padded as the standard says, and no call finds the *)
(* chunk full.                                                             *)
(***************************************************************************)
THEOREM HashCorrect == PartsSpec => []HashesPaddedMessage
<1>1. PartsInit => ShaInv
  BY ShaInitial DEF PartsInit
<1>2. ShaInv /\ [PartsNext]_partsVars => ShaInv'
  BY ShaNext DEF PartsNext, partsVars, BesideTx, BesideStream, BesideTimers, BesideTelnet, BesideMeter
<1> QED BY <1>1, <1>2, InvHashes, PTL DEF PartsSpec
=============================================================================
