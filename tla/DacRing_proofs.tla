--------------------------- MODULE DacRing_proofs ---------------------------
(***************************************************************************)
(* Proofs about the sample ring, for every ring size N, every set of       *)
(* packets and every sample set.                                           *)
(***************************************************************************)
EXTENDS DacRing, TLAPS, SequenceTheorems

(***************************************************************************)
(* The inductive invariant: the indices lie in the ring and the frames not *)
(* yet passed lie inside the level the indices show.                       *)
(***************************************************************************)
RingInv == TypeOK /\ FreshWithinLevel

(***************************************************************************)
(* FramesOf yields whole frames: the loop of addData never reads a short   *)
(* beyond the packet it was given (dac.cpp 119, 124, 136-137).             *)
(***************************************************************************)
LEMMA FramesOfType ==
  ASSUME NEW packet \in Seq(Samples)
  PROVE  FramesOf(packet) \in Seq(Samples \X Samples)
<1>1. Len(packet) \in Nat
  OBVIOUS
<1>2. FrameCount(packet) \in Nat /\ 2 * FrameCount(packet) =< Len(packet)
  <2>1. /\ Len(packet) \div 2 \in Nat
        /\ 2 * (Len(packet) \div 2) =< Len(packet)
    BY <1>1
  <2>2. CASE Len(packet) \div 2 = 0
    BY <2>1, <2>2, <1>1 DEF FrameCount
  <2>3. CASE Len(packet) \div 2 > 0
    BY <2>1, <2>3, <1>1 DEF FrameCount
  <2>. QED  BY <2>1, <2>2, <2>3
<1>3. ASSUME NEW j \in 1 .. FrameCount(packet)
      PROVE  <<packet[2 * j - 1], packet[2 * j]>> \in Samples \X Samples
  <2>1. 2 * j - 1 \in 1 .. Len(packet) /\ 2 * j \in 1 .. Len(packet)
    BY <1>1, <1>2
  <2>. QED  BY <2>1
<1>. QED  BY <1>2, <1>3 DEF FramesOf

(***************************************************************************)
(* Storing no more frames than there is room for keeps the invariant.      *)
(***************************************************************************)
LEMMA StoreKeepsInv ==
  ASSUME RingInv,
         NEW frames \in Seq(Samples \X Samples),
         NEW count \in 0 .. Len(frames), count =< Room,
         Store(frames, count),
         counterOverflow' \in 0 .. MaxOverflow
  PROVE  RingInv'
<1>. USE RingAssumption DEF RingInv, TypeOK, Slots
<1>1. /\ bufferLevel \in 0 .. N - 1
      /\ bufferLevel' = bufferLevel + count
      /\ inputIndex' \in Slots
  BY DEF Store, Room, bufferLevel, Level, Wrap
<1>2. ASSUME NEW s \in Slots, Ahead(s) < count
      PROVE  /\ frames[Ahead(s) + 1][1] \in Samples
             /\ frames[Ahead(s) + 1][2] \in Samples
  <2>1. Ahead(s) + 1 \in 1 .. Len(frames)
    BY <1>2 DEF Ahead
  <2>2. frames[Ahead(s) + 1] \in Samples \X Samples
    BY <2>1
  <2>. QED  BY <2>2
<1>3. channelA' \in [Slots -> Samples] /\ channelB' \in [Slots -> Samples]
  BY <1>2 DEF Store
<1>4. fresh' \in 0 .. N - 1 /\ fresh' =< bufferLevel'
  BY <1>1 DEF Store, Room, FreshWithinLevel
<1>5. lastBufferLevel' \in 0 .. N - 1 /\ outputIndex' = outputIndex
  BY <1>1, <1>4 DEF Store, bufferLevel, Room
<1>. QED  BY <1>1, <1>3, <1>4, <1>5 DEF FreshWithinLevel

LEMMA InitInv == Init => RingInv
  BY RingAssumption DEF Init, RingInv, TypeOK, FreshWithinLevel, Slots,
     bufferLevel, Level

LEMMA NextInv == RingInv /\ [Next]_vars => RingInv'
<1>. SUFFICES ASSUME RingInv, [Next]_vars PROVE RingInv'
  OBVIOUS
<1>1. ASSUME NEW packet \in Packets, AddData(packet) PROVE RingInv'
  <2>1. FramesOf(packet) \in Seq(Samples \X Samples)
    BY FramesOfType, RingAssumption
  <2>2. Len(FramesOf(packet)) \in Nat
    BY <2>1
  <2>3. Room \in Nat
    BY RingAssumption DEF RingInv, TypeOK, Room, bufferLevel, Level, Slots
  <2>4. CASE StoreAll(FramesOf(packet))
    BY <2>1, <2>2, <2>4, StoreKeepsInv DEF StoreAll, RingInv, TypeOK
  <2>5. CASE StoreHead(FramesOf(packet))
    <3>1. counterOverflow' \in 0 .. MaxOverflow
      BY <2>5, RingAssumption DEF StoreHead, RingInv, TypeOK
    <3>2. Room \in 0 .. Len(FramesOf(packet)) /\ Room =< Room
      BY <2>2, <2>3, <2>5 DEF StoreHead
    <3>. QED  BY <2>1, <2>5, <3>1, <3>2, StoreKeepsInv DEF StoreHead
  <2>. QED  BY <1>1, <2>4, <2>5 DEF AddData
<1>2. CASE AdvanceOutput
  BY <1>2, RingAssumption DEF AdvanceOutput, RingInv, TypeOK, FreshWithinLevel,
     Slots, bufferLevel, Level
<1>3. CASE UNCHANGED vars
  BY <1>3 DEF vars, RingInv, TypeOK, FreshWithinLevel, bufferLevel, Slots
<1>. QED  BY <1>1, <1>2, <1>3 DEF Next

(***************************************************************************)
(* The invariant holds throughout: indices, arrays and counters stay in    *)
(* range, and no frame still to be passed is outside the level addData     *)
(* computes (dac.cpp 126-140, 300-304, 345-358).                           *)
(***************************************************************************)
THEOREM RingCorrect == SafeSpec => [](TypeOK /\ FreshWithinLevel)
<1>1. SafeSpec => []RingInv
  BY InitInv, NextInv, PTL DEF SafeSpec
<1>. QED  BY <1>1, PTL DEF RingInv

(***************************************************************************)
(* Where a step of addData leaves the slots: those holding frames not yet  *)
(* passed are not written, and move no nearer to the reader.               *)
(***************************************************************************)
LEMMA StoreKeepsFresh ==
  ASSUME RingInv,
         NEW frames \in Seq(Samples \X Samples),
         NEW count \in 0 .. Len(frames), count =< Room,
         Store(frames, count),
         NEW s \in FreshSlots
  PROVE  /\ s \in FreshSlots'
         /\ channelA'[s] = channelA[s]
         /\ channelB'[s] = channelB[s]
<1>. USE RingAssumption DEF RingInv, TypeOK, Slots
<1>1. s \in Slots /\ Behind(s) =< fresh
  BY DEF FreshSlots
<1>2. count \in Nat /\ count + fresh =< N - 1
  BY DEF Room, FreshWithinLevel, bufferLevel, Level
<1>3. ~(Ahead(s) < count)
  BY <1>1, <1>2 DEF Ahead, Behind
<1>4. Behind(s)' = Behind(s) + count
  BY <1>1, <1>2 DEF Behind, Store, Wrap
<1>5. Behind(s)' =< fresh'
  BY <1>1, <1>2, <1>4 DEF Store, Behind
<1>. QED  BY <1>1, <1>3, <1>5 DEF Store, FreshSlots

(* The reader moves off exactly the slot it passes. *)
LEMMA AdvanceKeepsFresh ==
  ASSUME RingInv, AdvanceOutput, NEW s \in FreshSlots
  PROVE  IF s \in FreshSlots'
           THEN channelA'[s] = channelA[s] /\ channelB'[s] = channelB[s]
           ELSE s = outputIndex /\ outputIndex' # outputIndex
<1>. USE RingAssumption DEF RingInv, TypeOK, Slots
<1>1. s \in Slots /\ Behind(s) =< fresh /\ Behind(s)' = Behind(s)
  BY DEF FreshSlots, AdvanceOutput, Behind
<1>2. CASE s \in FreshSlots'
  BY <1>2 DEF AdvanceOutput
<1>3. CASE s \notin FreshSlots'
  <2>1. Behind(s) > fresh'
    BY <1>1, <1>3 DEF FreshSlots, AdvanceOutput, Behind
  <2>2. fresh = bufferLevel /\ Behind(s) = fresh
    BY <1>1, <2>1 DEF AdvanceOutput, Behind
  <2>3. s = outputIndex
    BY <1>1, <2>2 DEF Behind, bufferLevel, Level
  <2>. QED  BY <1>1, <1>3, <2>2, <2>3
            DEF AdvanceOutput, bufferLevel, Level, Behind
<1>. QED  BY <1>2, <1>3

(* A step of addData, seen as a Store of as many frames as fit. *)
LEMMA AddDataStores ==
  ASSUME RingInv, NEW packet \in Packets, AddData(packet)
  PROVE  /\ FramesOf(packet) \in Seq(Samples \X Samples)
         /\ \E count \in 0 .. Len(FramesOf(packet)) :
               /\ count =< Room
               /\ Store(FramesOf(packet), count)
<1>1. FramesOf(packet) \in Seq(Samples \X Samples)
  BY FramesOfType, RingAssumption
<1>2. Len(FramesOf(packet)) \in Nat /\ Room \in Nat
  BY <1>1, RingAssumption DEF RingInv, TypeOK, Room, bufferLevel, Level, Slots
<1>3. CASE StoreAll(FramesOf(packet))
  BY <1>1, <1>2, <1>3 DEF StoreAll
<1>4. CASE StoreHead(FramesOf(packet))
  BY <1>1, <1>2, <1>4 DEF StoreHead
<1>. QED  BY <1>1, <1>3, <1>4 DEF AddData

(***************************************************************************)
(* No packet overwrites a frame that was accepted and not passed yet, and  *)
(* such a frame is given up only by the reader passing its slot.           *)
(***************************************************************************)
THEOREM FreshKept == SafeSpec => FreshSlotsKept
<1>1. ASSUME RingInv, [Next]_vars
      PROVE  [\A s \in FreshSlots :
                 IF s \in FreshSlots'
                   THEN channelA'[s] = channelA[s] /\ channelB'[s] = channelB[s]
                   ELSE s = outputIndex /\ outputIndex' # outputIndex]_vars
  <2>1. ASSUME NEW s \in FreshSlots, NEW packet \in Packets, AddData(packet)
        PROVE  /\ s \in FreshSlots'
               /\ channelA'[s] = channelA[s]
               /\ channelB'[s] = channelB[s]
    <3>1. PICK count \in 0 .. Len(FramesOf(packet)) :
                 count =< Room /\ Store(FramesOf(packet), count)
      BY <1>1, <2>1, AddDataStores
    <3>. QED  BY <1>1, <2>1, <3>1, AddDataStores, StoreKeepsFresh
  <2>2. ASSUME NEW s \in FreshSlots, AdvanceOutput
        PROVE  IF s \in FreshSlots'
                 THEN channelA'[s] = channelA[s] /\ channelB'[s] = channelB[s]
                 ELSE s = outputIndex /\ outputIndex' # outputIndex
    BY <1>1, <2>2, AdvanceKeepsFresh
  <2>. QED  BY <1>1, <2>1, <2>2 DEF Next
<1>2. SafeSpec => []RingInv
  BY InitInv, NextInv, PTL DEF SafeSpec
<1>. QED  BY <1>1, <1>2, PTL DEF SafeSpec, FreshSlotsKept

(***************************************************************************)
(* addData counts an overflow only when it leaves the ring full.           *)
(***************************************************************************)
THEOREM OverflowMeansFull == SafeSpec => OverflowOnlyWhenFull
<1>1. ASSUME RingInv, [Next]_vars, counterOverflow' # counterOverflow
      PROVE  bufferLevel' = N - 1
  <2>1. PICK packet \in Packets : StoreHead(FramesOf(packet))
    BY <1>1 DEF Next, AddData, StoreAll, AdvanceOutput, vars, RingInv, TypeOK
  <2>. QED  BY <1>1, <2>1, RingAssumption
            DEF StoreHead, Store, Room, Wrap, bufferLevel, Level, RingInv,
                TypeOK, Slots
<1>2. SafeSpec => []RingInv
  BY InitInv, NextInv, PTL DEF SafeSpec
<1>. QED  BY <1>1, <1>2, PTL DEF SafeSpec, OverflowOnlyWhenFull

-----------------------------------------------------------------------------
(***************************************************************************)
(* Refinement: the ring implements PlayoutQueue, step by step.             *)
(***************************************************************************)

LEMMA PendingType ==
  ASSUME RingInv
  PROVE  /\ pendingFrames \in Seq(Samples \X Samples)
         /\ Len(pendingFrames) = fresh
         /\ \A i \in 1 .. fresh : PendingSlot(i) \in Slots
<1>. USE RingAssumption DEF RingInv, TypeOK, Slots
<1>1. ASSUME NEW i \in 1 .. fresh PROVE PendingSlot(i) \in Slots
  BY DEF PendingSlot
<1>2. ASSUME NEW i \in 1 .. fresh
      PROVE <<channelA[PendingSlot(i)], channelB[PendingSlot(i)]>> \in Samples \X Samples
  BY <1>1
<1>3. fresh \in Nat /\ pendingFrames \in [1 .. fresh -> Samples \X Samples]
  <2>1. fresh \in Nat
    OBVIOUS
  <2>2. pendingFrames \in [1 .. fresh -> Samples \X Samples]
    BY ONLY <1>2 DEF pendingFrames
  <2>. QED  BY <2>1, <2>2
<1>4. pendingFrames \in Seq(Samples \X Samples) /\ Len(pendingFrames) = fresh
  BY ONLY <1>3
<1>. QED  BY <1>1, <1>4

(* The same of the state after a step. *)
LEMMA PendingTypeNext ==
  ASSUME RingInv'
  PROVE  /\ pendingFrames' \in Seq(Samples \X Samples)
         /\ Len(pendingFrames') = fresh'
<1>. USE RingAssumption DEF RingInv, TypeOK, Slots
<1>1. ASSUME NEW i \in 1 .. fresh' PROVE PendingSlot(i)' \in Slots
  <2>1. /\ N \in Nat \ {0} /\ inputIndex' \in 0 .. N - 1
        /\ fresh' \in 0 .. N - 1
    OBVIOUS
  <2>2. i \in Int /\ 1 =< i /\ i =< fresh'
    BY <2>1
  <2>. QED  BY <2>1, <2>2 DEF PendingSlot, Slots
<1>2. ASSUME NEW i \in 1 .. fresh'
      PROVE <<channelA'[PendingSlot(i)'], channelB'[PendingSlot(i)']>> \in Samples \X Samples
  BY <1>1
<1>. QED  BY <1>2 DEF pendingFrames

(***************************************************************************)
(* Storing count frames appends the first count frames to the queue.       *)
(***************************************************************************)
LEMMA StoreAppends ==
  ASSUME RingInv, RingInv',
         NEW frames \in Seq(Samples \X Samples),
         NEW count \in 0 .. Len(frames), count =< Room,
         Store(frames, count)
  PROVE  pendingFrames' = pendingFrames \o SubSeq(frames, 1, count)
<1>. DEFINE added == SubSeq(frames, 1, count)
<1>1. /\ count \in Nat /\ fresh \in Nat /\ fresh' = fresh + count
      /\ count + fresh =< N - 1
  BY RingAssumption DEF Store, Room, RingInv, TypeOK, FreshWithinLevel,
     bufferLevel, Level, Slots
<1>2. /\ added \in Seq(Samples \X Samples)
      /\ Len(added) = count
      /\ \A i \in 1 .. count : added[i] = frames[i]
  BY <1>1
<1>6. pendingFrames \in Seq(Samples \X Samples) /\ Len(pendingFrames) = fresh
  BY PendingType
<1>3. /\ pendingFrames \o added \in Seq(Samples \X Samples)
      /\ Len(pendingFrames \o added) = fresh + count
  BY <1>1, <1>2, <1>6, ConcatProperties
<1>4. /\ pendingFrames' \in Seq(Samples \X Samples)
      /\ Len(pendingFrames') = fresh + count
  BY <1>1, PendingTypeNext
<1>5. ASSUME NEW i \in 1 .. fresh + count
      PROVE  pendingFrames'[i] = (pendingFrames \o added)[i]
  <2>1. PendingSlot(i)' = Wrap(IF inputIndex - fresh + i - 1 < 0
                                 THEN inputIndex - fresh + i - 1 + N
                                 ELSE inputIndex - fresh + i - 1)
    BY <1>1, RingAssumption DEF PendingSlot, Store, Wrap, RingInv, TypeOK, Slots
  <2>2. CASE i =< fresh
    <3>1. PendingSlot(i)' = PendingSlot(i) /\ PendingSlot(i) \in Slots
      <4>1. i \in 1 .. fresh /\ PendingSlot(i) \in Slots
        BY <1>1, <2>2, PendingType
      <4>2. PendingSlot(i)' = Wrap(PendingSlot(i))
        BY <2>1 DEF PendingSlot
      <4>. QED  BY <4>1, <4>2, RingAssumption DEF Wrap, Slots
    <3>2. ~(Ahead(PendingSlot(i)) < count)
      BY <1>1, <2>2, RingAssumption DEF PendingSlot, Ahead, RingInv, TypeOK, Slots
    <3>3. /\ channelA'[PendingSlot(i)] = channelA[PendingSlot(i)]
          /\ channelB'[PendingSlot(i)] = channelB[PendingSlot(i)]
      BY <3>1, <3>2 DEF Store
    <3>4. pendingFrames'[i] = pendingFrames[i]
      BY <1>1, <2>2, <3>1, <3>3 DEF pendingFrames
    <3>5. (pendingFrames \o added)[i] = pendingFrames[i]
      BY <1>1, <1>2, <1>6, <2>2, ConcatProperties
    <3>. QED  BY <3>4, <3>5
  <2>3. CASE i > fresh
    <3>1. /\ PendingSlot(i)' \in Slots
          /\ Ahead(PendingSlot(i)') = i - fresh - 1
      BY <1>1, <2>1, <2>3, RingAssumption DEF Wrap, Ahead, RingInv, TypeOK, Slots
    <3>2. i - fresh \in 1 .. count
      BY <1>1, <2>3
    <3>3. /\ channelA'[PendingSlot(i)'] = frames[i - fresh][1]
          /\ channelB'[PendingSlot(i)'] = frames[i - fresh][2]
      BY <3>1, <3>2, <1>1 DEF Store
    <3>4. frames[i - fresh] \in Samples \X Samples
      BY <3>2, <1>1
    <3>5. pendingFrames'[i] = frames[i - fresh]
      BY <1>1, <3>3, <3>4 DEF pendingFrames
    <3>6. (pendingFrames \o added)[i] = added[i - fresh]
      BY <1>1, <1>2, <1>6, <2>3, ConcatProperties
    <3>7. added[i - fresh] = frames[i - fresh]
      BY <1>2, <3>2
    <3>. QED  BY <3>5, <3>6, <3>7
  <2>4. i =< fresh \/ i > fresh
    BY <1>1
  <2>. QED  BY <2>2, <2>3, <2>4
<1>. QED
  BY <1>1, <1>3, <1>4, <1>5, SeqEqual

(* The room of the ring is the room of the queue. *)
LEMMA SameRoom == RingInv => Queue!Room = Room
<1>. SUFFICES ASSUME RingInv PROVE Queue!Room = Room
  OBVIOUS
<1>1. Len(pendingFrames) = fresh
  BY PendingType
<1>2. fresh \in Nat /\ bufferLevel \in Nat
  BY RingAssumption DEF RingInv, TypeOK, bufferLevel, Level, Slots
<1>. QED  BY <1>1, <1>2, RingAssumption DEF Queue!Room, Room

LEMMA AddDataOffers ==
  ASSUME RingInv, RingInv', NEW packet \in Packets, AddData(packet)
  PROVE  Queue!Offer
<1>. DEFINE frames == FramesOf(packet)
<1>1. frames \in Seq(Samples \X Samples) /\ Len(frames) \in Nat
  BY FramesOfType, RingAssumption
<1>2. Room \in Nat /\ Queue!Room = Room
  BY SameRoom, RingAssumption
     DEF RingInv, TypeOK, Room, bufferLevel, Level, Slots
<1>3. ASSUME NEW count \in 0 .. Len(frames), count =< Room, Store(frames, count)
      PROVE  bufferLevel' - fresh' = bufferLevel - fresh
  BY <1>1, <1>2, <1>3, RingAssumption
     DEF Store, Wrap, Room, bufferLevel, Level, RingInv, TypeOK, Slots
<1>4. CASE StoreAll(frames)
  <2>1. /\ Len(frames) =< Room
        /\ Store(frames, Len(frames))
        /\ counterOverflow' = counterOverflow
        /\ Len(frames) \in 0 .. Len(frames)
    BY <1>1, <1>4 DEF StoreAll
  <2>2. pendingFrames' = pendingFrames \o frames
    <3>1. SubSeq(frames, 1, Len(frames)) = frames
      BY <1>1
    <3>. QED  BY <1>1, <2>1, <3>1, StoreAppends
  <2>3. Queue!AcceptAll(frames)
    BY <1>1, <1>2, <1>3, <2>1, <2>2 DEF Queue!AcceptAll
  <2>. QED  BY <2>3 DEF Queue!Offer
<1>5. CASE StoreHead(frames)
  <2>1. /\ Len(frames) > Room
        /\ Store(frames, Room)
        /\ counterOverflow < MaxOverflow
        /\ counterOverflow' = counterOverflow + 1
        /\ Room \in 0 .. Len(frames) /\ Room =< Room
    BY <1>1, <1>2, <1>5 DEF StoreHead
  <2>2. pendingFrames' = pendingFrames \o SubSeq(frames, 1, Room)
    BY <1>1, <2>1, StoreAppends
  <2>3. Queue!AcceptHead(frames)
    BY <1>1, <1>2, <1>3, <2>1, <2>2 DEF Queue!AcceptHead
  <2>. QED  BY <2>3 DEF Queue!Offer
<1>. QED  BY <1>4, <1>5 DEF AddData

LEMMA AdvanceTicks ==
  ASSUME RingInv, RingInv', AdvanceOutput
  PROVE  Queue!Tick
<1>. USE RingAssumption DEF RingInv, TypeOK, Slots
<1>1. /\ bufferLevel \in 0 .. N - 1
      /\ bufferLevel' = IF bufferLevel = 0 THEN N - 1 ELSE bufferLevel - 1
  BY DEF AdvanceOutput, bufferLevel, Level
<1>2. CASE fresh < bufferLevel
  <2>1. fresh' = fresh /\ bufferLevel' - fresh' = bufferLevel - fresh - 1
    BY <1>1, <1>2 DEF AdvanceOutput
  <2>2. pendingFrames' = pendingFrames
    BY <2>1 DEF AdvanceOutput, pendingFrames, PendingSlot
  <2>. QED  BY <1>1, <1>2, <2>1, <2>2
            DEF Queue!Tick, Queue!Replay, AdvanceOutput
<1>3. CASE fresh = bufferLevel /\ fresh = 0
  <2>1. fresh' = 0 /\ bufferLevel' = N - 1
    BY <1>1, <1>3 DEF AdvanceOutput
  <2>2. pendingFrames' = pendingFrames
    BY <2>1, <1>3 DEF AdvanceOutput, pendingFrames, PendingSlot
  <2>3. pendingFrames = <<>>
    BY <1>3, PendingType
  <2>. QED  BY <1>1, <1>3, <2>1, <2>2, <2>3
            DEF Queue!Tick, Queue!Underrun, AdvanceOutput
<1>4. CASE fresh = bufferLevel /\ fresh > 0
  <2>1. fresh' = fresh - 1 /\ bufferLevel' = bufferLevel - 1
    BY <1>1, <1>4 DEF AdvanceOutput
  <2>2. /\ pendingFrames' \in Seq(Samples \X Samples)
        /\ Len(pendingFrames') = fresh - 1
    BY <2>1, PendingTypeNext
  <2>3. /\ Tail(pendingFrames) \in Seq(Samples \X Samples)
        /\ Len(Tail(pendingFrames)) = fresh - 1
        /\ \A i \in 1 .. fresh - 1 : Tail(pendingFrames)[i] = pendingFrames[i + 1]
    BY <1>4, PendingType
  <2>4. ASSUME NEW i \in 1 .. fresh - 1
        PROVE  pendingFrames'[i] = Tail(pendingFrames)[i]
    <3>1. PendingSlot(i)' = PendingSlot(i + 1)
      BY <1>4, <2>1 DEF PendingSlot, AdvanceOutput
    <3>. QED  BY <1>4, <2>1, <2>3, <3>1 DEF pendingFrames, AdvanceOutput
  <2>5. pendingFrames' = Tail(pendingFrames)
    BY <2>2, <2>3, <2>4, SeqEqual
  <2>6. pendingFrames # <<>> /\ bufferLevel - fresh = 0 /\ bufferLevel' - fresh' = 0
    BY <1>1, <1>4, <2>1, PendingType
  <2>. QED  BY <2>5, <2>6
            DEF Queue!Tick, Queue!PlayHead, AdvanceOutput
<1>. QED  BY <1>1, <1>2, <1>3, <1>4 DEF FreshWithinLevel

(***************************************************************************)
(* The two indices, two arrays and the level test of dac.cpp implement the *)
(* queue with a replayed gap: every accepted frame is passed once, in      *)
(* order, and refusals happen exactly when gap and queue fill the ring.    *)
(***************************************************************************)
THEOREM RingImplementsQueue == SafeSpec => Queue!SafeSpec
<1>1. Init => Queue!Init
  <2>1. ASSUME Init PROVE RingInv
    BY <2>1, InitInv
  <2>. QED  BY <2>1, PendingType, RingAssumption
            DEF Init, Queue!Init, bufferLevel, Level
<1>2. RingInv /\ RingInv' /\ [Next]_vars => [Queue!Next]_Queue!vars
  <2>. SUFFICES ASSUME RingInv, RingInv', [Next]_vars
                PROVE  [Queue!Next]_Queue!vars
    OBVIOUS
  <2>1. ASSUME NEW packet \in Packets, AddData(packet) PROVE Queue!Next
    BY <2>1, AddDataOffers DEF Queue!Next
  <2>2. CASE AdvanceOutput
    BY <2>2, AdvanceTicks DEF Queue!Next
  <2>3. CASE UNCHANGED vars
    BY <2>3 DEF vars, Queue!vars, pendingFrames, PendingSlot, bufferLevel
  <2>. QED  BY <2>1, <2>2, <2>3 DEF Next
<1>3. SafeSpec => []RingInv
  BY InitInv, NextInv, PTL DEF SafeSpec
<1>. QED  BY <1>1, <1>2, <1>3, PTL DEF SafeSpec, Queue!SafeSpec

=============================================================================
