------------------------------ MODULE DacRing -------------------------------
(***************************************************************************)
(* The sample ring of class Dac (src/systems/dac/dac.cpp): the USB receive *)
(* callback appends stereo frames with addData, and every TIM1 update      *)
(* passes one slot in timer1.  Both run with interrupts masked, so each is *)
(* one step.                                                               *)
(*                                                                         *)
(* timer1 never asks whether the ring is empty (the test is commented out  *)
(* at lines 269-274): the reader may overtake the writer, and the slots it *)
(* then walks over hold old frames although bufferLevel counts them.  The  *)
(* history variable `fresh' counts the slots, ending at the writer, whose  *)
(* frame the reader has not passed yet.                                    *)
(***************************************************************************)
EXTENDS Integers, Sequences

CONSTANTS
  N,            (* bufferSizeSamples_: slots of the ring                   *)
  Samples,      (* values of one 16-bit sample                             *)
  Silence,      (* the zero the static arrays start with                   *)
  Packets,      (* payloads handed to addData, as sequences of samples     *)
  MaxOverflow   (* bound on counterOverflow_                               *)

ASSUME RingAssumption ==
  /\ N \in Nat \ {0}
  /\ Silence \in Samples
  /\ Packets \subseteq Seq(Samples)
  /\ MaxOverflow \in Nat

VARIABLES
  inputIndex, outputIndex,      (* next slot to write, next slot to pass   *)
  channelA, channelB,           (* the two sample arrays                   *)
  counterOverflow,              (* packets cut short because of a full ring*)
  lastBufferLevel,              (* level reported after the last packet    *)
  fresh                         (* history: accepted frames not yet passed *)

vars == <<inputIndex, outputIndex, channelA, channelB, counterOverflow,
          lastBufferLevel, fresh>>

Slots == 0 .. N - 1
Wrap(i) == IF i >= N THEN i - N ELSE i

(* bufferLevel(): the slots from the reader up to the writer. *)
Level(in, out) == IF in < out THEN N - out + in ELSE in - out
bufferLevel == Level(inputIndex, outputIndex)

(***************************************************************************)
(* addData.  A packet of `size' bytes is read as size / 2 shorts, the loop *)
(* runs i = 0, 2, 4, ... below size / 4 and takes shorts i and i + 1 as    *)
(* one stereo frame.                                                       *)
(***************************************************************************)
FrameCount_AllFrames(packet) == Len(packet) \div 2   \* mutant: i++ for i += 2
FrameCount(packet) == (Len(packet) \div 2 + 1) \div 2
FramesOf(packet) ==
  [j \in 1 .. FrameCount(packet) |-> <<packet[2 * j - 1], packet[2 * j]>>]

(* Frames stored before newIndex would meet outputIndex_. *)
Room_WriteThenTest == N - bufferLevel                \* mutant: test after the store
Room_KeepsOneMore ==                                 \* mutant: leaves two slots free
  IF bufferLevel < N - 2 THEN N - 2 - bufferLevel ELSE 0
Room == N - 1 - bufferLevel

(* How many slots after the writer slot s lies: slot s takes the frame     *)
(* number Ahead(s) + 1 of those stored.                                    *)
Ahead_PreIncrement(s) ==                             \* mutant: writes a slot early
  IF s >= inputIndex - 1 THEN s - inputIndex + 1 ELSE s - inputIndex + 1 + N
Ahead(s) == IF s >= inputIndex THEN s - inputIndex ELSE s - inputIndex + N

(* mutant: the packet is stored from its last frame to its first *)
Store_LastFirst(frames, count) ==
  /\ channelA' = [s \in Slots |-> IF Ahead(s) < count THEN frames[count - Ahead(s)][1]
                                                      ELSE channelA[s]]
  /\ channelB' = [s \in Slots |-> IF Ahead(s) < count THEN frames[count - Ahead(s)][2]
                                                      ELSE channelB[s]]
  /\ inputIndex' = Wrap(inputIndex + count)
  /\ lastBufferLevel' = Level(inputIndex', outputIndex)
  /\ fresh' = fresh + count
  /\ UNCHANGED outputIndex

Store(frames, count) ==
  /\ channelA' = [s \in Slots |-> IF Ahead(s) < count THEN frames[Ahead(s) + 1][1]
                                                      ELSE channelA[s]]
  /\ channelB' = [s \in Slots |-> IF Ahead(s) < count THEN frames[Ahead(s) + 1][2]
                                                      ELSE channelB[s]]
  /\ inputIndex' = Wrap(inputIndex + count)
  /\ lastBufferLevel' = Level(inputIndex', outputIndex)
  /\ fresh' = fresh + count
  /\ UNCHANGED outputIndex

(* Every frame of the packet finds a slot. *)
StoreAll(frames) ==
  /\ Len(frames) =< Room
  /\ Store(frames, Len(frames))
  /\ UNCHANGED counterOverflow

(* The ring fills up: the loop counts one overflow and leaves. *)
StoreHead(frames) ==
  /\ Len(frames) > Room
  /\ counterOverflow < MaxOverflow
  /\ Store(frames, Room)
  /\ counterOverflow' = counterOverflow + 1

AddData(packet) == StoreAll(FramesOf(packet)) \/ StoreHead(FramesOf(packet))

(***************************************************************************)
(* The ring's part of timer1: one slot further, whatever the writer did.   *)
(***************************************************************************)
(* mutant: the mute of lines 260-266 back in, holding while the level is low *)
AdvanceOutput_HoldsWhenLow ==
  /\ bufferLevel >= N \div 2
  /\ outputIndex' = IF outputIndex + 1 >= N THEN 0 ELSE outputIndex + 1
  /\ fresh' = IF fresh > 0 /\ fresh = bufferLevel THEN fresh - 1 ELSE fresh
  /\ UNCHANGED <<inputIndex, channelA, channelB, counterOverflow, lastBufferLevel>>

AdvanceOutput ==
  /\ outputIndex' = IF outputIndex + 1 >= N THEN 0 ELSE outputIndex + 1
  /\ fresh' = IF fresh > 0 /\ fresh = bufferLevel THEN fresh - 1 ELSE fresh
  /\ UNCHANGED <<inputIndex, channelA, channelB, counterOverflow, lastBufferLevel>>

Init ==
  /\ inputIndex = 0
  /\ outputIndex = 0
  /\ channelA = [s \in Slots |-> Silence]
  /\ channelB = [s \in Slots |-> Silence]
  /\ counterOverflow = 0
  /\ lastBufferLevel = 0
  /\ fresh = 0

Next ==
  \/ \E packet \in Packets : AddData(packet)
  \/ AdvanceOutput

SafeSpec == Init /\ [][Next]_vars

(* The timer keeps running; nothing obliges the host to send. *)
Spec == SafeSpec /\ WF_vars(AdvanceOutput)
-----------------------------------------------------------------------------
TypeOK ==
  /\ inputIndex \in Slots
  /\ outputIndex \in Slots
  /\ channelA \in [Slots -> Samples]
  /\ channelB \in [Slots -> Samples]
  /\ counterOverflow \in 0 .. MaxOverflow
  /\ lastBufferLevel \in 0 .. N - 1
  /\ fresh \in 0 .. N - 1

(* How far slot s lies behind the writer: 1 is the newest frame, N the     *)
(* slot written next.                                                      *)
Behind(s) == IF s < inputIndex THEN inputIndex - s ELSE inputIndex - s + N

FreshSlots == {s \in Slots : Behind(s) =< fresh}

(* The slot of the i-th pending frame, the oldest first. *)
PendingSlot(i) == LET k == inputIndex - fresh + i - 1
                  IN  IF k < 0 THEN k + N ELSE k

pendingFrames ==
  [i \in 1 .. fresh |-> <<channelA[PendingSlot(i)], channelB[PendingSlot(i)]>>]

(***************************************************************************)
(* The frames nobody has passed yet always lie inside the distance that    *)
(* bufferLevel computes from the two indices, although timer1 never looks  *)
(* at inputIndex_: so the test newIndex == outputIndex_ of addData, which  *)
(* only knows the indices, stops the writer before it reaches one.         *)
(***************************************************************************)
FreshWithinLevel == fresh =< bufferLevel

(***************************************************************************)
(* A frame that was accepted keeps its slot and its two samples until the  *)
(* reader passes that very slot: no later packet overwrites it, whatever   *)
(* the order of packets, ticks, overflows and underruns.                   *)
(***************************************************************************)
FreshSlotsKept ==
  [][\A s \in FreshSlots :
        IF s \in FreshSlots'
          THEN channelA'[s] = channelA[s] /\ channelB'[s] = channelB[s]
          ELSE s = outputIndex /\ outputIndex' # outputIndex]_vars

(***************************************************************************)
(* addData counts an overflow only when it leaves the ring full, so a      *)
(* packet is never thrown away while slots are free.                       *)
(***************************************************************************)
OverflowOnlyWhenFull ==
  [][counterOverflow' # counterOverflow => bufferLevel' = N - 1]_vars

(***************************************************************************)
(* Every accepted frame is passed sooner or later, also when the host      *)
(* stops sending and also when it arrived just after an underrun.          *)
(***************************************************************************)
EveryFreshSlotPassed ==
  \A s \in Slots : (s \in FreshSlots) ~> (s \notin FreshSlots)

(***************************************************************************)
(* The two indices and the two arrays implement the queue with a replayed  *)
(* gap of PlayoutQueue: in order, no loss, no duplicate, one frame a tick. *)
(***************************************************************************)
Queue == INSTANCE PlayoutQueue WITH
  Capacity    <- N - 1,
  Offers      <- {FramesOf(packet) : packet \in Packets},
  MaxRefusals <- MaxOverflow,
  pending     <- pendingFrames,
  gap         <- bufferLevel - fresh,
  refusals    <- counterOverflow

ImplementsQueue == Queue!Spec

=============================================================================
