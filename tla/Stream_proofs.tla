---------------------------- MODULE Stream_proofs ----------------------------
(***************************************************************************)
(* Proofs about Stream, for every size, every set of items and every set   *)
(* of batches.                                                             *)
(***************************************************************************)
EXTENDS Stream, TLAPS, SequenceTheorems

(* The items of its batch the writer has stored and not published. *)
stored ==
  [i \in 1 .. FilledSlots(wInput, inputIndex) |-> buffer[Place(inputIndex + i - 1)]]

(* Going round from where the reader was: the reader, inputIndex_, the writer. *)
IndicesInOrder ==
  writing => /\ FilledSlots(inputIndex, outputIndex) =< FilledSlots(inputIndex, wOutput)
             /\ FilledSlots(inputIndex, wOutput) =< FilledSlots(wInput, wOutput)

(* What is stored and what is left make up the batch. *)
BatchInHand == writing => stored \o rest \in Batches

(* The block the reader holds lies among the published items. *)
BlockHeld ==
  reading => /\ size =< FilledSlots(inputIndex, outputIndex)
             /\ outputIndex + size =< N
             /\ Len(taken) =< size
             /\ \A i \in 1 .. Len(taken) : taken[i] = buffer[outputIndex + i - 1]

(* Space reported, or what is left of it while a batch is being stored. *)
SpaceKept ==
  /\ ~writing => space =< Space(inputIndex, outputIndex)
  /\ writing => space = 0
  /\ writing /\ promised => Len(rest) =< Space(wInput, wOutput)

StreamInv ==
  StreamTypeOK /\ IndicesInOrder /\ BatchInHand /\ BlockHeld /\ SpaceKept

-----------------------------------------------------------------------------
(***************************************************************************)
(* The places the indices denote (stream.h 95-101, 105-107).               *)
(***************************************************************************)
LEMMA FilledRange ==
  ASSUME NEW in \in Slots, NEW out \in Slots
  PROVE  FilledSlots(in, out) \in 0 .. N - 1
  BY StreamAssumption DEF Slots, FilledSlots

LEMMA SpaceRange ==
  ASSUME NEW in \in Slots, NEW out \in Slots
  PROVE  /\ Space(in, out) \in 0 .. N - 1
         /\ Space(in, out) = N - 1 - FilledSlots(in, out)
  BY StreamAssumption DEF Slots, FilledSlots, Space

LEMMA PlaceInSlots ==
  ASSUME NEW out \in Slots, NEW i \in 0 .. N - 1
  PROVE  Place(out + i) \in Slots
  BY StreamAssumption DEF Slots, Place

(* One more item fits unless the writer is right behind where the reader was. *)
LEMMA FilledNext ==
  ASSUME NEW in \in Slots, NEW out \in Slots, Following(in) # out
  PROVE  /\ Following(in) \in Slots
         /\ FilledSlots(Following(in), out) = FilledSlots(in, out) + 1
         /\ in = Place(out + FilledSlots(in, out))
  BY StreamAssumption DEF Slots, FilledSlots, Following, Place

(* The slot the writer fills is neither published nor stored already. *)
LEMMA FreeSlot ==
  ASSUME StreamTypeOK, IndicesInOrder, writing, ~Full
  PROVE  /\ Following(wInput) # inputIndex
         /\ FilledSlots(inputIndex, wOutput) =< FilledSlots(Following(wInput), wOutput)
         /\ \A i \in 1 .. FilledSlots(inputIndex, outputIndex) :
              Place(outputIndex + i - 1) # wInput
         /\ \A i \in 1 .. FilledSlots(wInput, inputIndex) :
              Place(inputIndex + i - 1) # wInput
  BY StreamAssumption DEF StreamTypeOK, IndicesInOrder, Full, Following, FilledSlots, Place, Slots

LEMMA RunType ==
  ASSUME NEW slots \in [Slots -> Values], NEW in \in Slots, NEW out \in Slots
  PROVE  LET run == [i \in 1 .. FilledSlots(in, out) |-> slots[Place(out + i - 1)]]
         IN  run \in Seq(Values) /\ Len(run) = FilledSlots(in, out)
<1>1. FilledSlots(in, out) \in 0 .. N - 1
  BY FilledRange
<1>2. ASSUME NEW i \in 1 .. FilledSlots(in, out)
      PROVE  slots[Place(out + i - 1)] \in Values
  <2>1. i - 1 \in 0 .. N - 1 /\ out + i - 1 = out + (i - 1)
    BY <1>1, StreamAssumption DEF Slots
  <2>2. Place(out + i - 1) \in Slots
    BY <2>1, PlaceInSlots
  <2>. QED  BY <2>2
<1>. QED  BY <1>1, <1>2

LEMMA ContentsType ==
  ASSUME StreamTypeOK
  PROVE  /\ contents \in Seq(Values)
         /\ Len(contents) = FilledSlots(inputIndex, outputIndex)
  BY RunType DEF contents, StreamTypeOK

LEMMA StoredType ==
  ASSUME StreamTypeOK
  PROVE  /\ stored \in Seq(Values)
         /\ Len(stored) = FilledSlots(wInput, inputIndex)
  BY RunType DEF stored, StreamTypeOK

(* What is published after a step, from the type invariant after it. *)
LEMMA ContentsTypeNext ==
  ASSUME StreamTypeOK'
  PROVE  /\ contents' \in Seq(Values)
         /\ Len(contents') = FilledSlots(inputIndex', outputIndex')
  BY RunType DEF contents, StreamTypeOK, Slots

-----------------------------------------------------------------------------
LEMMA InitInv == StreamInit => StreamInv
<1>. SUFFICES ASSUME StreamInit PROVE StreamInv
  OBVIOUS
<1>1. <<>> \in Seq(Values)
  OBVIOUS
<1>2. StreamTypeOK
  <2>1. 0 \in Slots /\ 0 \in 0 .. N - 1 /\ 0 \in 0 .. N
    BY StreamAssumption DEF Slots
  <2>. QED  BY <1>1, <2>1 DEF StreamInit, StreamTypeOK
<1>3. SpaceKept
  BY StreamAssumption DEF StreamInit, SpaceKept, Space
<1>. QED
  BY <1>2, <1>3 DEF StreamInit, StreamInv, IndicesInOrder, BatchInHand, BlockHeld

(* A batch just begun is the whole of what is left: nothing is stored yet. *)
LEMMA BeginKeepsInv ==
  ASSUME StreamInv, NEW batch \in Batches, BeginEnqueue(batch)
  PROVE  StreamInv'
<1>. USE StreamAssumption DEF StreamInv, BeginEnqueue, shared, reader
<1>1. batch \in Seq(Values)
  OBVIOUS
<1>2. StreamTypeOK'
  BY <1>1 DEF StreamTypeOK, Slots
<1>3. /\ FilledSlots(inputIndex, inputIndex) = 0
      /\ FilledSlots(inputIndex, outputIndex) \in 0 .. N - 1
  BY FilledRange DEF StreamTypeOK, Slots, FilledSlots
<1>4. IndicesInOrder'
  BY <1>3 DEF IndicesInOrder
<1>5. BatchInHand'
  <2>1. stored' = <<>>
    BY <1>3 DEF stored
  <2>2. stored' \o rest' = batch
    BY <1>1, <2>1
  <2>. QED  BY <2>2 DEF BatchInHand
<1>6. BlockHeld'
  BY DEF BlockHeld
<1>7. SpaceKept'
  <2>1. promised' => Len(batch) =< space
    BY Zenon
  <2>2. space =< Space(inputIndex, outputIndex)
    BY DEF SpaceKept
  <2>3. Space(inputIndex, outputIndex) \in Int
    BY DEF StreamTypeOK, Slots, Space
  <2>4. space \in Int /\ Len(batch) \in Int
    BY <1>1 DEF StreamTypeOK
  <2>5. promised' => Len(batch) =< Space(inputIndex, outputIndex)
    BY <2>1, <2>2, <2>3, <2>4
  <2>. QED  BY <2>5 DEF SpaceKept
<1>. QED  BY <1>2, <1>4, <1>5, <1>6, <1>7

(* Storing an item moves it from what is left to what is stored. *)
LEMMA StoreMovesItem ==
  ASSUME StreamInv, StoreItem
  PROVE  stored' \o rest' = stored \o rest
<1>. USE DEF StreamInv
<1>1. /\ Following(wInput) \in Slots
      /\ Following(wInput) # inputIndex
      /\ \A i \in 1 .. FilledSlots(wInput, inputIndex) : Place(inputIndex + i - 1) # wInput
  BY FreeSlot, FilledNext DEF StoreItem, Full, StreamTypeOK
<1>2. /\ FilledSlots(wInput', inputIndex') = FilledSlots(wInput, inputIndex) + 1
      /\ wInput = Place(inputIndex + FilledSlots(wInput, inputIndex))
      /\ FilledSlots(wInput, inputIndex) \in 0 .. N - 1
  BY <1>1, FilledNext, FilledRange DEF StoreItem, StreamTypeOK
<1>3. stored \in Seq(Values) /\ Len(stored) = FilledSlots(wInput, inputIndex)
  BY StoredType
<1>4. rest \in Seq(Values) /\ rest # <<>> /\ rest' = Tail(rest)
  BY DEF StoreItem, StreamTypeOK
<1>5. stored' = Append(stored, Head(rest))
  <2>1. stored' = [i \in 1 .. Len(stored) + 1 |-> buffer'[Place(inputIndex + i - 1)]]
    BY <1>2, <1>3 DEF stored, StoreItem
  <2>2. ASSUME NEW i \in 1 .. Len(stored)
        PROVE  buffer'[Place(inputIndex + i - 1)] = stored[i]
    <3>1. stored[i] = buffer[Place(inputIndex + i - 1)]
      BY <1>3 DEF stored
    <3>2. Place(inputIndex + i - 1) # wInput
      BY <1>1, <1>3
    <3>3. i - 1 \in 0 .. N - 1 /\ inputIndex + i - 1 = inputIndex + (i - 1)
      BY <1>2, <1>3, StreamAssumption DEF StreamTypeOK, Slots
    <3>4. Place(inputIndex + i - 1) \in Slots
      BY <3>3, PlaceInSlots DEF StreamTypeOK
    <3>. QED  BY <3>1, <3>2, <3>4 DEF StoreItem, StreamTypeOK
  <2>3. buffer'[Place(inputIndex + (Len(stored) + 1) - 1)] = Head(rest)
    <3>1. inputIndex + (Len(stored) + 1) - 1 = inputIndex + FilledSlots(wInput, inputIndex)
      BY <1>2, <1>3, StreamAssumption DEF StreamTypeOK, Slots
    <3>. QED  BY <1>2, <3>1 DEF StoreItem, StreamTypeOK
  <2>4. Head(rest) \in Values
    BY <1>4
  <2>5. DOMAIN stored = 1 .. Len(stored) /\ Len(stored) \in Nat
    BY <1>3
  <2>. QED  BY <1>3, <2>1, <2>2, <2>3, <2>4, <2>5
<1>6. Append(stored, Head(rest)) \o Tail(rest) = stored \o rest
  BY <1>3, <1>4
<1>. QED  BY <1>4, <1>5, <1>6

LEMMA StoreKeepsInv ==
  ASSUME StreamInv, StoreItem
  PROVE  StreamInv'
<1>. USE StreamAssumption DEF StreamInv, reader
<1>1. /\ Following(wInput) \in Slots
      /\ FilledSlots(Following(wInput), wOutput) = FilledSlots(wInput, wOutput) + 1
      /\ FilledSlots(inputIndex, wOutput) =< FilledSlots(Following(wInput), wOutput)
      /\ \A i \in 1 .. FilledSlots(inputIndex, outputIndex) :
           Place(outputIndex + i - 1) # wInput
  BY FreeSlot, FilledNext DEF StoreItem, Full, StreamTypeOK
<1>2. /\ Head(rest) \in Values
      /\ Tail(rest) \in Seq(Values)
      /\ Len(Tail(rest)) = Len(rest) - 1
      /\ Len(rest) \in Nat
  BY DEF StoreItem, StreamTypeOK
<1>3. StreamTypeOK'
  <2>1. buffer' \in [Slots -> Values]
    BY <1>2 DEF StoreItem, StreamTypeOK
  <2>. QED  BY <1>1, <1>2, <2>1 DEF StoreItem, StreamTypeOK
<1>4. IndicesInOrder'
  BY <1>1 DEF StoreItem, IndicesInOrder
<1>5. BatchInHand'
  BY StoreMovesItem DEF StoreItem, BatchInHand
<1>6. BlockHeld'
  <2>1. ASSUME reading, NEW i \in 1 .. Len(taken)
        PROVE  buffer'[outputIndex + i - 1] = buffer[outputIndex + i - 1]
    <3>1. Len(taken) \in Nat
      BY DEF StreamTypeOK
    <3>2. /\ i \in 1 .. FilledSlots(inputIndex, outputIndex)
          /\ outputIndex + i - 1 \in Slots
      <4>1. /\ FilledSlots(inputIndex, outputIndex) \in Int
            /\ outputIndex \in Slots /\ size \in Int
        BY FilledRange DEF StreamTypeOK
      <4>2. /\ Len(taken) =< size /\ outputIndex + size =< N
            /\ size =< FilledSlots(inputIndex, outputIndex)
        BY <2>1 DEF BlockHeld
      <4>. QED  BY <3>1, <4>1, <4>2 DEF Slots
    <3>3. Place(outputIndex + i - 1) = outputIndex + i - 1
      BY <3>2 DEF Place, Slots
    <3>4. outputIndex + i - 1 # wInput
      BY <1>1, <3>2, <3>3
    <3>. QED  BY <3>2, <3>4 DEF StoreItem, StreamTypeOK
  <2>. QED  BY <2>1 DEF BlockHeld, StoreItem
<1>7. SpaceKept'
  <2>1. /\ Space(wInput, wOutput) = N - 1 - FilledSlots(wInput, wOutput)
        /\ Space(Following(wInput), wOutput) = N - 1 - FilledSlots(Following(wInput), wOutput)
        /\ FilledSlots(wInput, wOutput) \in 0 .. N - 1
    BY <1>1, FilledRange, SpaceRange DEF StreamTypeOK
  <2>2. Space(Following(wInput), wOutput) = Space(wInput, wOutput) - 1
    BY <1>1, <2>1
  <2>3. Space(wInput, wOutput) \in Int
    BY <2>1
  <2>4. promised => Len(Tail(rest)) =< Space(Following(wInput), wOutput)
    BY <1>2, <2>2, <2>3 DEF SpaceKept, StoreItem
  <2>. QED  BY <2>4 DEF SpaceKept, StoreItem
<1>. QED  BY <1>3, <1>4, <1>5, <1>6, <1>7

(* Publishing adds what is stored to what is published, and no space is lost. *)
LEMMA FilledAdds ==
  ASSUME StreamTypeOK, IndicesInOrder, writing
  PROVE  FilledSlots(wInput, outputIndex)
           = FilledSlots(inputIndex, outputIndex) + FilledSlots(wInput, inputIndex)
  BY StreamAssumption DEF StreamTypeOK, IndicesInOrder, FilledSlots, Slots

LEMMA EndKeepsInv ==
  ASSUME StreamInv, EndEnqueue
  PROVE  StreamInv'
<1>. USE DEF StreamInv, EndEnqueue, reader
<1>1. /\ FilledSlots(wInput, outputIndex)
           = FilledSlots(inputIndex, outputIndex) + FilledSlots(wInput, inputIndex)
      /\ FilledSlots(inputIndex, outputIndex) \in 0 .. N - 1
      /\ FilledSlots(wInput, inputIndex) \in 0 .. N - 1
      /\ Space(wInput, outputIndex) \in 0 .. N - 1
  <2>1. /\ Space(wInput, outputIndex) = N - 1 - FilledSlots(wInput, outputIndex)
        /\ FilledSlots(wInput, outputIndex) \in 0 .. N - 1
    BY FilledRange, SpaceRange DEF StreamTypeOK
  <2>2. /\ FilledSlots(inputIndex, outputIndex) \in 0 .. N - 1
        /\ FilledSlots(wInput, inputIndex) \in 0 .. N - 1
        /\ Space(wInput, outputIndex) \in 0 .. N - 1
    BY FilledRange, SpaceRange DEF StreamTypeOK
  <2>. QED  BY <2>2, FilledAdds
<1>2. StreamTypeOK'
  BY DEF StreamTypeOK
<1>3. size =< FilledSlots(inputIndex, outputIndex) => size =< FilledSlots(wInput, outputIndex)
  BY <1>1, StreamAssumption DEF StreamTypeOK
<1>4. BlockHeld'
  BY <1>3 DEF BlockHeld
<1>5. SpaceKept'
  BY <1>1 DEF SpaceKept
<1>6. IndicesInOrder' /\ BatchInHand'
  BY DEF IndicesInOrder, BatchInHand
<1>. QED  BY <1>2, <1>4, <1>5, <1>6

(* Releasing part of the block it holds, the reader moves towards inputIndex_. *)
LEMMA ReleaseRange ==
  ASSUME StreamInv, NEW count \in 0 .. N, Dequeue(count)
  PROVE  /\ count =< FilledSlots(inputIndex, outputIndex)
         /\ outputIndex' = Place(outputIndex + count)
         /\ outputIndex' \in Slots
         /\ FilledSlots(inputIndex, outputIndex') = FilledSlots(inputIndex, outputIndex) - count
<1>. USE StreamAssumption DEF StreamInv
<1>1. Len(taken) \in Nat
  BY DEF StreamTypeOK
<1>2. count =< FilledSlots(inputIndex, outputIndex) /\ outputIndex + count =< N
  <2>1. /\ FilledSlots(inputIndex, outputIndex) \in Int
        /\ outputIndex \in Int /\ size \in Int
    BY FilledRange DEF StreamTypeOK, Slots
  <2>2. /\ count =< Len(taken) /\ Len(taken) =< size
        /\ size =< FilledSlots(inputIndex, outputIndex) /\ outputIndex + size =< N
    BY DEF Dequeue, BlockHeld
  <2>. QED  BY <1>1, <2>1, <2>2
<1>. QED  BY <1>2 DEF Dequeue, Place, StreamTypeOK, Slots, FilledSlots

LEMMA DequeueKeepsInv ==
  ASSUME StreamInv, NEW count \in 0 .. N, Dequeue(count)
  PROVE  StreamInv'
<1>. USE StreamAssumption DEF StreamInv
<1>1. /\ outputIndex' \in Slots
      /\ FilledSlots(inputIndex, outputIndex') =< FilledSlots(inputIndex, outputIndex)
      /\ FilledSlots(inputIndex, outputIndex') \in 0 .. N - 1
      /\ FilledSlots(inputIndex, outputIndex) \in 0 .. N - 1
      /\ FilledSlots(inputIndex, wOutput) \in 0 .. N - 1
  <2>1. outputIndex' \in Slots
    BY ReleaseRange
  <2>2. /\ FilledSlots(inputIndex, outputIndex') \in 0 .. N - 1
        /\ FilledSlots(inputIndex, outputIndex) \in 0 .. N - 1
        /\ FilledSlots(inputIndex, wOutput) \in 0 .. N - 1
    BY <2>1, FilledRange DEF StreamTypeOK
  <2>3. FilledSlots(inputIndex, outputIndex') = FilledSlots(inputIndex, outputIndex) - count
    BY ReleaseRange
  <2>. QED  BY <2>1, <2>2, <2>3
<1>2. StreamTypeOK'
  BY <1>1 DEF Dequeue, StreamTypeOK, reader, writer
<1>3. IndicesInOrder'
  BY <1>1 DEF Dequeue, IndicesInOrder, writer
<1>4. BatchInHand'
  BY DEF Dequeue, BatchInHand, stored, writer
<1>5. SpaceKept'
  <2>1. /\ Space(inputIndex, outputIndex') = N - 1 - FilledSlots(inputIndex, outputIndex')
        /\ Space(inputIndex, outputIndex) = N - 1 - FilledSlots(inputIndex, outputIndex)
    BY <1>1, SpaceRange DEF StreamTypeOK
  <2>2. space =< Space(inputIndex, outputIndex) => space =< Space(inputIndex, outputIndex')
    BY <1>1, <2>1 DEF StreamTypeOK
  <2>. QED  BY <2>2 DEF Dequeue, SpaceKept, writer
<1>6. BlockHeld'
  BY DEF Dequeue, BlockHeld
<1>. QED  BY <1>2, <1>3, <1>4, <1>5, <1>6

LEMMA PeekKeepsInv ==
  ASSUME StreamInv, PeekNonCopy
  PROVE  StreamInv'
<1>. USE StreamAssumption DEF StreamInv, PeekNonCopy, shared, writer
<1>1. taken' = <<>> /\ taken' \in Seq(Values)
  OBVIOUS
<1>2. size' \in 0 .. N
  BY DEF StreamTypeOK, Slots
<1>3. StreamTypeOK'
  BY <1>1, <1>2 DEF StreamTypeOK
<1>4. size' =< FilledSlots(inputIndex, outputIndex) /\ outputIndex + size' =< N
  BY DEF StreamTypeOK, Slots, FilledSlots
<1>5. BlockHeld'
  BY <1>1, <1>2, <1>4 DEF BlockHeld
<1>6. IndicesInOrder' /\ BatchInHand' /\ SpaceKept'
  BY DEF IndicesInOrder, BatchInHand, SpaceKept, stored
<1>. QED  BY <1>3, <1>5, <1>6

LEMMA TakeKeepsInv ==
  ASSUME StreamInv, TakeItem
  PROVE  StreamInv'
<1>. USE StreamAssumption DEF StreamInv, TakeItem, shared, writer
<1>1. /\ Len(taken) \in Nat
      /\ outputIndex + Len(taken) \in Slots
  BY DEF StreamTypeOK, Slots, BlockHeld
<1>2. buffer[outputIndex + Len(taken)] \in Values
  BY <1>1 DEF StreamTypeOK
<1>3. /\ taken' \in Seq(Values)
      /\ Len(taken') = Len(taken) + 1
      /\ \A i \in 1 .. Len(taken) : taken'[i] = taken[i]
      /\ taken'[Len(taken) + 1] = buffer[outputIndex + Len(taken)]
  BY <1>2 DEF StreamTypeOK
<1>4. StreamTypeOK'
  BY <1>3 DEF StreamTypeOK
<1>5. \A i \in 1 .. Len(taken') : taken'[i] = buffer[outputIndex + i - 1]
  <2>1. SUFFICES ASSUME NEW i \in 1 .. Len(taken')
                 PROVE  taken'[i] = buffer[outputIndex + i - 1]
    OBVIOUS
  <2>2. CASE i \in 1 .. Len(taken)
    BY <1>3, <2>2 DEF BlockHeld
  <2>3. CASE i = Len(taken) + 1
    <3>1. outputIndex + i - 1 = outputIndex + Len(taken)
      BY <1>1, <2>3 DEF StreamTypeOK, Slots
    <3>. QED  BY <1>3, <2>3, <3>1
  <2>. QED  BY <1>1, <1>3, <2>2, <2>3
<1>6. BlockHeld'
  BY <1>1, <1>3, <1>5 DEF BlockHeld, StreamTypeOK
<1>7. IndicesInOrder' /\ BatchInHand' /\ SpaceKept'
  BY DEF IndicesInOrder, BatchInHand, SpaceKept, stored
<1>. QED  BY <1>4, <1>6, <1>7

LEMMA NextInv == StreamInv /\ [StreamNext]_streamVars => StreamInv'
<1>. SUFFICES ASSUME StreamInv, [StreamNext]_streamVars PROVE StreamInv'
  OBVIOUS
<1>1. CASE GetSpace
  <2>1. Space(inputIndex, outputIndex) \in 0 .. N - 1
    BY SpaceRange DEF StreamInv, StreamTypeOK
  <2>2. StreamTypeOK'
    BY <1>1, <2>1 DEF GetSpace, StreamInv, StreamTypeOK, shared, reader
  <2>3. SpaceKept'
    BY <1>1, <2>1 DEF GetSpace, SpaceKept, shared
  <2>. QED
    BY <1>1, <2>2, <2>3
    DEF GetSpace, StreamInv, IndicesInOrder, BatchInHand, BlockHeld, shared, reader
<1>2. ASSUME NEW batch \in Batches, BeginEnqueue(batch) PROVE StreamInv'
  BY <1>2, BeginKeepsInv
<1>3. CASE StoreItem
  BY <1>3, StoreKeepsInv
<1>4. CASE EndEnqueue
  BY <1>4, EndKeepsInv
<1>5. CASE PeekNonCopy
  BY <1>5, PeekKeepsInv
<1>6. CASE TakeItem
  BY <1>6, TakeKeepsInv
<1>7. ASSUME NEW count \in 0 .. N, Dequeue(count) PROVE StreamInv'
  BY <1>7, DequeueKeepsInv
<1>8. CASE UNCHANGED streamVars
  BY <1>8 DEF streamVars, shared, writer, reader, StreamInv, StreamTypeOK, IndicesInOrder,
     BatchInHand, BlockHeld, SpaceKept, stored
<1>. QED
  BY <1>1, <1>2, <1>3, <1>4, <1>5, <1>6, <1>7, <1>8 DEF StreamNext, Write, Read

-----------------------------------------------------------------------------
(***************************************************************************)
(* What the invariant says of the block in the reader's hands and of the   *)
(* room a batch finds.                                                     *)
(***************************************************************************)
LEMMA InvProtects == StreamInv => BlockIntact /\ ReportedSpaceHolds
<1>. SUFFICES ASSUME StreamInv PROVE BlockIntact /\ ReportedSpaceHolds
  OBVIOUS
<1>. USE StreamAssumption DEF StreamInv
<1>1. BlockIntact
  <2>. SUFFICES ASSUME reading
                PROVE  /\ size =< Len(contents)
                       /\ \A i \in 1 .. Len(taken) : taken[i] = contents[i]
    BY DEF BlockIntact
  <2>1. /\ Len(contents) = FilledSlots(inputIndex, outputIndex)
        /\ FilledSlots(inputIndex, outputIndex) \in Nat
        /\ Len(taken) \in Nat /\ size \in Nat /\ outputIndex \in Slots
    <3>1. FilledSlots(inputIndex, outputIndex) \in 0 .. N - 1
      BY FilledRange DEF StreamTypeOK
    <3>. QED  BY <3>1, ContentsType DEF StreamTypeOK
  <2>2. /\ size =< FilledSlots(inputIndex, outputIndex)
        /\ outputIndex + size =< N
        /\ Len(taken) =< size
    BY DEF BlockHeld
  <2>3. ASSUME NEW i \in 1 .. Len(taken) PROVE taken[i] = contents[i]
    <3>1. /\ i \in 1 .. FilledSlots(inputIndex, outputIndex)
          /\ Place(outputIndex + i - 1) = outputIndex + i - 1
      BY <2>1, <2>2 DEF Place, Slots
    <3>2. contents[i] = buffer[outputIndex + i - 1]
      BY <3>1 DEF contents
    <3>. QED  BY <3>2 DEF BlockHeld
  <2>. QED  BY <2>1, <2>2, <2>3
<1>2. ReportedSpaceHolds
  <2>. SUFFICES ASSUME writing, promised, rest # <<>>, Full PROVE FALSE
    BY DEF ReportedSpaceHolds
  <2>1. Len(rest) \in Nat \ {0}
    BY DEF StreamTypeOK
  <2>2. Space(wInput, wOutput) = 0
    BY DEF Full, Following, Space, StreamTypeOK, Slots
  <2>. QED  BY <2>1, <2>2 DEF SpaceKept
<1>. QED  BY <1>1, <1>2

(***************************************************************************)
(* For every size of the buffer: nothing is stored into the block the      *)
(* reader uses in place, however the two threads interleave                *)
(* (stream.h 71-101).                                                      *)
(***************************************************************************)
THEOREM StreamCorrect == StreamSpec => [](StreamTypeOK /\ BlockIntact)
<1>1. StreamInv => StreamTypeOK /\ BlockIntact
  BY InvProtects DEF StreamInv
<1>. QED  BY <1>1, InitInv, NextInv, PTL DEF StreamSpec

(***************************************************************************)
(* A batch no longer than the space getSpace reported is never cut, though *)
(* the reader moves between the report and the batch (stream.h 21-58).     *)
(***************************************************************************)
THEOREM SpaceHolds == StreamSpec => []ReportedSpaceHolds
<1>1. StreamInv => ReportedSpaceHolds
  BY InvProtects
<1>. QED  BY <1>1, InitInv, NextInv, PTL DEF StreamSpec

-----------------------------------------------------------------------------
(***************************************************************************)
(* Refinement: the two threads implement StreamQueue, step by step.        *)
(***************************************************************************)

(* Storing items leaves what is published as it was. *)
LEMMA StoreHidden ==
  ASSUME StreamInv, StoreItem
  PROVE  contents' = contents
<1>. USE DEF StreamInv
<1>1. \A i \in 1 .. FilledSlots(inputIndex, outputIndex) :
        Place(outputIndex + i - 1) # wInput
  BY FreeSlot DEF StoreItem
<1>2. ASSUME NEW i \in 1 .. FilledSlots(inputIndex, outputIndex)
      PROVE  buffer'[Place(outputIndex + i - 1)] = buffer[Place(outputIndex + i - 1)]
  <2>1. i - 1 \in 0 .. N - 1 /\ outputIndex + i - 1 = outputIndex + (i - 1)
    <3>1. FilledSlots(inputIndex, outputIndex) \in 0 .. N - 1 /\ outputIndex \in Slots
      BY FilledRange DEF StreamTypeOK
    <3>. QED  BY <3>1, StreamAssumption DEF Slots
  <2>2. Place(outputIndex + i - 1) \in Slots
    BY <2>1, PlaceInSlots DEF StreamTypeOK
  <2>. QED  BY <1>1, <2>2 DEF StoreItem, StreamTypeOK
<1>. QED  BY <1>2 DEF StoreItem, contents

(* The one assignment to inputIndex_ appends all that was stored. *)
LEMMA EndAppends ==
  ASSUME StreamInv, StreamInv', EndEnqueue
  PROVE  contents' = contents \o stored
<1>. USE DEF StreamInv
<1>1. /\ contents \in Seq(Values) /\ Len(contents) = FilledSlots(inputIndex, outputIndex)
      /\ stored \in Seq(Values) /\ Len(stored) = FilledSlots(wInput, inputIndex)
  BY ContentsType, StoredType
<1>2. /\ contents' \in Seq(Values)
      /\ Len(contents') = Len(contents) + Len(stored)
  BY <1>1, ContentsTypeNext, FilledAdds DEF EndEnqueue
<1>3. /\ contents \o stored \in Seq(Values)
      /\ Len(contents \o stored) = Len(contents) + Len(stored)
  BY <1>1, ConcatProperties
<1>4. ASSUME NEW i \in 1 .. Len(contents) + Len(stored)
      PROVE  contents'[i] = (contents \o stored)[i]
  <2>1. contents'[i] = buffer[Place(outputIndex + i - 1)]
    BY <1>1, FilledAdds DEF contents, EndEnqueue
  <2>2. CASE i =< Len(contents)
    <3>1. (contents \o stored)[i] = contents[i]
      BY <1>1, <2>2, ConcatProperties
    <3>2. i \in 1 .. FilledSlots(inputIndex, outputIndex)
      BY <1>1, <2>2
    <3>3. contents[i] = buffer[Place(outputIndex + i - 1)]
      BY <3>2 DEF contents
    <3>. QED  BY <2>1, <3>1, <3>3
  <2>3. CASE i > Len(contents)
    <3>1. /\ (contents \o stored)[i] = stored[i - Len(contents)]
          /\ i - Len(contents) \in 1 .. FilledSlots(wInput, inputIndex)
      BY <1>1, <2>3, ConcatProperties
    <3>2. stored[i - Len(contents)]
            = buffer[Place(inputIndex + (i - Len(contents)) - 1)]
      BY <3>1 DEF stored
    <3>3. FilledSlots(wInput, outputIndex) \in 0 .. N - 1
      BY FilledRange DEF StreamTypeOK
    <3>4. Place(inputIndex + (i - Len(contents)) - 1) = Place(outputIndex + i - 1)
      BY <1>1, <2>3, <3>3, FilledAdds, StreamAssumption
         DEF FilledSlots, Place, StreamTypeOK, Slots, EndEnqueue
    <3>. QED  BY <2>1, <3>1, <3>2, <3>4
  <2>. QED  BY <1>1, <2>2, <2>3
<1>. QED  BY <1>2, <1>3, <1>4, SeqEqual

(* The one assignment to outputIndex_ takes that many items off the front. *)
LEMMA DequeueDrops ==
  ASSUME StreamInv, StreamInv', NEW count \in 0 .. N, Dequeue(count)
  PROVE  /\ count \in 0 .. Len(contents)
         /\ contents' = SubSeq(contents, count + 1, Len(contents))
<1>. USE DEF StreamInv
<1>. DEFINE left == SubSeq(contents, count + 1, Len(contents))
<1>1. /\ contents \in Seq(Values)
      /\ Len(contents) = FilledSlots(inputIndex, outputIndex)
      /\ Len(contents) \in 0 .. N - 1
  BY ContentsType, FilledRange DEF StreamTypeOK
<1>2. /\ count =< Len(contents)
      /\ outputIndex' = Place(outputIndex + count)
      /\ FilledSlots(inputIndex, outputIndex') = Len(contents) - count
  BY <1>1, ReleaseRange
<1>3. contents' \in Seq(Values) /\ Len(contents') = Len(contents) - count
  BY <1>2, ContentsTypeNext DEF Dequeue
<1>4. /\ left \in Seq(Values)
      /\ Len(left) = Len(contents) - count
      /\ \A i \in 1 .. Len(contents) - count : left[i] = contents[count + i]
  BY <1>1, <1>2
<1>5. ASSUME NEW i \in 1 .. Len(contents) - count
      PROVE  contents'[i] = left[i]
  <2>1. contents'[i] = buffer[Place(outputIndex' + i - 1)]
    BY <1>2 DEF contents, Dequeue
  <2>2. count + i \in 1 .. FilledSlots(inputIndex, outputIndex)
    BY <1>1, <1>2
  <2>3. contents[count + i] = buffer[Place(outputIndex + (count + i) - 1)]
    BY <2>2 DEF contents
  <2>4. Place(outputIndex' + i - 1) = Place(outputIndex + (count + i) - 1)
    <3>1. count \in Nat /\ i \in Nat /\ count + i =< N - 1 /\ i >= 1
      <4>1. Len(contents) \in Nat /\ Len(contents) =< N - 1
        BY <1>1, StreamAssumption
      <4>2. count \in Nat /\ i \in Nat /\ i >= 1
        BY <1>1, StreamAssumption
      <4>3. count + i =< Len(contents)
        BY <1>2, <4>1, <4>2
      <4>. QED  BY <4>1, <4>2, <4>3, StreamAssumption
    <3>2. N \in Nat /\ outputIndex \in 0 .. N - 1
      BY StreamAssumption DEF StreamTypeOK, Slots
    <3>3. Place(Place(outputIndex + count) + i - 1) = Place(outputIndex + (count + i) - 1)
      BY ONLY <3>1, <3>2 DEF Place
    <3>. QED  BY <1>2, <3>3
  <2>. QED  BY <1>4, <2>1, <2>3, <2>4
<1>6. contents' = left
  BY <1>3, <1>4, <1>5, SeqEqual
<1>. QED  BY <1>1, <1>2, <1>6

LEMMA EndEnqueues ==
  ASSUME StreamInv, StreamInv', EndEnqueue
  PROVE  \E batch \in Batches : Queue!Enqueue(batch)
<1>. USE DEF StreamInv
<1>. DEFINE batch == stored \o rest
<1>1. batch \in Batches
  BY DEF EndEnqueue, BatchInHand
<1>2. stored \in Seq(Values) /\ rest \in Seq(Values)
  BY StoredType DEF StreamTypeOK
<1>3. /\ Len(stored) \in 0 .. Len(batch)
      /\ SubSeq(batch, 1, Len(stored)) = stored
  BY <1>2
<1>4. Len(contents) + Len(stored) =< N - 1
  <2>1. FilledSlots(wInput, outputIndex) \in 0 .. N - 1
    BY FilledRange DEF StreamTypeOK
  <2>2. Len(contents) + Len(stored) = FilledSlots(wInput, outputIndex)
    BY ContentsType, StoredType, FilledAdds DEF EndEnqueue
  <2>. QED  BY <2>1, <2>2, StreamAssumption
<1>5. contents' = contents \o SubSeq(batch, 1, Len(stored))
  BY <1>3, EndAppends
<1>6. Queue!Enqueue(batch)
  BY <1>3, <1>4, <1>5 DEF Queue!Enqueue
<1>. QED  BY <1>1, <1>6

(***************************************************************************)
(* For every size of the buffer: the two threads implement the bounded     *)
(* queue.  A batch appears at once, from its first item on, and every item *)
(* published leaves once, in order, unaltered (stream.h 21-101).           *)
(***************************************************************************)
THEOREM StreamImplementsQueue == StreamSpec => ImplementsQueue
<1>1. StreamInit => Queue!Init
  <2>. SUFFICES ASSUME StreamInit PROVE contents = <<>>
    BY DEF Queue!Init
  <2>1. StreamInv
    BY InitInv
  <2>2. contents \in Seq(Values) /\ Len(contents) = FilledSlots(0, 0)
    BY <2>1, ContentsType DEF StreamInit, StreamInv
  <2>3. FilledSlots(0, 0) = 0
    BY DEF FilledSlots
  <2>. QED  BY <2>2, <2>3
<1>2. StreamInv /\ StreamInv' /\ [StreamNext]_streamVars => [Queue!Next]_contents
  <2>. SUFFICES ASSUME StreamInv, StreamInv', [StreamNext]_streamVars
                PROVE  [Queue!Next]_contents
    OBVIOUS
  <2>1. CASE StoreItem
    BY <2>1, StoreHidden
  <2>2. CASE EndEnqueue
    BY <2>2, EndEnqueues DEF Queue!Next
  <2>3. ASSUME NEW count \in 0 .. N, Dequeue(count) PROVE Queue!Next
    BY <2>3, DequeueDrops DEF Queue!Next, Queue!Dequeue
  <2>4. CASE UNCHANGED shared
    BY <2>4 DEF shared, contents
  <2>5. CASE GetSpace
    BY <2>5, <2>4 DEF GetSpace
  <2>6. ASSUME NEW batch \in Batches, BeginEnqueue(batch)
        PROVE  UNCHANGED shared
    BY <2>6 DEF BeginEnqueue, shared
  <2>7. CASE PeekNonCopy \/ TakeItem
    BY <2>7, <2>4 DEF PeekNonCopy, TakeItem, shared
  <2>8. CASE UNCHANGED streamVars
    BY <2>8, <2>4 DEF streamVars
  <2>. QED
    BY <2>1, <2>2, <2>3, <2>4, <2>5, <2>6, <2>7, <2>8 DEF StreamNext, Write, Read
<1>3. StreamSpec => []StreamInv
  BY InitInv, NextInv, PTL DEF StreamSpec
<1>. QED  BY <1>1, <1>2, <1>3, PTL DEF StreamSpec, ImplementsQueue, Queue!Spec

=============================================================================
