------------------------------- MODULE Stream -------------------------------
(***************************************************************************)
(* Stream (src/utils/stream/stream.h): a circular buffer between one       *)
(* thread that only writes and one that only reads, without a lock.        *)
(*                                                                         *)
(* The writer reads outputIndex_ once, stores its items one by one and     *)
(* publishes them all with one assignment to inputIndex_.  The reader      *)
(* reads inputIndex_ once, uses the items where they lie and releases them *)
(* with one assignment to outputIndex_.  A step here touches what the      *)
(* other thread can see at most once; the buffer and the indices are       *)
(* volatile and there is one core, so the steps keep the program's order.  *)
(***************************************************************************)
EXTENDS Integers, Sequences

CONSTANTS
  N,           (* size_: slots of the buffer                               *)
  Values,      (* T: what a slot holds                                     *)
  Batches      (* what the writer may pass to enqueue                      *)

ASSUME StreamAssumption ==
  /\ N \in Nat \ {0}
  /\ Batches \subseteq Seq(Values)

VARIABLES
  buffer, inputIndex, outputIndex,   (* shared                             *)
  writing,     (* the writer is inside enqueue                             *)
  wOutput,     (* its output_index: what outputIndex_ was when it began    *)
  wInput,      (* its input_index: where the next item goes                *)
  rest,        (* the items it has not stored yet                          *)
  space,       (* what getSpace returned since the last enqueue, 0 if none *)
  promised,    (* history: the batch was no longer than that               *)
  reading,     (* the reader holds a block it got from peekNonCopy         *)
  size,        (* the length of that block                                 *)
  taken        (* the items of the block it has used so far                *)

shared == <<buffer, inputIndex, outputIndex>>
writer == <<writing, wOutput, wInput, rest, space, promised>>
reader == <<reading, size, taken>>

streamVars == <<shared, writer, reader>>

Slots == 0 .. N - 1

Following(i) == IF i + 1 >= N THEN 0 ELSE i + 1

-----------------------------------------------------------------------------
(* getSpace, called by the writer. *)
Space_CountsEverySlot(in, out) ==                          \* mutant
  IF in >= out THEN N - in + out ELSE out - in - 1
Space(in, out) == IF in >= out THEN N - in + out - 1 ELSE out - in - 1

GetSpace ==
  /\ ~writing
  /\ space' = Space(inputIndex, outputIndex)
  /\ UNCHANGED <<shared, writing, wOutput, wInput, rest, promised, reader>>

(* enqueue, up to its loop. *)
BeginEnqueue(batch) ==
  /\ ~writing
  /\ writing' = TRUE
  /\ wOutput' = outputIndex
  /\ wInput' = inputIndex
  /\ rest' = batch
  /\ promised' = (Len(batch) =< space)
  /\ space' = 0
  /\ UNCHANGED <<shared, reader>>

(* The loop breaks on a full buffer and forgets the items that are left. *)
Full == Following(wInput) = wOutput

(* mutant: every item is published as soon as its slot is known *)
StoreItem_PublishesFirst ==
  /\ writing
  /\ rest # <<>>
  /\ ~Full
  /\ IF inputIndex = wInput
       THEN inputIndex' = Following(wInput) /\ UNCHANGED <<buffer, wInput, rest>>
       ELSE /\ buffer' = [buffer EXCEPT ![wInput] = Head(rest)]
            /\ rest' = Tail(rest)
            /\ wInput' = Following(wInput)
            /\ UNCHANGED inputIndex
  /\ UNCHANGED <<outputIndex, writing, wOutput, space, promised, reader>>

StoreItem ==
  /\ writing
  /\ rest # <<>>
  /\ ~Full
  /\ buffer' = [buffer EXCEPT ![wInput] = Head(rest)]
  /\ rest' = Tail(rest)
  /\ wInput' = Following(wInput)
  /\ UNCHANGED <<inputIndex, outputIndex, writing, wOutput, space, promised, reader>>

(* mutant: what is published counts the items that found no room, too *)
EndEnqueue_CountsAll ==
  /\ writing
  /\ rest = <<>> \/ Full
  /\ inputIndex' = (wInput + Len(rest)) % N
  /\ writing' = FALSE
  /\ UNCHANGED <<buffer, outputIndex, wOutput, wInput, rest, space, promised, reader>>

EndEnqueue ==
  /\ writing
  /\ rest = <<>> \/ Full
  /\ inputIndex' = wInput
  /\ writing' = FALSE
  /\ UNCHANGED <<buffer, outputIndex, wOutput, wInput, rest, space, promised, reader>>

-----------------------------------------------------------------------------
(* peekNonCopy: the filled slots from the reader on, up to the buffer's end. *)
PeekNonCopy ==
  /\ ~reading
  /\ inputIndex # outputIndex
  /\ reading' = TRUE
  /\ size' = IF inputIndex > outputIndex THEN inputIndex - outputIndex
                                         ELSE N - outputIndex
  /\ taken' = <<>>
  /\ UNCHANGED <<shared, writer>>

(* The caller uses the next item of the block where it lies. *)
TakeItem ==
  /\ reading
  /\ Len(taken) < size
  /\ taken' = Append(taken, buffer[outputIndex + Len(taken)])
  /\ UNCHANGED <<shared, writer, reading, size>>

(* dequeue of what was used, or of nothing when the caller could not send it. *)
Dequeue(count) ==
  /\ reading
  /\ count =< Len(taken)
  /\ outputIndex' = IF outputIndex + count >= N THEN outputIndex + count - N
                                                ELSE outputIndex + count
  /\ reading' = FALSE
  /\ UNCHANGED <<buffer, inputIndex, writer, size, taken>>

-----------------------------------------------------------------------------
(* The indices start at 0, as in a Stream of static storage. *)
StreamInit ==
  /\ buffer \in [Slots -> Values]
  /\ inputIndex = 0
  /\ outputIndex = 0
  /\ writing = FALSE
  /\ wOutput = 0
  /\ wInput = 0
  /\ rest = <<>>
  /\ space = 0
  /\ promised = FALSE
  /\ reading = FALSE
  /\ size = 0
  /\ taken = <<>>

Write == GetSpace \/ (\E batch \in Batches : BeginEnqueue(batch)) \/ StoreItem \/ EndEnqueue

Read == PeekNonCopy \/ TakeItem \/ \E count \in 0 .. N : Dequeue(count)

StreamNext == Write \/ Read

StreamSpec == StreamInit /\ [][StreamNext]_streamVars

-----------------------------------------------------------------------------
StreamTypeOK ==
  /\ buffer \in [Slots -> Values]
  /\ inputIndex \in Slots
  /\ outputIndex \in Slots
  /\ writing \in BOOLEAN
  /\ wOutput \in Slots
  /\ wInput \in Slots
  /\ rest \in Seq(Values)
  /\ space \in 0 .. N - 1
  /\ promised \in BOOLEAN
  /\ reading \in BOOLEAN
  /\ size \in 0 .. N
  /\ taken \in Seq(Values)

(* The items between the two indices, the oldest first. *)
FilledSlots(in, out) == IF in >= out THEN in - out ELSE N - out + in
Place(i) == IF i >= N THEN i - N ELSE i

contents ==
  [i \in 1 .. FilledSlots(inputIndex, outputIndex) |-> buffer[Place(outputIndex + i - 1)]]

(***************************************************************************)
(* What the reader uses in place is what was published: the writer, which  *)
(* goes by an outputIndex_ that may be old, stores nothing into the block  *)
(* the reader holds, and publishes nothing before it is stored.            *)
(***************************************************************************)
BlockIntact ==
  reading => /\ size =< Len(contents)
             /\ \A i \in 1 .. Len(taken) : taken[i] = contents[i]

(***************************************************************************)
(* Space that getSpace has reported is still there when enqueue uses it,   *)
(* although the reader moves on between the two calls: a batch no longer   *)
(* than that is never cut.                                                 *)
(***************************************************************************)
ReportedSpaceHolds == writing /\ promised /\ rest # <<>> => ~Full

(***************************************************************************)
(* The two threads together implement the queue: a batch appears at once   *)
(* and in order, and nothing published is lost, repeated or altered.       *)
(***************************************************************************)
Queue == INSTANCE StreamQueue WITH Capacity <- N - 1, queue <- contents

ImplementsQueue == Queue!Spec

=============================================================================
