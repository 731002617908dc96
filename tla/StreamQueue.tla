---------------------------- MODULE StreamQueue -----------------------------
(***************************************************************************)
(* What Stream promises its two threads: a bounded queue.  A call of       *)
(* enqueue adds some of the items it is given, from the first one on, and  *)
(* adds them all at once; a call of dequeue takes items off the front.     *)
(***************************************************************************)
EXTENDS Integers, Sequences

CONSTANTS
  Capacity,    (* items the queue holds                                    *)
  Batches      (* what the writer may offer in one call                    *)

VARIABLE queue

Init == queue = <<>>

Enqueue(batch) ==
  \E count \in 0 .. Len(batch) :
    /\ Len(queue) + count =< Capacity
    /\ queue' = queue \o SubSeq(batch, 1, count)

Dequeue ==
  \E count \in 0 .. Len(queue) : queue' = SubSeq(queue, count + 1, Len(queue))

Next == (\E batch \in Batches : Enqueue(batch)) \/ Dequeue

Spec == Init /\ [][Next]_queue

=============================================================================
