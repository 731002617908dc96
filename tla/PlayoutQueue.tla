---------------------------- MODULE PlayoutQueue ----------------------------
(***************************************************************************)
(* What the sample buffer between the USB callback and the DAC timer       *)
(* promises, with no ring, no index and no slot in sight.                  *)
(*                                                                         *)
(* Frames that were accepted wait in `pending' and leave it in the order   *)
(* they arrived, one per timer tick.  The buffer has no notion of being    *)
(* empty: a tick that finds nothing to play starts a `gap' of Capacity     *)
(* ticks in which old frames are passed over again, and the frames         *)
(* accepted meanwhile queue up behind it.  A frame is refused only when    *)
(* the gap and the pending frames together fill the buffer.                *)
(***************************************************************************)
EXTENDS Integers, Sequences

CONSTANTS
  Capacity,     (* frames the buffer holds                                 *)
  Offers,       (* the frame sequences a producer may offer at once        *)
  MaxRefusals   (* bound on the offers that are cut short                  *)

VARIABLES
  pending,      (* accepted frames not yet passed to the converter         *)
  gap,          (* ticks of replayed old frames before Head(pending)       *)
  refusals      (* offers that were cut short                              *)

vars == <<pending, gap, refusals>>

Init ==
  /\ pending = <<>>
  /\ gap = 0
  /\ refusals = 0

Room == Capacity - gap - Len(pending)

(* The whole of the offer is accepted. *)
AcceptAll(offer) ==
  /\ Len(offer) =< Room
  /\ pending' = pending \o offer
  /\ UNCHANGED <<gap, refusals>>

(* The head of the offer fills the buffer and the rest is refused. *)
AcceptHead(offer) ==
  /\ Len(offer) > Room
  /\ refusals < MaxRefusals
  /\ pending' = pending \o SubSeq(offer, 1, Room)
  /\ refusals' = refusals + 1
  /\ UNCHANGED gap

Offer == \E offer \in Offers : AcceptAll(offer) \/ AcceptHead(offer)

(* A tick passes over one old frame of the gap. *)
Replay ==
  /\ gap > 0
  /\ gap' = gap - 1
  /\ UNCHANGED <<pending, refusals>>

(* A tick passes the oldest pending frame. *)
PlayHead ==
  /\ gap = 0
  /\ pending # <<>>
  /\ pending' = Tail(pending)
  /\ UNCHANGED <<gap, refusals>>

(* A tick finds nothing pending and opens a gap. *)
Underrun ==
  /\ gap = 0
  /\ pending = <<>>
  /\ gap' = Capacity
  /\ UNCHANGED <<pending, refusals>>

Tick == Replay \/ PlayHead \/ Underrun

Next == Offer \/ Tick

SafeSpec == Init /\ [][Next]_vars

Spec == SafeSpec /\ WF_vars(Tick)

=============================================================================
