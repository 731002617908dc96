--------------------------- MODULE CommandService ---------------------------
(***************************************************************************)
(* What a connection of the binary server promises its client: requests    *)
(* are handled one after the other in the order they were sent, none       *)
(* twice, none left out, and each is answered as its function says before  *)
(* the next is handled.  A reply is lost only while something of the       *)
(* client before is still to be sent.                                      *)
(***************************************************************************)
EXTENDS Integers, SequencesExt

CONSTANTS
  Requests,      (* what clients ask                                        *)
  NoReply,
  ReplyTo(_)     (* the reply to a request, or NoReply                      *)

VARIABLES
  requests,      (* arrived and not handled                                 *)
  replies,       (* not yet sent                                            *)
  leftover       (* is there output of an earlier client in front of them?  *)

vars == <<requests, replies, leftover>>

Init == requests = <<>> /\ replies = <<>> /\ leftover = FALSE

Arrive ==
  /\ requests' \in Seq(Requests)
  /\ IsStrictPrefix(requests, requests')
  /\ UNCHANGED <<replies, leftover>>

Handle ==
  /\ requests # <<>>
  /\ requests' = Tail(requests)
  /\ LET reply == ReplyTo(Head(requests))
     IN  \/ reply = NoReply /\ UNCHANGED replies
         \/ reply # NoReply /\ replies' = Append(replies, reply)
         \/ leftover /\ UNCHANGED replies
  /\ UNCHANGED leftover

Send ==
  /\ \E n \in 0..Len(replies) :
       /\ replies' = SubSeq(replies, n + 1, Len(replies))
       /\ leftover' \in IF n = 0 THEN {leftover, FALSE} ELSE {FALSE}
  /\ UNCHANGED requests

NewClient ==
  /\ requests' = <<>>
  /\ replies' = <<>>
  /\ leftover' \in BOOLEAN

Next == Arrive \/ Handle \/ Send \/ NewClient

Spec == Init /\ [][Next]_vars
=============================================================================
