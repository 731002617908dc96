----------------------------- MODULE ControlPipe -----------------------------
(***************************************************************************)
(* What a host may expect of endpoint 0: requests are served one at a      *)
(* time, each ends in a way that fits it, data come whole and from the     *)
(* request they were asked with, and a mute is carried out once, before    *)
(* the request is acknowledged, and never for another.                     *)
(***************************************************************************)
EXTENDS Naturals, SequencesExt

CONSTANTS
  Requests,      (* what a host may ask                                     *)
  MaxRequests,   (* bound of the model                                      *)
  MaxPacket      (* of endpoint 0                                           *)

VARIABLES
  number,        (* requests begun                                          *)
  req,           (* the last of them                                        *)
  outcome,       (* "open" until it ends                                    *)
  mutes          (* the requests carried out by MuteCtl, by number          *)

vars == <<number, req, outcome, mutes>>

Mutes(r) == r.kind = "setCur" /\ r.streaming
Applied == number \in ToSet(mutes)

Answers(r) ==
  CASE r.kind = "get" -> {"data"}
    [] r.kind = "set" -> {"done"}
    [] r.kind = "setCur" /\ r.wLength <= MaxPacket -> {"done", "cancelled"}
    [] r.kind = "setCur" /\ r.wLength > MaxPacket -> {"none", "cancelled"}
    [] r.kind = "unknown" -> {"stalled"}
    [] r.kind = "ignored" -> {"none"}

Begin ==
  /\ outcome # "open"
  /\ number < MaxRequests
  /\ number' = number + 1
  /\ req' \in Requests
  /\ outcome' = "open"
  /\ UNCHANGED mutes

Apply ==
  /\ outcome = "open"
  /\ Mutes(req) /\ ~Applied
  /\ mutes' = Append(mutes, number)
  /\ UNCHANGED <<number, req, outcome>>

Finish ==
  /\ outcome = "open"
  /\ outcome' \in Answers(req)
  /\ outcome' = "done" /\ Mutes(req) => Applied
  /\ outcome' = "cancelled" => ~Applied
  /\ UNCHANGED <<number, req, mutes>>

Init == number = 0 /\ req \in Requests /\ outcome = "none" /\ mutes = <<>>
Next == Begin \/ Apply \/ Finish

(* The host gives a request that gets no answer up: all of them end. *)
Spec == Init /\ [][Next]_vars /\ WF_vars(Finish)
=============================================================================
