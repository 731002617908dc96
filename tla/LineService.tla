----------------------------- MODULE LineService -----------------------------
(***************************************************************************)
(* What a line editor promises: text comes in, in pieces of any size, and  *)
(* each command is carried out once, in order, for the client that typed   *)
(* it, who may leave before that.  Only when what has come ends within a   *)
(* protocol command may the editor hang, and then for good.                *)
(***************************************************************************)
EXTENDS LineText

VARIABLES
  connected,
  piece,         (* what has come last, until all has been looked at        *)
  seen,          (* what the bytes amount to: see LineText                  *)
  ran,           (* the command carried out last                            *)
  hung           (* nothing happens any more                                *)

vars == <<connected, piece, seen, ran, hung>>

Connect ==
  /\ ~hung
  /\ ~connected
  /\ connected' = TRUE
  /\ UNCHANGED <<piece, seen, ran, hung>>

Disconnect ==
  /\ ~hung
  /\ connected
  /\ connected' = FALSE
  /\ seen' = Fresh
  /\ UNCHANGED <<piece, ran, hung>>

Arrive ==
  /\ ~hung
  /\ connected
  /\ piece = <<>>
  /\ piece' \in Seq(Bytes)
  /\ seen' = ReadAll(seen, piece')
  /\ UNCHANGED <<connected, ran, hung>>

LookedAt ==
  /\ ~hung
  /\ seen.lines = <<>>
  /\ piece' = <<>>
  /\ UNCHANGED <<connected, seen, ran, hung>>

Run ==
  /\ ~hung
  /\ seen.lines # <<>>
  /\ ran' = Head(seen.lines)
  /\ seen' = [seen EXCEPT !.lines = Tail(@)]
  /\ UNCHANGED <<connected, piece, hung>>

Hang ==
  /\ seen.skip > 0
  /\ hung' = TRUE
  /\ UNCHANGED <<connected, piece, seen, ran>>

Init == piece = <<>> /\ connected = FALSE /\ seen = Fresh /\ ran = <<>> /\ hung = FALSE

Next == Connect \/ Disconnect \/ Arrive \/ LookedAt \/ Run \/ Hang

Spec == Init /\ [][Next]_vars /\ WF_vars(Run \/ LookedAt)
=============================================================================
