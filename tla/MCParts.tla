------------------------------- MODULE MCParts -------------------------------
(***************************************************************************)
(* Parts for TLC: counters that soon wrap, and buffers that soon fill.     *)
(* Stream gets batches that fit its four slots, fill and overflow them.    *)
(***************************************************************************)
EXTENDS Parts

MCInterval ==
  [t \in {"arp", "reass", "tcp"} |-> CASE t = "tcp" -> 2 [] t = "reass" -> 2 [] t = "arp" -> 3]
MCValues == {0, 1}
MCBatches == {<<1>>, <<1, 0>>, <<0, 1, 1, 0, 1>>}
=============================================================================
