----------------------------- MODULE MCDacRing ------------------------------
(* DacRing on a ring of a few slots.  A frame is <<k, -k>>, so a slot whose *)
(* two samples come from different frames shows.                           *)
EXTENDS DacRing, FiniteSetsExt, SequencesExt

(* The shorts of `count' frames of sample value k, or alternating with the *)
(* other value when `mixed'.                                               *)
Shorts(count, k) ==
  FlattenSeq([j \in 1 .. count |-> LET v == IF j % 2 = 1 THEN k ELSE 3 - k
                                   IN  <<v, -v>>])

MCSamples == {0, 1, 2, -1, -2}

(* Empty, one frame, a short last frame, and up to twice the ring.  No packet *)
(* is another one reversed, so the order of the frames shows.              *)
MCPackets == {Shorts(0, 1), Shorts(1, 1), Shorts(1, 2), Shorts(3, 1),
              Shorts(6, 2), Shorts(8, 1), <<1>>, <<1, -1, 2>>}

(***************************************************************************)
(* addData as its loop is written: one iteration of dac.cpp lines 126-138  *)
(* after another, on a record of the variables it assigns.                 *)
(***************************************************************************)
Iterate(st, a, b) ==
  LET newIndex == IF st.in + 1 = N THEN 0 ELSE st.in + 1
  IN  IF newIndex = outputIndex
        THEN [st EXCEPT !.over = @ + 1, !.left = TRUE]
        ELSE [st EXCEPT !.A[st.in] = a, !.B[st.in] = b, !.in = newIndex]

RECURSIVE Loop(_, _, _)
Loop(st, packet, i) ==
  IF st.left \/ i >= Len(packet) \div 2 THEN st
  ELSE Loop(Iterate(st, packet[i + 1], packet[i + 2]), packet, i + 2)

LoopStart == [in |-> inputIndex, A |-> channelA, B |-> channelB,
              over |-> counterOverflow, left |-> FALSE]

(***************************************************************************)
(* Every packet addData takes leaves the indices, arrays and overflow      *)
(* count exactly as running its loop slot by slot would: the closed form   *)
(* of DacRing and the code's loop agree in every state reached.            *)
(***************************************************************************)
MatchesLoop ==
  [][\A packet \in Packets : AddData(packet) =>
        LET end == Loop(LoopStart, packet, 0)
        IN  /\ inputIndex' = end.in
            /\ channelA' = end.A
            /\ channelB' = end.B
            /\ counterOverflow' = end.over]_vars

(***************************************************************************)
(* What usbd_audio.c:40-43 says of the stream (48 kHz, 16 bit, 2 channels, *)
(* so four bytes a frame) asks of addData: unless the ring filled up, every *)
(* frame of the packet is stored.  The loop runs i += 2 below size / 4, so *)
(* it leaves after half of them.                                           *)
(***************************************************************************)
EveryFrameStored ==
  [][\A packet \in Packets :
        AddData(packet) /\ bufferLevel' < N - 1
          => fresh' = fresh + Len(packet) \div 2]_vars
=============================================================================
