------------------------- MODULE MCBinaryConnection -------------------------
(* BinaryConnection for TLC: an int of 2 bytes, a header of 4. *)
EXTENDS BinaryConnection

Frame(fn, size) == [fn |-> fn, size |-> size]
Setup(frames, inputSize, maxSegment) ==
  [frames |-> frames, inputSize |-> inputSize, maxSegment |-> maxSegment]

(***************************************************************************)
(* Requests that are answered with data, with an error, and not at all;    *)
(* or answered, and not handled ever; or only such as fill the buffer; or, *)
(* for a smaller buffer, a request and one that is a byte too long for it. *)
(***************************************************************************)
MCSetups == {Setup({Frame("ID", 4), Frame("ID", 5), Frame("ScanStart", 4)}, 10, 6),
             Setup({Frame("ID", 4), Frame("ID", 0)}, 10, 6),
             Setup({Frame("Ping", 0)}, 10, 6),
             Setup({Frame("ID", 4), Frame("Ping", 7)}, 6, 2)}
=============================================================================
