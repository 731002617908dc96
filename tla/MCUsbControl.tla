---------------------------- MODULE MCUsbControl ----------------------------
(***************************************************************************)
(* UsbControl for TLC: requests for data at and around the multiples of    *)
(* the packet size, both in what is there and in what is asked for.        *)
(***************************************************************************)
EXTENDS UsbControl

Get(len, wLength) ==
  [kind |-> "get", len |-> len, wLength |-> wLength, streaming |-> FALSE]
NoData(kind) == [kind |-> kind, len |-> 0, wLength |-> 0, streaming |-> FALSE]
SetCurOf(wLength, unit) ==
  [kind |-> "setCur", len |-> 0, wLength |-> wLength, streaming |-> unit]

MCRequests ==
  {Get(len, wLength) : len \in 1..5, wLength \in {1, 2, 4, 5, 6}}
    \cup {NoData(kind) : kind \in {"set", "unknown", "ignored"}}
    \cup {SetCurOf(1, TRUE), SetCurOf(2, FALSE), SetCurOf(3, TRUE)}
    \cup {[NoData("ignored") EXCEPT !.wLength = 2]}
=============================================================================
