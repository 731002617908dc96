-------------------------- MODULE BinaryConnection --------------------------
(***************************************************************************)
(* One slot of the binary server (binary_connection.cpp), with the         *)
(* requests it serves (binary_server_api.cpp), under one client after      *)
(* another.  Clients write whole frames; TCP delivers their bytes in       *)
(* order, in pieces that have nothing to do with the frames.               *)
(*                                                                         *)
(* callback_recv passes a chain of buffers to input, one by one, and input *)
(* parses what it has: these loops are cut into steps, and nothing else    *)
(* happens between them.  A byte knows the frame or reply it is of and its *)
(* place there, and nothing of what it says.                               *)
(***************************************************************************)
EXTENDS Integers, SequencesExt

CONSTANTS
  Word,          (* bytes of an int: 4                                      *)
  Header,        (* bytes of a frame's header: 16                           *)
  OutSize,       (* what streamOut can hold                                 *)
  IdSize,        (* the length of the identification                        *)
  Setups,        (* what clients send and the sizes it meets: frames,       *)
                 (* inputSize (INPUT_BUFFER_SIZE) and maxSegment, the most  *)
                 (* bytes in one buffer of a chain (TCP_MSS)                *)
  MaxBegun,      (* bound of the model: frames begun in one chain           *)
  Window         (* replies a client waits for at a time                    *)

Functions == {"ID", "Ping", "LedSevenSeg", "DacSetOne", "ScanStart",
              "ScanStop", "ScanWriteSettings", "Other"}

Frames == UNION {s.frames : s \in Setups}

ASSUME BinaryAssumption ==
  /\ {Word, OutSize, IdSize, Window} \subseteq Nat \ {0}
  /\ \A s \in Setups : {s.inputSize, s.maxSegment} \subseteq Nat \ {0}
  /\ Header \in Nat /\ Header >= 2 * Word
  /\ \A f \in Frames : f.fn \in Functions /\ f.size \in Nat
                         /\ (f.size >= Header \/ f.size = 0)

VARIABLES
  setup,         (* the one of Setups, for good                             *)
  sending,       (* what the client has still to send of its last frame     *)
  awaited,       (* replies it waits for                                    *)
  pbufs,         (* the buffers of the chain still to be passed to input    *)
  buf,           (* inputBuffer_, up to inputBufferIndex_                   *)
  parsing,       (* parseInputBuffer is running                             *)
  processed,     (* its processedBytes                                      *)
  out,           (* streamOut                                               *)
  connected      (* connected_                                              *)

vars == <<setup, sending, awaited, pbufs, buf, parsing, processed, out, connected>>

InputSize == setup.inputSize
MaxSegment == setup.maxSegment

-----------------------------------------------------------------------------
(* The bytes of a frame: one with a bad size is its size alone. *)
BytesOf(f) == [k \in 1..Max({f.size, Word}) |-> [of |-> f, at |-> k]]

NoReply == [fn |-> "none", code |-> "none", size |-> 0]

(* sendResponse makes one frame of the header and the data. *)
Response(f, code, data) == [fn |-> f.fn, code |-> code, size |-> Header + data]

(* validateDataSize: what the functions that call it ask for. *)
NeedSize == [fn \in {"ID", "LedSevenSeg", "DacSetOne", "ScanStart", "ScanStop"} |->
               CASE fn = "LedSevenSeg" -> Word
                 [] fn = "DacSetOne" -> 2 * Word
                 [] OTHER -> 0]

WrongSize(f) ==
  LET size == f.size - Header
  IN  \/ f.fn \in DOMAIN NeedSize /\ size # NeedSize[f.fn]
      \/ f.fn = "ScanWriteSettings" /\ size < Word

(* BinaryServerApi::request.  Most functions answer nothing but an error. *)
ReplyTo(f) ==
  CASE WrongSize(f)                  -> Response(f, "WrongParameters", 0)
    [] f.fn = "ID" /\ ~WrongSize(f)  -> Response(f, "OK", IdSize)
    [] f.fn = "Other"                -> Response(f, "WrongFunction", 0)
    [] OTHER                         -> NoReply

ReplyBytes(r) == [k \in 1..r.size |-> [of |-> r, at |-> k]]

(* A byte for a client that has gone. *)
Leftover == [of |-> NoReply, at |-> 1]

(* mutant: one byte is kept free on top of the stream's own *)
Enqueue_LeavesOne(q, bytes) ==
  q \o SubSeq(bytes, 1, Max({0, Min({Len(bytes), OutSize - 1 - Len(q)})}))

(* Stream::enqueue.  Once a call has been cut, the next ones add nothing, *)
(* so the five calls of sendResponse are cut like one.                    *)
Enqueue(q, bytes) == q \o SubSeq(bytes, 1, Min({Len(bytes), OutSize - Len(q)}))

(* The frames whose last byte is among the bytes. *)
Ends(bytes) == SelectSeq(bytes, LAMBDA b : b.at = b.of.size)
Whole(bytes) == [k \in DOMAIN Ends(bytes) |-> Ends(bytes)[k].of]

Own(q) == SelectSeq(q, LAMBDA b : b # Leftover)

AtRest == pbufs = <<>> /\ ~parsing

-----------------------------------------------------------------------------
(* mutant: what the last client had begun stays *)
Start_KeepsInput ==
  /\ ~connected
  /\ connected' = TRUE
  /\ out' = [k \in DOMAIN out |-> Leftover]
  /\ UNCHANGED <<setup, sending, awaited, pbufs, buf, parsing, processed>>

(* start and stop, when the slot is claimed and freed: see TcpServers. *)
Start ==
  /\ ~connected
  /\ connected' = TRUE
  /\ buf' = <<>>
  /\ out' = [k \in DOMAIN out |-> Leftover]
  /\ UNCHANGED <<setup, sending, awaited, pbufs, parsing, processed>>

Stop ==
  /\ connected
  /\ AtRest
  /\ connected' = FALSE
  /\ sending' = <<>>
  /\ awaited' = 0
  /\ UNCHANGED <<setup, pbufs, buf, parsing, processed, out>>

(***************************************************************************)
(* callback_recv: a chain of one buffer, or of two when lwIP had queued    *)
(* the second out of order.  They hold what comes next in the client's     *)
(* stream: the rest of its last frame, then frames it begins.              *)
(***************************************************************************)
Begun(fs) == FlattenSeq([k \in DOMAIN fs |-> BytesOf(fs[k])])

Answered(fs) == SelectSeq(fs, LAMBDA f : ReplyTo(f) # NoReply)

Receive(fs, m, n) ==
  LET stream == sending \o Begun(fs)
      begunBefore == IF fs = <<>> THEN 0 ELSE Len(sending \o Begun(Front(fs)))
  IN  /\ connected
      /\ AtRest
      /\ begunBefore < m + n /\ m + n <= Len(stream)
      /\ awaited + Len(Answered(fs)) <= Window
      /\ awaited' = awaited + Len(Answered(fs))
      /\ pbufs' = IF n = 0 THEN <<SubSeq(stream, 1, m)>>
                  ELSE <<SubSeq(stream, 1, m), SubSeq(stream, m + 1, m + n)>>
      /\ sending' = SubSeq(stream, m + n + 1, Len(stream))
      /\ UNCHANGED <<setup, buf, parsing, processed, out, connected>>

Fits(seg) == Len(seg) <= InputSize - Len(buf)

(* input: the bytes are added and parsed, *)
Input ==
  /\ ~parsing
  /\ pbufs # <<>>
  /\ Fits(Head(pbufs))
  /\ buf' = buf \o Head(pbufs)
  /\ pbufs' = Tail(pbufs)
  /\ parsing' = TRUE
  /\ processed' = 0
  /\ UNCHANGED <<setup, sending, awaited, out, connected>>

(* or refused, which nobody looks at. *)
Refuse ==
  /\ ~parsing
  /\ pbufs # <<>>
  /\ ~Fits(Head(pbufs))
  /\ pbufs' = Tail(pbufs)
  /\ UNCHANGED <<setup, sending, awaited, buf, parsing, processed, out, connected>>

Rest == Len(buf) - processed
Current == buf[processed + 1].of       \* the frame at the parser's position

GoodSize == Current.size >= 2 * Word

(* mutant: a frame that ends with the input waits *)
FrameComplete_NeedsMore == Rest > Word /\ GoodSize /\ Rest > Current.size

(* One round of the loop of parseInputBuffer finds a frame. *)
FrameComplete == Rest > Word /\ GoodSize /\ Rest >= Current.size

HandleFrame ==
  /\ parsing
  /\ FrameComplete
  /\ out' = Enqueue(out, ReplyBytes(ReplyTo(Current)))
  /\ processed' = processed + Current.size
  /\ UNCHANGED <<setup, sending, awaited, pbufs, buf, parsing, connected>>

(* Where the loop has ended: a bad size is skipped, as far as it goes. *)
Skipped(n) == IF Rest > Word /\ ~GoodSize THEN n + Current.size ELSE n

Remainder == SubSeq(buf, Skipped(processed) + 1, Len(buf))

EndParse ==
  /\ parsing
  /\ ~FrameComplete
  /\ buf' = Remainder
  /\ processed' = 0
  /\ parsing' = FALSE
  /\ UNCHANGED <<setup, sending, awaited, pbufs, out, connected>>

(* sendOutput: tcp_write takes one block, two, or has no memory for it.  *)
(* Where the first block ends depends on where the ring of out wraps.    *)
SendOutput(n) ==
  /\ connected
  /\ AtRest
  /\ out' = SubSeq(out, n + 1, Len(out))
  /\ awaited' = awaited - Len(Ends(Own(SubSeq(out, 1, n))))
  /\ UNCHANGED <<setup, sending, pbufs, buf, parsing, processed, connected>>

-----------------------------------------------------------------------------
Init ==
  /\ setup \in Setups
  /\ sending = <<>> /\ pbufs = <<>> /\ buf = <<>> /\ out = <<>>
  /\ awaited = 0 /\ parsing = FALSE /\ processed = 0 /\ connected = FALSE

Next ==
  \/ Start \/ Stop
  \/ \E fs \in BoundedSeq(setup.frames, MaxBegun) :
       \E m \in 1..MaxSegment, n \in 0..MaxSegment : Receive(fs, m, n)
  \/ Input \/ Refuse \/ HandleFrame \/ EndParse
  \/ \E n \in 1..Len(out) : SendOutput(n)

Spec == Init /\ [][Next]_vars

-----------------------------------------------------------------------------
FrameBytes == UNION {{[of |-> f, at |-> k] : k \in DOMAIN BytesOf(f)} : f \in Frames}

TypeOK ==
  /\ setup \in Setups
  /\ sending \in Seq(FrameBytes)
  /\ \A i \in DOMAIN pbufs : pbufs[i] \in Seq(FrameBytes) /\ Len(pbufs[i]) \in 1..MaxSegment
  /\ buf \in Seq(FrameBytes) /\ Len(buf) <= InputSize
  /\ awaited \in 0..Window /\ parsing \in BOOLEAN /\ connected \in BOOLEAN
  /\ processed \in 0..Len(buf)
  /\ Len(out) <= OutSize

(***************************************************************************)
(* The parser only ever reads a size where a frame begins: no piece cut    *)
(* off by TCP, no frame behind another puts it out of step.                *)
(***************************************************************************)
ReadsAtFrameStart == parsing /\ Rest > Word => buf[processed + 1].at = 1

(* A frame that never leaves the buffer: of size zero, or too long for it. *)
Endless(f) == f.size = 0 \/ f.size > InputSize
Stuck == buf # <<>> /\ Endless(buf[1].of)

(***************************************************************************)
(* `This function should be called by the application when it has          *)
(* processed the data' (tcp_recved): callback_recv calls it for the whole  *)
(* chain.  So nothing of the chain may be refused.                         *)
(***************************************************************************)
AckedIsProcessed == pbufs # <<>> /\ ~parsing => Fits(Head(pbufs)) \/ Stuck

(***************************************************************************)
(* A request is handled in the call that brings its last byte, be it the   *)
(* first or the last of several: none waits for the client to say more.    *)
(***************************************************************************)
HandledAtOnce == AtRest => Whole(buf) = <<>> \/ Stuck

(***************************************************************************)
(* A client that does not wait for more than Window replies is never sent  *)
(* a reply cut short, unless the slot still held output of another client. *)
(* (Five calls of enqueue, each free to drop what it likes.)               *)
(***************************************************************************)
CutOnlyByLeftovers ==
  [][parsing /\ processed' > processed =>
       \/ Len(out') = Len(out) + ReplyTo(Current).size
       \/ \E i \in DOMAIN out : out[i] = Leftover]_vars

(***************************************************************************)
(* A size of zero, or one too large, at the front of the input ends the    *)
(* service: the slot stays connected, and no request of this client is     *)
(* handled any more, also when bytes behind it are lost and others kept.   *)
(***************************************************************************)
StuckForGood ==
  [][Stuck /\ connected /\ connected' => Stuck' /\ Len(out') <= Len(out)]_vars

FramesInStep ==
  /\ [](TypeOK /\ ReadsAtFrameStart /\ AckedIsProcessed /\ HandledAtOnce)
  /\ StuckForGood

(* What is there to be parsed: nothing from an endless frame on. *)
Unhandled ==
  LET bytes == SubSeq(buf, processed + 1, Len(buf)) \o FlattenSeq(pbufs)
      endless == {i \in DOMAIN bytes : Endless(bytes[i].of)}
  IN  SubSeq(bytes, 1, Min(endless \cup {Len(bytes) + 1}) - 1)

(* How the requests and replies of the promise show in the bytes. *)
Promise == INSTANCE CommandService WITH
  Requests <- Frames,
  requests <- Whole(Unhandled),
  replies <- Whole(Own(out)),
  leftover <- \E i \in DOMAIN out : out[i] = Leftover

(***************************************************************************)
(* However TCP cuts and joins the frames, the connection does what the     *)
(* abstract service promises.                                              *)
(***************************************************************************)
ImplementsService == Promise!Spec
=============================================================================
