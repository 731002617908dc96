--------------------------- MODULE TelnetConnection ---------------------------
(***************************************************************************)
(* One slot of the telnet server (telnet_connection.cpp): its input buffer *)
(* and the lines parsed out of it.  callback_recv passes one buffer after  *)
(* another to input, which parses before it returns.                       *)
(*                                                                         *)
(* A byte is a letter, a space, a line end (CR or LF), IAC (255), or one   *)
(* the parser ignores.  What a command says back, and what `dac' does, is  *)
(* left out; for the pool see TcpServers.                                  *)
(***************************************************************************)
EXTENDS LineText

CONSTANTS
  InputSize,     (* INPUT_BUFFER_SIZE                                       *)
  MaxSegment     (* the most bytes of a buffer: TCP_MSS                     *)

TelnetAssumption ==
  /\ {InputSize, MaxSegment} \subseteq Nat \ {0}
  /\ LineTextAssumption

VARIABLES
  connected,     (* connected_                                              *)
  unsent,        (* the rest of a protocol command that TCP has cut         *)
  buf,           (* inputBuffer_, up to inputBufferIndex_                   *)
  data,          (* what input was called with, while it parses             *)
  ran,           (* the command line carried out last                       *)
  faulted        (* the index was reduced by more than it was               *)

parsing == data # <<>>
vars == <<connected, unsent, buf, data, ran, faulted>>

-----------------------------------------------------------------------------
Start ==
  /\ ~connected
  /\ connected' = TRUE
  /\ buf' = <<>>
  /\ UNCHANGED <<unsent, data, ran, faulted>>

Stop ==
  /\ connected
  /\ ~parsing
  /\ connected' = FALSE
  /\ unsent' = <<>>
  /\ UNCHANGED <<buf, data, ran, faulted>>

(* What a client may send next: bytes and protocol commands. *)
Items == {<<b>> : b \in Bytes \ {"iac"}} \cup {<<"iac", "opt", "opt">>}

Pieces ==
  {p \in {FlattenSeq(items) : items \in BoundedSeq(Items, MaxSegment)} :
     Len(p) <= MaxSegment + 2}

LineEnds(bytes) == {i \in DOMAIN bytes : bytes[i] = "eol"}

Fits(seg) == Len(seg) <= InputSize - Len(buf)

(***************************************************************************)
(* input: the next n bytes of what the client sends are added and parsed,  *)
(* or refused, which nobody looks at.                                      *)
(***************************************************************************)
Input(p, n) ==
  LET seg == SubSeq(unsent \o p, 1, n)
      rest == SubSeq(unsent \o p, n + 1, Len(unsent \o p))
  IN  /\ connected /\ ~parsing
      /\ n <= Len(unsent \o p)
      /\ rest \in BoundedSeq({"opt"}, 2)
      /\ unsent' = rest
      /\ \/ Fits(seg) /\ buf' = buf \o seg /\ data' = seg
         \/ ~Fits(seg) /\ UNCHANGED <<buf, data>>
      /\ UNCHANGED <<connected, ran, faulted>>

(***************************************************************************)
(* parseInputBuffer, a round of whose loop asks parseFrame how many bytes  *)
(* are done with, and moves the rest to the front.                         *)
(***************************************************************************)
SkipsCommand == buf # <<>> /\ Head(buf) = "iac"

LineEnd == Min(LineEnds(buf))

Moved(n) == SubSeq(buf, n + 1, Len(buf))

CommandSize_Two == 2     \* mutant: the command without its option
CommandSize == 3

(***************************************************************************)
(* The move behind a protocol command; its count is unsigned: with fewer   *)
(* bytes there than the command has, the loop does not end.                *)
(***************************************************************************)
SkipCommand ==
  /\ parsing /\ ~faulted
  /\ SkipsCommand
  /\ \/ CommandSize <= Len(buf) /\ buf' = Moved(CommandSize) /\ UNCHANGED faulted
     \/ CommandSize > Len(buf) /\ faulted' = TRUE /\ UNCHANGED buf
  /\ UNCHANGED <<connected, unsent, data, ran>>

Text(bytes) ==
  LET printable == SelectSeq(bytes, LAMBDA b : b \in Printable)
  IN  SubSeq(printable, 1, Min({MaxLine, Len(printable)}))

HandleLine ==
  /\ parsing
  /\ ~SkipsCommand
  /\ LineEnds(buf) # {}
  /\ LET text == Text(SubSeq(buf, 1, LineEnd))
     IN  ran' = IF IsCommand(text) THEN text ELSE ran
  /\ buf' = Moved(LineEnd)
  /\ UNCHANGED <<connected, unsent, data, faulted>>

EndParse ==
  /\ parsing
  /\ ~SkipsCommand
  /\ LineEnds(buf) = {}
  /\ data' = <<>>
  /\ UNCHANGED <<connected, unsent, buf, ran, faulted>>

(* The loop that does not end. *)
MoveOn == faulted /\ UNCHANGED vars

Init ==
  /\ connected = FALSE /\ faulted = FALSE
  /\ unsent = <<>> /\ buf = <<>> /\ data = <<>> /\ ran = <<>>

Parse == SkipCommand \/ HandleLine \/ EndParse

Next ==
  \/ Start \/ Stop
  \/ \E p \in Pieces, n \in 1..MaxSegment : Input(p, n)
  \/ Parse \/ MoveOn

(* parseInputBuffer runs to its end. *)
Spec == Init /\ [][Next]_vars /\ WF_vars(Parse)

-----------------------------------------------------------------------------
TypeOK ==
  /\ {connected, faulted} \subseteq BOOLEAN
  /\ buf \in Seq(Bytes) /\ Len(buf) <= InputSize
  /\ data \in Seq(Bytes) /\ Len(data) <= MaxSegment
  /\ unsent \in Seq({"opt"}) /\ Len(unsent) <= 2
  /\ ran \in Seq(Printable) /\ Len(ran) <= MaxLine

(***************************************************************************)
(* A line that fills the buffer without its end closes the connection's    *)
(* ears: it takes no input and runs no command until the client has gone.  *)
(***************************************************************************)
Full == connected /\ ~parsing /\ Len(buf) = InputSize
DeafWhenFull == [][Full /\ connected' => Full' /\ ran' = ran]_vars

(***************************************************************************)
(* Lines cut and joined by TCP in every way are carried out each once, in  *)
(* order, whole, by what they say alone, and the loop over the buffer ends *)
(* unless TCP has cut a protocol command in two.                           *)
(***************************************************************************)
Service == INSTANCE LineService WITH
  piece <- data,
  seen <- IF connected THEN Scan(buf) ELSE Fresh,
  hung <- faulted
ImplementsService == Service!Spec
=============================================================================
