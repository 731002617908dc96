------------------------------- MODULE LineText -------------------------------
(***************************************************************************)
(* What a sequence of bytes typed by a user amounts to, one byte after     *)
(* another: the text between two line ends is a command, unless it begins  *)
(* with a space; a telnet protocol command, three bytes at the start of a  *)
(* line, is no text.                                                       *)
(***************************************************************************)
EXTENDS Integers, SequencesExt

CONSTANTS
  Letters,       (* printable bytes but the space                           *)
  MaxLine        (* the characters of a line that count                     *)

Printable == Letters \cup {" "}
Bytes == Printable \cup {"eol", "iac", "opt"}

LineTextAssumption ==
  /\ Letters \cap {" ", "eol", "iac", "opt"} = {}
  /\ MaxLine \in Nat \ {0}

(* Complete commands, the line begun, bytes of a protocol command to come. *)
Fresh == [lines |-> <<>>, line |-> <<>>, begun |-> FALSE, skip |-> 0]

IsCommand(text) == text # <<>> /\ Head(text) # " "

Scans == [lines : Seq(Seq(Printable)), line : Seq(Printable), begun : BOOLEAN, skip : 0..2]

Read[s \in Scans, b \in Bytes] ==
  CASE s.skip > 0 -> [s EXCEPT !.skip = @ - 1]
    [] s.skip = 0 /\ b = "iac" /\ ~s.begun -> [s EXCEPT !.skip = 2]
    [] s.skip = 0 /\ b = "eol" ->
         [Fresh EXCEPT !.lines = IF IsCommand(s.line) THEN Append(s.lines, s.line) ELSE s.lines]
    [] OTHER ->
         [s EXCEPT !.begun = TRUE,
                   !.line = IF b \in Printable /\ Len(@) < MaxLine THEN Append(@, b) ELSE @]

ReadAll(s, bytes) ==
  LET read[i \in 0..Len(bytes)] == IF i = 0 THEN s ELSE Read[read[i - 1], bytes[i]]
  IN  read[Len(bytes)]

Scan(bytes) == ReadAll(Fresh, bytes)
=============================================================================
