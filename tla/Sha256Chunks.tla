----------------------------- MODULE Sha256Chunks -----------------------------
(***************************************************************************)
(* How sha256.cpp cuts a message into chunks: sha_256_write takes the      *)
(* message in pieces of any size, from the caller's memory or by way of a  *)
(* buffer, and sha_256_close pads it.  The UDP responder hashes every      *)
(* datagram so.  What consume_chunk computes is left out: hashed is the    *)
(* sequence of the bytes it has been given.                                *)
(***************************************************************************)
EXTENDS Integers, SequencesExt

CONSTANTS
  ChunkSize,     (* SIZE_OF_SHA_256_CHUNK: 64                               *)
  LenLen,        (* TOTAL_LEN_LEN: 8                                        *)
  Base,          (* values of a byte: 256                                   *)
  MaxTotal       (* bound of the model: the longest message                 *)

(* What ^ is, of which the provers know nothing else. *)
PowersOf(b, most) ==
  b ^ 0 = 1 /\ \A n \in 0..most - 1 : b ^ n \in Nat \ {0} /\ b ^ (n + 1) = b * b ^ n

Sha256Assumption ==
  /\ LenLen \in Nat \ {0} /\ ChunkSize \in Nat /\ ChunkSize > LenLen
  /\ Base \in Nat \ {0} /\ Base % 8 = 0
  /\ MaxTotal \in Nat /\ 8 * MaxTotal < Base ^ LenLen
  /\ PowersOf(Base, LenLen)

(* The bytes of a message know their place; others have a value. *)
Data(k, hash) == [of |-> hash, value |-> k]
Other(value) == [of |-> 0, value |-> value]

VARIABLES
  hash,          (* the message: this one or the other, before and after it *)
  total,         (* total_len                                               *)
  left,          (* what is left of len in sha_256_write                    *)
  chunk,         (* chunk                                                   *)
  spaceLeft,     (* space_left; chunk_pos is what is before it              *)
  hashed,        (* the chunks consumed, one behind the other               *)
  pc             (* "new", "open", "write", "padded" or "closed"            *)

vars == <<hash, total, left, chunk, spaceLeft, hashed, pc>>

Piece(from, n) == [k \in 1..n |-> Data(from + k, hash)]
Message == Piece(0, total)
Filled == ChunkSize - spaceLeft       \* chunk_pos - chunk

(* The chunk with bytes written from its current position on. *)
Put(c, pos, bytes) ==
  [k \in 1..ChunkSize |-> IF k \in pos + 1..pos + Len(bytes) THEN bytes[k - pos] ELSE c[k]]

Zeros(n) == [k \in 1..n |-> Other(0)]

-----------------------------------------------------------------------------
(* sha_256_init, on memory that held another calculation. *)
ShaInit ==
  /\ pc \in {"new", "closed"}
  /\ hash' = 3 - hash
  /\ total' = 0 /\ left' = 0 /\ spaceLeft' = ChunkSize
  /\ hashed' = <<>>
  /\ pc' = "open"
  /\ UNCHANGED chunk

Write(len) ==
  /\ pc = "open"
  /\ total + len <= MaxTotal
  /\ total' = total + len
  /\ left' = len
  /\ pc' = "write"
  /\ UNCHANGED <<hash, chunk, spaceLeft, hashed>>

(* mutant: a chunk is taken past the buffer even if that is not empty *)
Direct_AnySpace == left >= ChunkSize
Direct == spaceLeft = ChunkSize /\ left >= ChunkSize

(* The pass of the loop that takes a chunk from the caller's memory ... *)
WriteDirect ==
  /\ pc = "write"
  /\ Direct
  /\ hashed' = hashed \o Piece(total - left, ChunkSize)
  /\ left' = left - ChunkSize
  /\ UNCHANGED <<hash, total, chunk, spaceLeft, pc>>

(* ... and the one that goes by way of the buffer, consumed when full. *)
ConsumeFull(space) == space = 0

WriteBuffered ==
  LET consumed == Min({left, spaceLeft})
      filled == Put(chunk, Filled, Piece(total - left, consumed))
      space == spaceLeft - consumed
  IN  /\ pc = "write"
      /\ left > 0 /\ ~Direct
      /\ chunk' = filled
      /\ left' = left - consumed
      /\ \/ ConsumeFull(space) /\ hashed' = hashed \o filled /\ spaceLeft' = ChunkSize
         \/ ~ConsumeFull(space) /\ spaceLeft' = space /\ UNCHANGED hashed
      /\ UNCHANGED <<hash, total, pc>>

WriteEnd ==
  /\ pc = "write"
  /\ left = 0
  /\ pc' = "open"
  /\ UNCHANGED <<hash, total, left, chunk, spaceLeft, hashed>>

NoRoom(space) == space < LenLen

(* sha_256_close: a one bit; a chunk more if the length does not fit. *)
PadOne ==
  LET one == Put(chunk, Filled, <<Other(Base \div 2)>>)
      space == spaceLeft - 1
  IN  /\ pc = "open"
      /\ \/ /\ NoRoom(space)
            /\ chunk' = Put(one, ChunkSize - space, Zeros(space))
            /\ hashed' = hashed \o chunk'
            /\ spaceLeft' = ChunkSize
         \/ ~NoRoom(space) /\ chunk' = one /\ spaceLeft' = space /\ UNCHANGED hashed
      /\ pc' = "padded"
      /\ UNCHANGED <<hash, total, left>>

(* pos[7] = len << 3, and len >>= 5, then 8, for the bytes before it. *)
LengthBytes ==
  [k \in 1..LenLen |->
     Other(IF k = LenLen THEN (total * 8) % Base
           ELSE ((total \div (Base \div 8)) \div Base ^ (LenLen - 1 - k)) % Base)]

PadLength ==
  /\ pc = "padded"
  /\ chunk' = Put(chunk, Filled, Zeros(spaceLeft - LenLen) \o LengthBytes)
  /\ hashed' = hashed \o chunk'
  /\ pc' = "closed"
  /\ UNCHANGED <<hash, total, left, spaceLeft>>

Init ==
  /\ hash = 1 /\ total = 0 /\ left = 0 /\ spaceLeft = ChunkSize
  /\ chunk = [k \in 1..ChunkSize |-> Other(1)]       \* whatever was there
  /\ hashed = <<>> /\ pc = "new"

Next ==
  \/ ShaInit
  \/ \E len \in 0..MaxTotal : Write(len)
  \/ WriteDirect \/ WriteBuffered \/ WriteEnd
  \/ PadOne \/ PadLength

Spec == Init /\ [][Next]_vars

-----------------------------------------------------------------------------
Byte == [of : {0}, value : 0..Base - 1] \cup [of : {1, 2}, value : 1..MaxTotal]

TypeOK ==
  /\ hash \in {1, 2}
  /\ total \in 0..MaxTotal /\ left \in 0..total
  /\ chunk \in [1..ChunkSize -> Byte]
  /\ spaceLeft \in 0..ChunkSize
  /\ hashed \in Seq(Byte)
  /\ pc \in {"new", "open", "write", "padded", "closed"}

(***************************************************************************)
(* `The current chunk cannot be full.  Otherwise, it would already have be *)
(* consumed': there is room for the one bit, however the pieces fell.      *)
(***************************************************************************)
ChunkNotFull == pc = "open" => spaceLeft > 0

(***************************************************************************)
(* What was hashed and what is in the buffer are the message so far: no    *)
(* byte is lost, repeated or out of place between the two ways of writing. *)
(***************************************************************************)
MessageSoFar ==
  pc \in {"open", "write"} =>
    hashed \o SubSeq(chunk, 1, Filled) = Piece(0, total - left)

(***************************************************************************)
(* FIPS 180-4, 5.1.1: the message, a one bit, as few zeros as make it      *)
(* whole chunks with the length in bits at the end.                        *)
(***************************************************************************)
Digits(n) == [k \in 1..LenLen |-> Other((n \div Base ^ (LenLen - k)) % Base)]

Padding(n) == CHOOSE z \in 0..ChunkSize - 1 : (n + 1 + z + LenLen) % ChunkSize = 0

HashedIsPadded ==
  pc = "closed" =>
    hashed = Message \o <<Other(Base \div 2)>> \o Zeros(Padding(total)) \o Digits(8 * total)
=============================================================================
