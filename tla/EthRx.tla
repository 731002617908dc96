-------------------------------- MODULE EthRx --------------------------------
(***************************************************************************)
(* Reception on the Ethernet interface: the ring of receive descriptors    *)
(* that the MAC's DMA fills and HAL_ETH_ReadData (stm32h7xx_hal_eth.c)     *)
(* empties, and the pool of buffers behind it (ethernetif.c).  A buffer    *)
(* goes from the pool to a descriptor, is linked into a packet, given to   *)
(* lwIP, and freed.  When the pool is empty descriptors stay without, and  *)
(* RxAllocStatus keeps low_level_input from reading until one is freed.    *)
(*                                                                         *)
(* The processor's loop is one thread (NO_SYS); the DMA works at the same  *)
(* time, and the link may go down and up.                                  *)
(***************************************************************************)
EXTENDS Integers, Sequences, FiniteSets

CONSTANTS
  DescCnt,       (* ETH_RX_DESC_CNT                                         *)
  Buffers,       (* RX_POOL, ETH_RX_BUFFER_CNT of them                      *)
  NoBuffer,      (* the null pointer                                        *)
  RxBuffLen,     (* the length of a buffer                                  *)
  MaxBuffers,    (* buffers a packet may take (oversize ones take two)      *)
  MaxLinkDowns   (* bound of the model: how often the link goes down        *)

ASSUME EthRxAssumption ==
  /\ NoBuffer \notin Buffers
  /\ IsFiniteSet(Buffers)
  /\ DescCnt \in Nat \ {0}
  /\ DescCnt =< Cardinality(Buffers)    \* 4 and 12; so does ethernetif.c 70 ask
  /\ RxBuffLen \in Nat \ {0}
  /\ MaxBuffers \in {1, 2}  \* the watchdog cuts at 2 KB, a buffer takes 1536 bytes
  /\ MaxLinkDowns \in Nat

VARIABLES
  desc,          (* the descriptors: OWN, BackupAddr0, FD, LD, packet length *)
  dmaIdx,        (* the DMA's position in the ring                          *)
  filled,        (* the buffers it has filled of the packet under way       *)
  arrived,       (* history: packets complete and not read, until the link  *)
                 (* goes down for the first time                            *)
  rxIdx,         (* RxDescIdx                                               *)
  buildIdx, buildCnt,    (* RxBuildDescIdx, RxBuildDescCnt                  *)
  chain,         (* the pbufs from pRxStart to pRxEnd                       *)
  dataLength,    (* RxDataLength                                            *)
  allocError,    (* RxAllocStatus = RX_ALLOC_ERROR                          *)
  pool, held,    (* buffers that are free, and those lwIP has               *)
  started,       (* gState: HAL_ETH_STATE_STARTED or READY                  *)
  pc, count,     (* where the processor is; descriptors read or to build    *)
  downs          (* how often the link has gone down                        *)

ring == <<desc, dmaIdx, filled, arrived>>
hal == <<rxIdx, buildIdx, buildCnt, chain, dataLength>>
bufs == <<allocError, pool, held>>
vars == <<ring, hal, bufs, started, pc, count, downs>>

Descs == 0..DescCnt - 1
LinkKept == downs = 0
NextDesc(d) == (d + 1) % DescCnt

(***************************************************************************)
(* The DMA writes a buffer's worth of a packet back to the descriptor it   *)
(* is at.  The length of the packet comes with the last one.               *)
(***************************************************************************)
DmaFill(last) ==
  /\ started
  /\ desc[dmaIdx].own
  /\ ~last => Len(filled) + 1 < MaxBuffers
  /\ \E rest \in IF last THEN 1..RxBuffLen ELSE {RxBuffLen} :
       LET part == [buf |-> desc[dmaIdx].buf, len |-> rest]
       IN  /\ desc' = [desc EXCEPT ![dmaIdx] =
                 [@ EXCEPT !.own = FALSE, !.fd = (filled = <<>>), !.ld = last,
                           !.pl = IF last THEN RxBuffLen * Len(filled) + rest ELSE 0]]
           /\ dmaIdx' = NextDesc(dmaIdx)
           /\ IF last
                THEN /\ filled' = <<>>
                     /\ arrived' = IF LinkKept THEN Append(arrived, Append(filled, part)) ELSE <<>>
                ELSE /\ filled' = Append(filled, part)
                     /\ UNCHANGED arrived
  /\ UNCHANGED <<hal, bufs, started, pc, count, downs>>

-----------------------------------------------------------------------------
(* low_level_input calls HAL_ETH_ReadData. *)
LowLevelInput ==
  /\ pc = "idle"
  /\ ~allocError
  /\ started
  /\ pc' = "read"
  /\ count' = 0
  /\ UNCHANGED <<ring, hal, bufs, started, downs>>

(* HAL_ETH_RxLinkCallback: every tot_len of the chain grows by the length. *)
Linked(c, part) ==
  Append([i \in DOMAIN c |-> [c[i] EXCEPT !.tot = @ + part.len]],
         [buf |-> part.buf, len |-> part.len, tot |-> part.len])

(* mutant: the descriptors that are still to be built are read as well *)
Readable_All == ~desc[rxIdx].own /\ count < DescCnt
Readable == ~desc[rxIdx].own /\ count < DescCnt - buildCnt

(* mutant: the descriptor keeps its buffer as well *)
Emptied_KeepsBuffer(d) == d
Emptied(d) == [d EXCEPT !.buf = NoBuffer]

LengthBefore(d) == IF d.fd THEN 0 ELSE dataLength

(* One round of the loop of HAL_ETH_ReadData; the last of a packet ends it. *)
ReadDesc ==
  LET d == desc[rxIdx]
      before == LengthBefore(d)
      length == IF d.ld THEN d.pl - before ELSE RxBuffLen
      belongs == d.fd \/ chain # <<>>
  IN  /\ pc = "read"
      /\ Readable
      /\ \/ /\ belongs
            /\ chain' = Linked(chain, [buf |-> d.buf, len |-> length])
            /\ dataLength' = before + length
            /\ desc' = [desc EXCEPT ![rxIdx] = Emptied(@)]
         \/ ~belongs /\ UNCHANGED <<chain, dataLength, desc>>
      /\ rxIdx' = NextDesc(rxIdx)
      /\ count' = count + 1
      /\ pc' = IF belongs /\ d.ld THEN "ready" ELSE "read"
      /\ UNCHANGED <<dmaIdx, filled, arrived, buildIdx, buildCnt, bufs, started, downs>>

(* mutant: descriptors are built only if any has been read *)
ReadEnd_OnlyAfterReading ==
  /\ \/ pc = "read" /\ ~Readable /\ pc' = IF count > 0 THEN "build" ELSE "idle"
     \/ pc = "ready" /\ pc' = "buildReady"
  /\ buildCnt' = buildCnt + count
  /\ count' = IF count > 0 THEN buildCnt + count ELSE 0
  /\ UNCHANGED <<ring, rxIdx, buildIdx, chain, dataLength, bufs, started, downs>>

(* ETH_UpdateDescriptor is called if there is anything to build. *)
ReadEnd ==
  /\ \/ pc = "read" /\ ~Readable /\ pc' = "build"
     \/ pc = "ready" /\ pc' = "buildReady"
  /\ buildCnt' = buildCnt + count
  /\ count' = buildCnt + count
  /\ UNCHANGED <<ring, rxIdx, buildIdx, chain, dataLength, bufs, started, downs>>

Building == pc \in {"build", "buildReady"}
ToBuild == (buildIdx + buildCnt - count) % DescCnt

(* memp_alloc_pool.  The buffers are alike: it does not matter which one. *)
Allocated == {b \in pool : b = CHOOSE c \in pool : TRUE}

NewBuffer(d) == IF desc[d].buf = NoBuffer THEN Allocated ELSE {desc[d].buf}

Blank == [own |-> FALSE, buf |-> NoBuffer, fd |-> FALSE, ld |-> FALSE, pl |-> 0]

(* One round of its loop: HAL_ETH_RxAllocateCallback, OWN. *)
BuildDesc ==
  /\ Building
  /\ count > 0
  /\ \E b \in NewBuffer(ToBuild) :
       /\ desc' = [desc EXCEPT ![ToBuild] = [Blank EXCEPT !.own = TRUE, !.buf = b]]
       /\ pool' = pool \ {b}
  /\ count' = count - 1
  /\ UNCHANGED <<dmaIdx, filled, arrived, hal, allocError, held, started, pc, downs>>

OutOfBuffers == count > 0 /\ desc[ToBuild].buf = NoBuffer /\ pool = {}

Delivered == [i \in DOMAIN chain |-> [buf |-> chain[i].buf, len |-> chain[i].len]]

(* All built, or no buffer; the packet that is ready goes to lwIP. *)
BuildEnd ==
  /\ Building
  /\ count = 0 \/ OutOfBuffers
  /\ allocError' = (allocError \/ OutOfBuffers)
  /\ buildIdx' = ToBuild
  /\ buildCnt' = count
  /\ \/ pc = "build" /\ UNCHANGED <<chain, held>>
     \/ /\ pc = "buildReady"
        /\ held' = held \cup {chain[i].buf : i \in DOMAIN chain}
        /\ chain' = <<>>
  /\ arrived' = IF pc = "buildReady" /\ arrived # <<>> THEN Tail(arrived) ELSE arrived
  /\ pc' = "idle"
  /\ count' = 0
  /\ UNCHANGED <<desc, dmaIdx, filled, rxIdx, dataLength, pool, started, downs>>

(* lwIP lets go of a buffer: pbuf_free_custom. *)
PbufFree(b) ==
  /\ pc = "idle"
  /\ b \in held
  /\ held' = held \ {b}
  /\ pool' = pool \cup {b}
  /\ allocError' = FALSE
  /\ UNCHANGED <<ring, hal, started, pc, count, downs>>

(***************************************************************************)
(* ethernet_link_check_state.  Down: HAL_ETH_Stop; a packet under way may  *)
(* be cut.  Up: HAL_ETH_Start builds all descriptors again, those that     *)
(* hold a packet too.  The DMA goes on where it was stopped.               *)
(***************************************************************************)
LinkDown ==
  /\ pc = "idle"
  /\ started
  /\ downs < MaxLinkDowns
  /\ downs' = downs + 1
  /\ started' = FALSE
  /\ filled' = <<>> /\ arrived' = <<>>
  /\ UNCHANGED <<desc, dmaIdx, hal, bufs, pc, count>>

LinkUp ==
  /\ pc = "idle"
  /\ ~started
  /\ started' = TRUE
  /\ buildCnt' = DescCnt
  /\ count' = DescCnt
  /\ pc' = "build"
  /\ UNCHANGED <<ring, rxIdx, buildIdx, chain, dataLength, bufs, downs>>

Init ==
  /\ desc = [d \in Descs |-> Blank]
  /\ dmaIdx = 0 /\ filled = <<>> /\ arrived = <<>>
  /\ rxIdx = 0 /\ buildIdx = 0 /\ buildCnt = 0
  /\ chain = <<>> /\ dataLength = 0
  /\ allocError = FALSE /\ pool = Buffers /\ held = {}
  /\ started = FALSE /\ pc = "idle" /\ count = 0 /\ downs = 0

Next ==
  \/ \E last \in BOOLEAN : DmaFill(last)
  \/ LowLevelInput \/ ReadDesc \/ ReadEnd \/ BuildDesc \/ BuildEnd
  \/ \E b \in Buffers : PbufFree(b)
  \/ LinkDown \/ LinkUp

(***************************************************************************)
(* Fair are the loop, and lwIP in that it lets go of every buffer some     *)
(* day.  The network may be silent.                                        *)
(***************************************************************************)
Loop == LowLevelInput \/ ReadDesc \/ ReadEnd \/ BuildDesc \/ BuildEnd
Spec == /\ Init /\ [][Next]_vars
        /\ WF_vars(Loop)
        /\ \A b \in Buffers : SF_vars(PbufFree(b))

-----------------------------------------------------------------------------
TypeOK ==
  /\ desc \in [Descs -> [own : BOOLEAN, buf : Buffers \cup {NoBuffer}, fd : BOOLEAN,
                         ld : BOOLEAN, pl : 0..MaxBuffers * RxBuffLen]]
  /\ {dmaIdx, rxIdx, buildIdx} \subseteq Descs
  /\ {buildCnt, count} \subseteq 0..DescCnt
  /\ Len(filled) < MaxBuffers
  /\ dataLength \in 0..MaxBuffers * RxBuffLen
  /\ pool \subseteq Buffers /\ held \subseteq Buffers \cup {NoBuffer}
  /\ {allocError, started} \subseteq BOOLEAN
  /\ pc \in {"idle", "read", "ready", "build", "buildReady"}
  /\ downs \in 0..MaxLinkDowns

(***************************************************************************)
(* Every buffer is in one place: none is lost when the pool runs dry or    *)
(* the link goes, and none is written by the DMA while lwIP reads it.      *)
(***************************************************************************)
BuffersAccounted ==
  \A b \in Buffers :
    LET inDescs == {d \in Descs : desc[d].buf = b}
        inChain == {i \in DOMAIN chain : chain[i].buf = b}
    IN  Cardinality(inDescs) + Cardinality(inChain)
          + Cardinality({b} \cap pool) + Cardinality({b} \cap held) = 1

(* The DMA is never given a descriptor without a buffer: it would write to 0. *)
DmaHasBuffers == \A d \in Descs : desc[d].own => desc[d].buf # NoBuffer

(***************************************************************************)
(* `Each pbuf in the chain should have its tot_len set to its own length,  *)
(* plus the length of all the following pbufs in the chain', which lwIP's  *)
(* pbuf.h states as `p->tot_len == p->len + (p->next? p->next->tot_len:0)'.*)
(***************************************************************************)
TotLenIsRest ==
  \A i \in DOMAIN chain :
    chain[i].tot = chain[i].len + (IF i < Len(chain) THEN chain[i + 1].tot ELSE 0)

(***************************************************************************)
(* low_level_input returns `a pbuf filled with the received packet         *)
(* (including MAC header) NULL on memory error': when a packet is there    *)
(* and memory is not short, the descriptor looked at first holds it.       *)
(***************************************************************************)
PacketReadable ==
  pc = "idle" /\ started /\ ~allocError /\ arrived # <<>> => ~desc[rxIdx].own

(***************************************************************************)
(* lwIP is given no null pointer for a buffer.  (After the link has gone   *)
(* down it may be, when the pool is dry: see README.)                      *)
(***************************************************************************)
NoNullBuffer == LinkKept => NoBuffer \notin held \cup {chain[i].buf : i \in DOMAIN chain}

BuffersSafe == TypeOK /\ BuffersAccounted /\ DmaHasBuffers /\ TotLenIsRest /\ NoNullBuffer

(***************************************************************************)
(* What lwIP is given is the packet that arrived first, all of it and      *)
(* nothing else, and no packet waits behind a descriptor of the DMA.       *)
(***************************************************************************)
Delivering == pc = "buildReady" /\ pc' = "idle"

PacketsAsReceived ==
  /\ [](LinkKept => PacketReadable)
  /\ [][Delivering /\ LinkKept => arrived # <<>> /\ Head(arrived) = Delivered]_vars

(***************************************************************************)
(* However often the pool runs dry, every packet that has arrived is given *)
(* to lwIP and the DMA has somewhere to write again, as long as the link   *)
(* stays up.                                                               *)
(***************************************************************************)
ReceptionGoesOn ==
  /\ arrived # <<>> ~> pc = "buildReady" \/ ~LinkKept
  /\ started /\ arrived = <<>> ~> (\E d \in Descs : desc[d].own) \/ ~LinkKept
=============================================================================
