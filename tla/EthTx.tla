-------------------------------- MODULE EthTx --------------------------------
(***************************************************************************)
(* Transmission on the Ethernet interface: low_level_output (ethernetif.c) *)
(* fills descriptors of a ring, gives them to the MAC's DMA and waits      *)
(* until it has the last one back or 20 ms are over (HAL_ETH_Transmit).    *)
(* The packet's memory is lwIP's, and free again once low_level_output     *)
(* returns.                                                                *)
(*                                                                         *)
(* The caller is the program's one loop; the DMA works at the same time,   *)
(* as fast or as slowly as the MAC takes its data.                         *)
(***************************************************************************)
EXTENDS Integers

CONSTANTS
  DescCnt,       (* ETH_TX_DESC_CNT                                         *)
  MaxChain       (* the most pbufs a packet of this program consists of     *)

ASSUME EthTxAssumption ==
  /\ DescCnt \in Nat /\ DescCnt > 1
  /\ MaxChain \in 1..DescCnt

VARIABLES
  desc,          (* per descriptor: the processor's ("cpu"), or the DMA's   *)
                 (* with memory in use ("live") or given back ("dead")      *)
  cur, tail,     (* CurTxDesc, and the DMA's tail pointer DMACTDTPR         *)
  started,       (* gState: HAL_ETH_STATE_STARTED or READY                  *)
  pos, fetched,  (* the DMA's place, and what it has there of a packet      *)
  waiting, last, (* HAL_ETH_Transmit waits, and for which descriptor        *)
  unread,        (* history: descriptors of the packet the DMA has not read *)
  stall          (* history: packets given up since the DMA last read one  *)
                 (* in time, to at most DescCnt                             *)

vars == <<desc, cur, tail, started, pos, fetched, waiting, last, unread, stall>>

Descs == 0..DescCnt - 1

(* INCR_TX_DESC_INDEX *)
After(d, n) == (d + n) % DescCnt

(* Two buffers go into a descriptor. *)
Needed(bufs) == {After(cur, i) : i \in 0..(bufs - 1) \div 2}

(* The packet's memory is given back. *)
Returned(c) == IF c = "live" THEN "dead" ELSE c

TailAt_Last(d) == d               \* mutant: written before CurTxDesc is incremented
TailAt(d) == After(d, 1)

Free(bufs) == \A d \in Needed(bufs) : desc[d] = "cpu"

(***************************************************************************)
(* low_level_output with a packet of bufs pbufs.                           *)
(***************************************************************************)
Output(bufs) ==
  LET lastDesc == After(cur, (bufs - 1) \div 2)
  IN /\ ~waiting
     /\ started /\ Free(bufs)
     /\ desc' = [d \in Descs |-> IF d \in Needed(bufs) THEN "live" ELSE desc[d]]
     /\ unread' = Needed(bufs)
     /\ cur' = After(lastDesc, 1)
     /\ tail' = TailAt(lastDesc)
     /\ last' = lastDesc
     /\ waiting' = TRUE
     /\ UNCHANGED <<started, pos, fetched, stall>>

(***************************************************************************)
(* No descriptor, or no link: ETH_Prepare_Tx_Descriptors takes back what   *)
(* it gave, and the packet is lost.                                        *)
(***************************************************************************)
Refused(bufs) ==
  /\ ~waiting
  /\ ~started \/ ~Free(bufs)
  /\ UNCHANGED vars

(* low_level_output returns, and its caller may free the packet. *)
Return ==
  /\ waiting' = FALSE
  /\ fetched' = Returned(fetched)
  /\ UNCHANGED <<cur, tail, started, pos, last, unread>>

Sent ==
  /\ waiting
  /\ desc[last] = "cpu"
  /\ desc' = [d \in Descs |-> Returned(desc[d])]
  /\ Return
  /\ UNCHANGED stall

Cleared_Kept(d) == Returned(desc[d])      \* mutant: the descriptor is not cleared
Cleared(d) == IF d = last THEN "cpu" ELSE Returned(desc[d])

(* The time is over, and OWN of the last descriptor is cleared. *)
TimedOut ==
  /\ waiting
  /\ desc[last] # "cpu"
  /\ desc' = [d \in Descs |-> Cleared(d)]
  /\ stall' = IF stall < DescCnt THEN stall + 1 ELSE stall
  /\ Return

(***************************************************************************)
(* The DMA takes a descriptor it owns, up to the tail, and later writes it *)
(* back, whatever the processor has made of it meanwhile.                  *)
(***************************************************************************)
CanFetch == started /\ fetched = "none" /\ desc[pos] # "cpu" /\ pos # tail

DmaFetch ==
  /\ CanFetch
  /\ fetched' = desc[pos]
  /\ UNCHANGED <<desc, cur, tail, started, pos, waiting, last, unread, stall>>

DmaWriteBack ==
  /\ fetched # "none"
  /\ desc' = [desc EXCEPT ![pos] = "cpu"]
  /\ unread' = IF fetched = "live" THEN unread \ {pos} ELSE unread
  /\ fetched' = "none"
  /\ pos' = After(pos, 1)
  /\ stall' = IF fetched = "live" THEN 0 ELSE stall
  /\ UNCHANGED <<cur, tail, started, waiting, last>>

(* HAL_ETH_Stop and HAL_ETH_Start, on a change of the link: the DMA goes on where it was. *)
LinkChange ==
  /\ ~waiting
  /\ started' = ~started
  /\ UNCHANGED <<desc, cur, tail, pos, fetched, waiting, last, unread, stall>>

Init ==
  /\ desc = [d \in Descs |-> "cpu"]
  /\ cur = 0 /\ tail = 0 /\ pos = 0 /\ fetched = "none"
  /\ started = FALSE /\ waiting = FALSE /\ last = 0
  /\ unread = {} /\ stall = 0

Next ==
  \/ \E bufs \in 1..MaxChain : Output(bufs) \/ Refused(bufs)
  \/ Sent \/ TimedOut
  \/ DmaFetch \/ DmaWriteBack
  \/ LinkChange

(* Fair are the waiting, which a clock ends, and the DMA. *)
Spec == /\ Init /\ [][Next]_vars
        /\ WF_vars(Sent \/ TimedOut)
        /\ WF_vars(DmaFetch) /\ WF_vars(DmaWriteBack)

------------------------------------------------------------------------------
TypeOK ==
  /\ desc \in [Descs -> {"cpu", "live", "dead"}]
  /\ {cur, tail, pos, last} \subseteq Descs
  /\ fetched \in {"none", "live", "dead"}
  /\ {started, waiting} \subseteq BOOLEAN
  /\ unread \subseteq Descs
  /\ stall \in 0..DescCnt

(***************************************************************************)
(* What the DMA may still take is in use: no descriptor points to the      *)
(* memory of a packet that low_level_output has given back.  It holds for  *)
(* packets of one descriptor, the only ones this program sends; of a       *)
(* longer one, a timeout clears the last descriptor alone.                 *)
(***************************************************************************)
NoDeadDescriptor == \A d \in Descs : desc[d] # "dead"

(***************************************************************************)
(* HAL_OK means that the DMA has read the whole packet, unless it stood    *)
(* still while as many packets as there are descriptors were given up:     *)
(* then what it writes back is taken for the end of a later packet.        *)
(***************************************************************************)
OkMeansRead == [][Sent => unread = {} \/ stall = DescCnt]_vars

(***************************************************************************)
(* Transmission recovers by itself from timeouts, also from those that     *)
(* leave the DMA before a descriptor that was cleared: when the link stays *)
(* up, packets keep coming and only those still time out for which the DMA *)
(* has nothing to do, packets are sent again.                              *)
(***************************************************************************)
DmaIdle == fetched = "none" /\ ~CanFetch
TransmissionRecovers ==
  (/\ <>[]started
   /\ []<>waiting
   /\ <>[][TimedOut => DmaIdle]_vars) => []<><<Sent /\ unread = {}>>_vars
=============================================================================
