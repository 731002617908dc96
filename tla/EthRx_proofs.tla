----------------------------- MODULE EthRx_proofs -----------------------------
(***************************************************************************)
(* Whatever the number of descriptors and buffers, and however often the   *)
(* pool runs dry and the link goes: every buffer is in one place, the DMA  *)
(* is never given a descriptor without one, a chain's lengths add up, and  *)
(* until the link goes down lwIP gets no null pointer for a buffer.        *)
(*                                                                         *)
(* The invariant says which descriptors the processor knows to be loaded,  *)
(* and that its two indices keep RxBuildDescCnt apart.  That the packets   *)
(* are given on as they came needs a second one, Flow: what each           *)
(* descriptor between the processor and the DMA holds of which packet.     *)
(***************************************************************************)
EXTENDS EthRx, SequenceTheorems, FiniteSetTheorems, TLAPS

Part == [buf : Buffers \cup {NoBuffer}, len : 1 .. RxBuffLen]
Pbuf == [buf : Buffers \cup {NoBuffer}, len : Int, tot : Int]

Reading == pc \in {"read", "ready"}
At(k) == (buildIdx + k) % DescCnt

(* TypeOK, what is in the sequences, and how far the two loops have got. *)
Typed ==
  /\ TypeOK
  /\ chain \in Seq(Pbuf)
  /\ filled \in Seq(Part)
  /\ pc = "idle" => count = 0
  /\ Reading => buildCnt + count <= DescCnt
  /\ Building => count <= buildCnt
  /\ pc # "idle" => started

(* No buffer is in two places. *)
Apart ==
  /\ \A d, e \in Descs : desc[d].buf = desc[e].buf => d = e \/ desc[d].buf = NoBuffer
  /\ \A i, j \in DOMAIN chain :
       chain[i].buf = chain[j].buf => i = j \/ chain[i].buf = NoBuffer
  /\ \A d \in Descs, i \in DOMAIN chain :
       desc[d].buf = chain[i].buf => desc[d].buf = NoBuffer
  /\ \A d \in Descs : desc[d].buf \in pool \cup held => desc[d].buf = NoBuffer
  /\ \A i \in DOMAIN chain : chain[i].buf \in pool \cup held => chain[i].buf = NoBuffer
  /\ pool \cap held = {}

(* No buffer is lost. *)
Somewhere ==
  \A b \in Buffers : \/ b \in pool \cup held
                     \/ \E d \in Descs : desc[d].buf = b
                     \/ \E i \in DOMAIN chain : chain[i].buf = b

(* All descriptors are given to the DMA once before any is read, and there *)
(* are buffers enough for that.                                            *)
FirstBuild ==
  /\ chain = <<>> /\ held = {} /\ buildIdx = 0
  /\ \/ ~started /\ pool = Buffers
     \/ /\ pc = "build" /\ buildCnt = DescCnt
        /\ Cardinality(pool) >= Cardinality(Buffers) - (DescCnt - count)

(* What the DMA has written back is the first or the last of a packet. *)
Written(d) == desc[d].own \/ desc[d].fd \/ desc[d].ld

FirstBuildDone ==
  \A d \in Descs : Written(d) \/ (FirstBuild /\ (started => d >= DescCnt - count))

(* The descriptors, from buildIdx on, that must have a buffer. *)
Loaded(k) ==
  IF Building THEN k < buildCnt - count \/ k >= buildCnt ELSE k >= buildCnt + count

(* As long as the link has not gone down the two indices keep in step. *)
Ring ==
  LinkKept /\ started =>
    /\ rxIdx = At(buildCnt + IF Reading THEN count ELSE 0)
    /\ \A k \in 0 .. DescCnt - 1 : Loaded(k) => desc[At(k)].buf # NoBuffer

NotStarted == ~started /\ LinkKept => rxIdx = 0 /\ buildIdx = 0

Ind == /\ Typed /\ Apart /\ Somewhere /\ FirstBuildDone /\ Ring /\ NotStarted
       /\ DmaHasBuffers /\ TotLenIsRest /\ NoNullBuffer

-----------------------------------------------------------------------------
(***************************************************************************)
(* What is in the ring between rxIdx and the DMA: the packets that have    *)
(* arrived, then what there is of the next one, less the parts of the      *)
(* first that are in the chain already.                                    *)
(***************************************************************************)
RxAt(k) == (rxIdx + k) % DescCnt

(* How many descriptors from rxIdx on have been given to the DMA. *)
Given == DescCnt - count - IF Building THEN 0 ELSE buildCnt

Packet(i) == IF i <= Len(arrived) THEN arrived[i] ELSE filled
Coming == Len(arrived) + 1

WellFormed ==
  /\ arrived \in Seq(Seq(Part))
  /\ \A i \in 1 .. Len(arrived) : Len(arrived[i]) \in {1, 2}
  /\ \A i \in 1 .. Coming : \A j \in 1 .. Len(Packet(i)) :
       i = Coming \/ j < Len(Packet(i)) => Packet(i)[j].len = RxBuffLen

(* The chain is the beginning of the first packet, or all of it. *)
Chained ==
  /\ Len(chain) <= Len(Packet(1))
  /\ \A j \in 1 .. Len(chain) : /\ chain[j].buf = Packet(1)[j].buf
                                /\ chain[j].len = Packet(1)[j].len
  /\ IF pc \in {"ready", "buildReady"}
       THEN arrived # <<>> /\ Len(chain) = Len(arrived[1])
       ELSE /\ arrived # <<>> => Len(chain) < Len(arrived[1])
            /\ chain # <<>> => dataLength = RxBuffLen

(* Descriptor d says what the j-th part of the i-th packet is. *)
Describes(d, i, j) ==
  LET p == Packet(i)
  IN  /\ d.buf = p[j].buf
      /\ d.fd <=> j = 1
      /\ d.ld <=> i < Coming /\ j = Len(p)
      /\ d.ld => d.pl = (IF j = 1 THEN 0 ELSE RxBuffLen) + p[j].len

(* first[i] is how far from rxIdx the i-th packet begins. *)
Placed(first) ==
  /\ first[1] + Len(chain) = 0
  /\ \A i \in 1 .. Coming : first[i + 1] = first[i] + Len(Packet(i))
  /\ \A i \in 1 .. Coming + 1 : first[i] <= first[Coming + 1]
  /\ \A i \in 1 .. Coming : \A j \in 1 .. Len(Packet(i)) :
       first[i] + j - 1 >= 0 => Describes(desc[RxAt(first[i] + j - 1)], i, j)
  /\ first[Coming + 1] \in 0 .. Given
  /\ dmaIdx = RxAt(first[Coming + 1])
  /\ \A k \in 0 .. DescCnt - 1 : desc[RxAt(k)].own <=> first[Coming + 1] <= k /\ k < Given

(* How the ring stands: there are z - 1 packets and what has come of the   *)
(* z-th, the DMA is w descriptors ahead of rxIdx, and the i-th packet      *)
(* begins first[i] ahead of it.                                            *)
Laid(z, w, first) ==
  /\ z = Coming /\ z = Len(arrived) + 1 /\ Len(arrived) \in Nat
  /\ Given \in 0 .. DescCnt /\ DescCnt \in Nat \ {0}
  /\ w = first[z + 1] /\ w <= Given /\ dmaIdx = RxAt(w)
  /\ \A k \in 0 .. DescCnt - 1 : desc[RxAt(k)].own <=> w <= k /\ k < Given
  /\ first[1] + Len(chain) = 0
  /\ \A i \in 1 .. z : /\ first[i] \in Int /\ first[i + 1] \in Int
                       /\ first[i] <= w /\ first[i + 1] <= w
                       /\ first[i + 1] = first[i] + Len(Packet(i))
                       /\ Packet(i) \in Seq(Part) /\ Len(Packet(i)) \in 0 .. 2
  /\ \A i \in 1 .. z - 1 : Packet(i) = arrived[i] /\ Len(arrived[i]) \in {1, 2}
  /\ Packet(z) = filled
  /\ \A i \in 1 .. z : \A j \in 1 .. Len(Packet(i)) :
       /\ first[i] + j - 1 \in Int /\ first[i] + j - 1 < w
       /\ first[i] + j - 1 >= 0 => Describes(desc[RxAt(first[i] + j - 1)], i, j)

Untouched ==
  /\ arrived = <<>> /\ filled = <<>> /\ chain = <<>>
  /\ dmaIdx = 0 /\ rxIdx = 0 /\ \A d \in Descs : ~desc[d].own

Flow ==
  LinkKept => IF started THEN /\ WellFormed /\ Chained
                              /\ \E first \in [1 .. Coming + 1 -> Int] : Placed(first)
                         ELSE Untouched

-----------------------------------------------------------------------------
(* Positions in the ring. *)
LEMMA Wrap ==
  ASSUME NEW x \in 0 .. 2 * DescCnt - 1
  PROVE  x % DescCnt = IF x < DescCnt THEN x ELSE x - DescCnt
<1>1. DescCnt \in Nat /\ DescCnt > 0
  BY EthRxAssumption
<1>2. CASE x < DescCnt
  BY <1>1, <1>2
<1>3. CASE x >= DescCnt
  <2>1. (x - DescCnt) % DescCnt = x - DescCnt
    BY <1>1, <1>3
  <2>2. x % DescCnt = (x - DescCnt) % DescCnt
    BY <1>1, <1>3
  <2> QED BY <1>1, <1>3, <2>1, <2>2
<1> QED BY <1>1, <1>2, <1>3

LEMMA InRing == \A x \in Int : x % DescCnt \in Descs
BY EthRxAssumption DEF Descs

LEMMA AtIs ==
  ASSUME Typed, NEW k \in 0 .. DescCnt
  PROVE  /\ At(k) = IF buildIdx + k < DescCnt THEN buildIdx + k ELSE buildIdx + k - DescCnt
         /\ At(k) \in Descs
<1>1. DescCnt \in Nat /\ DescCnt > 0 /\ buildIdx \in 0 .. DescCnt - 1
  BY EthRxAssumption DEF Typed, TypeOK, Descs
<1>2. buildIdx + k \in 0 .. 2 * DescCnt - 1
  BY <1>1
<1> QED BY <1>1, <1>2, Wrap DEF At, Descs

(* Linking a buffer keeps the chain and makes it one longer. *)
LEMMA LinkedAt ==
  ASSUME chain \in Seq(Pbuf), NEW part \in [buf : Buffers \cup {NoBuffer}, len : Int]
  PROVE  /\ Linked(chain, part) \in Seq(Pbuf)
         /\ Len(Linked(chain, part)) = Len(chain) + 1
         /\ \A i \in 1 .. Len(chain) :
              /\ Linked(chain, part)[i].buf = chain[i].buf
              /\ Linked(chain, part)[i].len = chain[i].len
              /\ Linked(chain, part)[i].tot = chain[i].tot + part.len
         /\ Linked(chain, part)[Len(chain) + 1]
              = [buf |-> part.buf, len |-> part.len, tot |-> part.len]
<1> DEFINE n == Len(chain)
           grown == [i \in DOMAIN chain |-> [chain[i] EXCEPT !.tot = @ + part.len]]
           new == [buf |-> part.buf, len |-> part.len, tot |-> part.len]
<1>1. n \in Nat /\ DOMAIN chain = 1 .. n /\ \A i \in 1 .. n : chain[i] \in Pbuf
  BY LenProperties, ElementOfSeq
<1>2. \A i \in 1 .. n : /\ grown[i] \in Pbuf /\ grown[i].buf = chain[i].buf
                        /\ grown[i].len = chain[i].len
                        /\ grown[i].tot = chain[i].tot + part.len
  BY <1>1 DEF Pbuf
<1>3. grown \in [1 .. n -> Pbuf]
  BY <1>1, <1>2
<1>4. grown \in Seq(Pbuf)
  BY <1>1, <1>3, SeqDef
<1>5. Len(grown) = n
  BY <1>1, <1>3, <1>4, LenProperties
<1>6. new \in Pbuf
  BY DEF Pbuf
<1>7. Linked(chain, part) = Append(grown, new)
  BY DEF Linked
<1> HIDE DEF grown, new
<1>8. /\ Append(grown, new) \in Seq(Pbuf) /\ Len(Append(grown, new)) = n + 1
      /\ \A i \in 1 .. n : Append(grown, new)[i] = grown[i]
      /\ Append(grown, new)[n + 1] = new
  BY <1>4, <1>5, <1>6, AppendProperties
<1> QED BY <1>2, <1>7, <1>8 DEF new


(* Nothing changes hands. *)
LEMMA StayPut ==
  ASSUME Apart, Somewhere, UNCHANGED <<chain, pool, held>>,
         \A d \in Descs : desc'[d].buf = desc[d].buf
  PROVE  Apart' /\ Somewhere'
BY DEF Apart, Somewhere, Descs

LEMMA Initial == Init => Ind
<1> SUFFICES ASSUME Init PROVE Ind
  OBVIOUS
<1>1. DescCnt \in Nat /\ DescCnt > 0 /\ 0 \in Descs
  BY EthRxAssumption DEF Descs
<1>2. <<>> \in Seq(Pbuf) /\ <<>> \in Seq(Part) /\ Len(<<>>) = 0 /\ DOMAIN <<>> = {}
  BY EmptySeq
<1>3. TypeOK
  <2>1. Blank \in [own : BOOLEAN, buf : Buffers \cup {NoBuffer}, fd : BOOLEAN,
                   ld : BOOLEAN, pl : 0..MaxBuffers * RxBuffLen]
    BY EthRxAssumption DEF Blank
  <2>2. 0 \in 0 .. DescCnt /\ 0 \in 0 .. MaxBuffers * RxBuffLen /\ 0 < MaxBuffers
        /\ 0 \in 0 .. MaxLinkDowns
    BY EthRxAssumption
  <2> QED BY <1>1, <1>2, <2>1, <2>2 DEF Init, TypeOK
<1>4. Typed
  BY <1>2, <1>3 DEF Init, Typed, Reading, Building
<1>5. Apart /\ Somewhere
  BY <1>2, EthRxAssumption DEF Init, Apart, Somewhere, Blank
<1>6. FirstBuildDone /\ Ring /\ NotStarted /\ DmaHasBuffers
  BY DEF Init, FirstBuildDone, FirstBuild, Ring, NotStarted, DmaHasBuffers, Blank
<1>7. TotLenIsRest /\ NoNullBuffer
  BY <1>2 DEF Init, TotLenIsRest, NoNullBuffer
<1> QED BY <1>4, <1>5, <1>6, <1>7 DEF Ind

(* A buffer full is written back; the processor's side does not change. *)
LEMMA DmaFillStep ==
  ASSUME Ind, NEW last \in BOOLEAN, DmaFill(last)
  PROVE  Ind'
<1>1. PICK rest \in IF last THEN 1..RxBuffLen ELSE {RxBuffLen} :
        /\ desc' = [desc EXCEPT ![dmaIdx] =
             [desc[dmaIdx] EXCEPT !.own = FALSE, !.fd = (filled = <<>>), !.ld = last,
                   !.pl = IF last THEN RxBuffLen * Len(filled) + rest ELSE 0]]
        /\ dmaIdx' = NextDesc(dmaIdx)
        /\ filled' = IF last THEN <<>>
                             ELSE Append(filled, [buf |-> desc[dmaIdx].buf, len |-> rest])
  BY DEF DmaFill
<1>2. /\ UNCHANGED <<rxIdx, buildIdx, buildCnt, chain, dataLength, allocError, pool, held,
                     started, pc, count, downs>>
      /\ started /\ desc[dmaIdx].own /\ (~last => Len(filled) + 1 < MaxBuffers)
  BY DEF DmaFill, hal, bufs
<1>3. /\ RxBuffLen \in Nat \ {0} /\ MaxBuffers \in {1, 2} /\ DescCnt \in Nat \ {0}
      /\ rest \in 1 .. RxBuffLen
  BY EthRxAssumption
<1>4. /\ dmaIdx \in Descs /\ dmaIdx' \in Descs
      /\ filled \in Seq(Part) /\ Len(filled) \in Nat /\ Len(filled) < MaxBuffers
      /\ desc[dmaIdx].buf \in Buffers \cup {NoBuffer}
  BY <1>1, LenProperties, InRing DEF Ind, Typed, TypeOK, NextDesc, Descs
<1>5. filled' \in Seq(Part) /\ Len(filled') < MaxBuffers
  <2>1. [buf |-> desc[dmaIdx].buf, len |-> rest] \in Part
    BY <1>3, <1>4 DEF Part
  <2> QED BY <1>1, <1>2, <1>3, <1>4, <2>1, AppendProperties, EmptySeq
<1>6. ~last => filled = <<>>
  BY <1>2, <1>3, <1>4, EmptySeq
<1> DEFINE pl == IF last THEN RxBuffLen * Len(filled) + rest ELSE 0
<1>7. pl \in 0 .. MaxBuffers * RxBuffLen
  <2>1. CASE Len(filled) = 0
    BY <1>3, <2>1
  <2>2. CASE Len(filled) = 1
    BY <1>3, <1>4, <2>2
  <2> QED BY <1>3, <1>4, <2>1, <2>2
<1>8. PICK at \in Descs : at = dmaIdx
  BY <1>4
<1>9. /\ desc' \in [Descs -> [own : BOOLEAN, buf : Buffers \cup {NoBuffer}, fd : BOOLEAN,
                              ld : BOOLEAN, pl : 0..MaxBuffers * RxBuffLen]]
      /\ \A d \in Descs : desc'[d].buf = desc[d].buf
      /\ \A d \in Descs \ {at} : desc'[d] = desc[d]
      /\ ~desc'[at].own /\ (desc'[at].fd \/ desc'[at].ld)
  <2> DEFINE Desc == [own : BOOLEAN, buf : Buffers \cup {NoBuffer}, fd : BOOLEAN,
                      ld : BOOLEAN, pl : 0..MaxBuffers * RxBuffLen]
             new == [desc[at] EXCEPT
                       !.own = FALSE, !.fd = (filled = <<>>), !.ld = last, !.pl = pl]
  <2>1. desc' = [desc EXCEPT ![at] = new]
    BY <1>1, <1>8
  <2>2. desc \in [Descs -> Desc]
    BY DEF Ind, Typed, TypeOK
  <2>3. /\ new \in Desc /\ new.buf = desc[at].buf
        /\ ~new.own /\ new.fd = (filled = <<>>) /\ new.ld = last
    <3> HIDE DEF pl
    <3> QED BY <1>7, <2>2
  <2> HIDE DEF new, Desc
  <2>4. /\ desc' \in [Descs -> Desc] /\ desc'[at] = new
        /\ \A d \in Descs \ {at} : desc'[d] = desc[d]
    BY <2>1, <2>2, <2>3
  <2>5. new.fd \/ new.ld
    BY <1>6, <2>3
  <2>6. \A d \in Descs : desc'[d].buf = desc[d].buf
    BY <2>3, <2>4
  <2> QED BY <2>3, <2>4, <2>5, <2>6 DEF Desc
<1>10. Typed'
  BY <1>2, <1>4, <1>5, <1>9 DEF Ind, Typed, TypeOK, Reading, Building
<1>11. Apart' /\ Somewhere'
  BY <1>2, <1>9, StayPut DEF Ind
<1>12. FirstBuildDone'
  <2>1. ASSUME NEW d \in Descs, Written(d) PROVE Written(d)'
    <3>1. CASE d = at
      BY <1>9, <3>1 DEF Written
    <3>2. CASE d # at
      BY <1>9, <2>1, <3>2 DEF Written
    <3> QED BY <3>1, <3>2
  <2>2. FirstBuild => FirstBuild'
    BY <1>2 DEF FirstBuild
  <2> QED BY <1>2, <2>1, <2>2 DEF Ind, FirstBuildDone
<1>13. Ring'
  <2>1. \A k \in 0 .. DescCnt - 1 : At(k) \in Descs
    BY AtIs, <1>3 DEF Ind
  <2> QED BY <1>2, <1>9, <2>1 DEF Ind, Ring, At, Loaded, Reading, Building, LinkKept
<1>14. NotStarted' /\ DmaHasBuffers' /\ TotLenIsRest' /\ NoNullBuffer'
  BY <1>2, <1>9 DEF Ind, NotStarted, DmaHasBuffers, TotLenIsRest, NoNullBuffer, LinkKept
<1> QED BY <1>10, <1>11, <1>12, <1>13, <1>14 DEF Ind

LEMMA LowLevelInputStep ==
  ASSUME Ind, LowLevelInput
  PROVE  Ind'
<1>1. /\ pc = "idle" /\ started /\ pc' = "read" /\ count' = 0 /\ count = 0
      /\ UNCHANGED <<desc, dmaIdx, filled, arrived, rxIdx, buildIdx, buildCnt, chain,
                     dataLength, allocError, pool, held, started, downs>>
  BY DEF LowLevelInput, ring, hal, bufs, Ind, Typed
<1>2. DescCnt \in Nat \ {0}
  BY EthRxAssumption
<1>3. Typed'
  BY <1>1, <1>2 DEF Ind, Typed, TypeOK, Reading, Building
<1>4. Apart' /\ Somewhere'
  BY <1>1, StayPut DEF Ind
<1>5. FirstBuildDone'
  BY <1>1 DEF Ind, FirstBuildDone, FirstBuild, Written
<1>6. Ring'
  BY <1>1 DEF Ind, Ring, At, Loaded, Reading, Building, LinkKept
<1>7. NotStarted' /\ DmaHasBuffers' /\ TotLenIsRest' /\ NoNullBuffer'
  BY <1>1 DEF Ind, NotStarted, DmaHasBuffers, TotLenIsRest, NoNullBuffer, LinkKept
<1> QED BY <1>3, <1>4, <1>5, <1>6, <1>7 DEF Ind

LEMMA ReadEndStep ==
  ASSUME Ind, ReadEnd
  PROVE  Ind'
<1>1. /\ Reading /\ pc' \in {"build", "buildReady"}
      /\ buildCnt' = buildCnt + count /\ count' = buildCnt + count
      /\ UNCHANGED <<desc, dmaIdx, filled, arrived, rxIdx, buildIdx, chain,
                     dataLength, allocError, pool, held, started, downs>>
  BY DEF ReadEnd, ring, bufs, Reading
<1>2. DescCnt \in Nat \ {0} /\ buildCnt + count \in 0 .. DescCnt
  BY <1>1, EthRxAssumption DEF Ind, Typed, TypeOK
<1>3. Typed'
  BY <1>1, <1>2 DEF Ind, Typed, TypeOK, Reading, Building
<1>4. Apart' /\ Somewhere'
  BY <1>1, StayPut DEF Ind
<1>5. FirstBuildDone'
  BY <1>1 DEF Ind, Typed, FirstBuildDone, FirstBuild, Written, Reading
<1>6. Ring'
  <2> SUFFICES ASSUME LinkKept, started PROVE Ring'
    BY <1>1 DEF Ring, LinkKept
  <2>1. rxIdx' = (buildIdx' + (buildCnt' + 0)) % DescCnt
    BY <1>1, <1>2 DEF Ind, Ring, At
  <2>2. \A k \in 0 .. DescCnt - 1 : k >= buildCnt' => desc'[(buildIdx' + k) % DescCnt].buf # NoBuffer
    BY <1>1 DEF Ind, Ring, At, Loaded, Building, Reading
  <2>3. \A k \in 0 .. DescCnt - 1 : Loaded(k)' => k >= buildCnt'
    BY <1>1, <1>2 DEF Loaded, Building
  <2> QED BY <1>1, <2>1, <2>2, <2>3 DEF Ring, At, Reading
<1>7. NotStarted' /\ DmaHasBuffers' /\ TotLenIsRest' /\ NoNullBuffer'
  BY <1>1 DEF Ind, NotStarted, DmaHasBuffers, TotLenIsRest, NoNullBuffer, LinkKept
<1> QED BY <1>3, <1>4, <1>5, <1>6, <1>7 DEF Ind

LEMMA LinkStep ==
  ASSUME Ind, LinkDown \/ LinkUp
  PROVE  Ind'
<1>1. /\ pc = "idle" /\ count = 0
      /\ UNCHANGED <<desc, dmaIdx, rxIdx, buildIdx, chain, dataLength, allocError, pool, held>>
  BY DEF LinkDown, LinkUp, ring, hal, bufs, Ind, Typed
<1>2. \/ /\ started /\ started' = FALSE /\ downs < MaxLinkDowns /\ downs' = downs + 1
         /\ filled' = <<>> /\ UNCHANGED <<buildCnt, pc, count>>
      \/ /\ ~started /\ started' = TRUE /\ buildCnt' = DescCnt /\ count' = DescCnt /\ pc' = "build"
         /\ UNCHANGED <<filled, downs>>
  BY DEF LinkDown, LinkUp, ring, hal, bufs, Ind, Typed
<1>3. /\ DescCnt \in Nat \ {0} /\ MaxLinkDowns \in Nat /\ 0 < MaxBuffers
      /\ IsFiniteSet(Buffers)
  BY EthRxAssumption
<1>4. Typed'
  <2>1. filled' \in Seq(Part) /\ Len(filled') < MaxBuffers
    BY <1>2, <1>3, EmptySeq DEF Ind, Typed, TypeOK
  <2>2. downs' \in 0 .. MaxLinkDowns
    BY <1>2, <1>3 DEF Ind, Typed, TypeOK
  <2>3. buildCnt' \in 0 .. DescCnt /\ count' \in 0 .. DescCnt
    BY <1>2, <1>3 DEF Ind, Typed, TypeOK
  <2>4. TypeOK'
    <3>1. started' \in BOOLEAN
      BY <1>2
    <3> QED BY <1>1, <1>2, <2>1, <2>2, <2>3, <3>1 DEF Ind, Typed, TypeOK
  <2> QED BY <1>1, <1>2, <1>3, <2>1, <2>4 DEF Ind, Typed, Reading, Building
<1>5. Apart' /\ Somewhere'
  BY <1>1, StayPut DEF Ind
<1>6. FirstBuildDone'
  <2>1. CASE FirstBuild /\ ~started
    <3>1. Cardinality(pool) = Cardinality(Buffers) /\ Cardinality(Buffers) \in Nat
      BY <1>1, <1>3, <2>1, FS_CardinalityType DEF FirstBuild
    <3>2. FirstBuild' /\ DescCnt - count' = 0
      BY <1>1, <1>2, <1>3, <2>1, <3>1 DEF FirstBuild
    <3> QED BY <3>2 DEF FirstBuildDone, Descs
  <2>2. CASE ~FirstBuild
    BY <1>1, <2>2 DEF Ind, FirstBuildDone, Written
  <2>3. FirstBuild => ~started
    BY <1>1 DEF FirstBuild
  <2> QED BY <2>1, <2>2, <2>3
<1>7. Ring'
  <2> SUFFICES ASSUME LinkKept', started' PROVE Ring'
    BY DEF Ring
  <2>1. ~started /\ LinkKept /\ buildCnt' = DescCnt /\ count' = DescCnt /\ pc' = "build"
    BY <1>2 DEF LinkKept, Ind, Typed, TypeOK
  <2>2. rxIdx' = 0 /\ buildIdx' = 0
    BY <1>1, <2>1 DEF Ind, NotStarted
  <2>3. (0 + (DescCnt + 0)) % DescCnt = 0
    BY <1>3, Wrap
  <2>4. \A k \in 0 .. DescCnt - 1 : ~Loaded(k)'
    BY <1>3, <2>1 DEF Loaded, Building
  <2> QED BY <2>1, <2>2, <2>3, <2>4 DEF Ring, At, Reading
<1>8. NotStarted' /\ DmaHasBuffers' /\ TotLenIsRest' /\ NoNullBuffer'
  <2>1. LinkKept' => LinkKept /\ started'
    BY <1>2 DEF LinkKept, Ind, Typed, TypeOK
  <2> QED BY <1>1, <2>1 DEF Ind, NotStarted, DmaHasBuffers, TotLenIsRest, NoNullBuffer
<1> QED BY <1>4, <1>5, <1>6, <1>7, <1>8 DEF Ind

-----------------------------------------------------------------------------
LEMMA NextAt ==
  ASSUME Typed, NEW k \in 0 .. DescCnt - 1
  PROVE  /\ NextDesc(At(k)) = At(k + 1)
         /\ \A l \in 0 .. DescCnt - 1 : At(l) = At(k) => l = k
<1>1. DescCnt \in Nat \ {0} /\ buildIdx \in 0 .. DescCnt - 1
  BY EthRxAssumption DEF Typed, TypeOK, Descs
<1>2. /\ At(k) = IF buildIdx + k < DescCnt THEN buildIdx + k ELSE buildIdx + k - DescCnt
      /\ At(k + 1) = IF buildIdx + (k + 1) < DescCnt THEN buildIdx + (k + 1)
                                                     ELSE buildIdx + (k + 1) - DescCnt
  BY <1>1, AtIs
<1>3. At(k) + 1 \in 0 .. 2 * DescCnt - 1
  BY <1>1, <1>2
<1>4. NextDesc(At(k)) = IF At(k) + 1 < DescCnt THEN At(k) + 1 ELSE At(k) + 1 - DescCnt
  <2>1. \A x \in 0 .. 2 * DescCnt - 2 :
          NextDesc(x) = IF x + 1 < DescCnt THEN x + 1 ELSE x + 1 - DescCnt
    <3> TAKE x \in 0 .. 2 * DescCnt - 2
    <3>1. x + 1 \in 0 .. 2 * DescCnt - 1
      BY <1>1
    <3> QED BY <1>1, <3>1, Wrap DEF NextDesc
  <2>2. At(k) \in 0 .. 2 * DescCnt - 2
    BY <1>1, <1>2
  <2> QED BY <2>1, <2>2
<1>5. ASSUME NEW l \in 0 .. DescCnt - 1, At(l) = At(k) PROVE l = k
  <2>1. At(l) = IF buildIdx + l < DescCnt THEN buildIdx + l ELSE buildIdx + l - DescCnt
    BY <1>1, AtIs
  <2> QED BY <1>1, <1>2, <1>5, <2>1
<1> QED BY <1>1, <1>2, <1>4, <1>5

LEMMA ReadDescStep ==
  ASSUME Ind, ReadDesc
  PROVE  Ind'
<1>1. PICK at \in Descs : at = rxIdx
  BY DEF Ind, Typed, TypeOK
<1> DEFINE before == LengthBefore(desc[at])
           length == IF desc[at].ld THEN desc[at].pl - before ELSE RxBuffLen
           part == [buf |-> desc[at].buf, len |-> length]
           belongs == desc[at].fd \/ chain # <<>>
<1>2. /\ pc = "read" /\ pc' \in {"read", "ready"} /\ started
      /\ ~desc[at].own /\ count < DescCnt - buildCnt
      /\ rxIdx' = NextDesc(rxIdx) /\ count' = count + 1
      /\ UNCHANGED <<dmaIdx, filled, arrived, buildIdx, buildCnt, allocError, pool, held,
                     started, downs>>
  BY <1>1 DEF ReadDesc, Readable, bufs, Ind, Typed
<1>3. \/ /\ chain' = Linked(chain, part) /\ dataLength' = before + length
         /\ desc' = [desc EXCEPT ![at] = [desc[at] EXCEPT !.buf = NoBuffer]]
      \/ UNCHANGED <<chain, dataLength, desc>>
  BY <1>1 DEF ReadDesc, Emptied
<1>4. /\ DescCnt \in Nat \ {0} /\ RxBuffLen \in Nat \ {0} /\ MaxBuffers \in {1, 2}
      /\ count \in 0 .. DescCnt /\ buildCnt \in 0 .. DescCnt
  BY EthRxAssumption DEF Ind, Typed, TypeOK
<1>5. rxIdx' \in Descs /\ buildCnt' + count' <= DescCnt /\ count' \in 0 .. DescCnt
  <2>1. rxIdx' \in Descs
    BY <1>1, <1>2, InRing DEF NextDesc, Descs
  <2> QED BY <1>2, <1>4, <2>1
<1>6. ~FirstBuild /\ \A d \in Descs : Written(d)
  BY <1>2 DEF Ind, FirstBuildDone, FirstBuild
<1>7. before + length \in 0 .. MaxBuffers * RxBuffLen /\ length \in Int
  <2>1. /\ desc[at].pl \in 0 .. MaxBuffers * RxBuffLen
        /\ dataLength \in 0 .. MaxBuffers * RxBuffLen
    BY DEF Ind, Typed, TypeOK
  <2>2. MaxBuffers * RxBuffLen \in Nat /\ RxBuffLen <= MaxBuffers * RxBuffLen
    BY <1>4
  <2>3. before \in 0 .. MaxBuffers * RxBuffLen
    BY <2>1, <2>2 DEF LengthBefore
  <2>4. CASE desc[at].ld
    BY <2>1, <2>2, <2>3, <2>4
  <2>5. CASE ~desc[at].ld
    <3>1. before = 0
      BY <1>2, <1>6, <2>5 DEF Written, LengthBefore
    <3> QED BY <1>4, <2>2, <2>5, <3>1
  <2> QED BY <2>4, <2>5
<1>8. NotStarted' /\ FirstBuildDone'
  <2>1. ASSUME NEW d \in Descs PROVE Written(d)'
    <3>1. /\ desc'[d].own = desc[d].own /\ desc'[d].fd = desc[d].fd
          /\ desc'[d].ld = desc[d].ld
      <4>1. CASE UNCHANGED desc
        BY <4>1
      <4>2. CASE desc' = [desc EXCEPT ![at] = [desc[at] EXCEPT !.buf = NoBuffer]]
        BY <4>2 DEF Ind, Typed, TypeOK
      <4> QED BY <1>3, <4>1, <4>2
    <3> QED BY <1>6, <3>1 DEF Written
  <2> QED BY <1>2, <2>1 DEF FirstBuildDone, NotStarted
<1>9. CASE UNCHANGED <<chain, dataLength, desc>>
  <2>1. Typed'
    BY <1>2, <1>5, <1>9 DEF Ind, Typed, TypeOK, Reading, Building
  <2>2. Apart' /\ Somewhere'
    BY <1>2, <1>9, StayPut DEF Ind
  <2>3. DmaHasBuffers' /\ TotLenIsRest' /\ NoNullBuffer'
    BY <1>2, <1>9 DEF Ind, DmaHasBuffers, TotLenIsRest, NoNullBuffer, LinkKept
  <2>4. Ring'
    <3> SUFFICES ASSUME LinkKept PROVE Ring'
      BY <1>2 DEF Ring, LinkKept
    <3>1. rxIdx' = At(buildCnt + count + 1)
      BY <1>2, <1>4, NextAt DEF Ind, Ring, Reading
    <3> QED BY <1>2, <1>4, <1>9, <3>1 DEF Ind, Ring, At, Loaded, Reading, Building
  <2> QED BY <1>8, <2>1, <2>2, <2>3, <2>4 DEF Ind
<1>10. CASE /\ chain' = Linked(chain, part) /\ dataLength' = before + length
            /\ desc' = [desc EXCEPT ![at] = [desc[at] EXCEPT !.buf = NoBuffer]]
  <2> DEFINE n == Len(chain)
  <2>1. part \in [buf : Buffers \cup {NoBuffer}, len : Int]
    BY <1>7 DEF Ind, Typed, TypeOK
  <2>2. /\ n \in Nat /\ DOMAIN chain = 1 .. n
        /\ chain' \in Seq(Pbuf) /\ Len(chain') = n + 1 /\ DOMAIN chain' = 1 .. n + 1
        /\ \A i \in 1 .. n : /\ chain'[i].buf = chain[i].buf
                             /\ chain'[i].len = chain[i].len
                             /\ chain'[i].tot = chain[i].tot + length
        /\ chain'[n + 1].buf = desc[at].buf
        /\ chain'[n + 1].len = length /\ chain'[n + 1].tot = length
    <3> HIDE DEF before, length
    <3>1. chain \in Seq(Pbuf)
      BY DEF Ind, Typed
    <3> HIDE DEF part
    <3>2. /\ chain' \in Seq(Pbuf) /\ Len(chain') = n + 1
          /\ \A i \in 1 .. n : /\ chain'[i].buf = chain[i].buf
                               /\ chain'[i].len = chain[i].len
                               /\ chain'[i].tot = chain[i].tot + part.len
          /\ chain'[n + 1] = [buf |-> part.buf, len |-> part.len, tot |-> part.len]
      BY <1>10, <2>1, <3>1, LinkedAt
    <3>3. DOMAIN chain = 1 .. n /\ n \in Nat /\ DOMAIN chain' = 1 .. n + 1
      BY <3>1, <3>2, LenProperties
    <3> QED BY <3>2, <3>3 DEF part
  <2>3. /\ desc' \in [Descs -> [own : BOOLEAN, buf : Buffers \cup {NoBuffer}, fd : BOOLEAN,
                                ld : BOOLEAN, pl : 0..MaxBuffers * RxBuffLen]]
        /\ \A d \in Descs \ {at} : desc'[d] = desc[d]
        /\ desc'[at].buf = NoBuffer /\ ~desc'[at].own
    BY <1>2, <1>10 DEF Ind, Typed, TypeOK
  <2>4. Typed'
    <3>1. TypeOK'
      BY <1>2, <1>5, <1>7, <1>10, <2>3 DEF Ind, Typed, TypeOK
    <3> QED BY <1>2, <1>5, <2>2, <3>1 DEF Ind, Typed, Reading, Building
  <2>5. Apart'
    <3>1. \A i \in DOMAIN chain' :
            \/ i \in DOMAIN chain /\ chain'[i].buf = chain[i].buf
            \/ i = n + 1 /\ chain'[i].buf = desc[at].buf
      BY <2>2
    <3>2. \A d \in Descs : (desc'[d].buf = desc[d].buf /\ d # at) \/ desc'[d].buf = NoBuffer
      BY <2>3
    <3>3. \A i, j \in DOMAIN chain' :
            chain'[i].buf = chain'[j].buf => i = j \/ chain'[i].buf = NoBuffer
      BY <3>1 DEF Ind, Apart
    <3>4. \A d \in Descs, i \in DOMAIN chain' :
            desc'[d].buf = chain'[i].buf => desc'[d].buf = NoBuffer
      BY <3>1, <3>2 DEF Ind, Apart
    <3>5. \A d, e \in Descs :
            desc'[d].buf = desc'[e].buf => d = e \/ desc'[d].buf = NoBuffer
      BY <3>2 DEF Ind, Apart
    <3>6. \A d \in Descs : desc'[d].buf \in pool \cup held => desc'[d].buf = NoBuffer
      BY <3>2 DEF Ind, Apart
    <3>7. \A i \in DOMAIN chain' :
            chain'[i].buf \in pool \cup held => chain'[i].buf = NoBuffer
      BY <3>1 DEF Ind, Apart
    <3> QED BY <1>2, <3>3, <3>4, <3>5, <3>6, <3>7 DEF Ind, Apart
  <2>6. Somewhere'
    <3> SUFFICES ASSUME NEW b \in Buffers, b \notin pool \cup held
                 PROVE  \/ \E d \in Descs : desc'[d].buf = b
                        \/ \E i \in DOMAIN chain' : chain'[i].buf = b
      BY <1>2 DEF Somewhere
    <3>1. CASE desc[at].buf = b
      BY <2>2, <3>1
    <3>2. CASE desc[at].buf # b
      <4>1. CASE \E i \in DOMAIN chain : chain[i].buf = b
        BY <2>2, <4>1
      <4>2. CASE \E d \in Descs : desc[d].buf = b
        BY <2>3, <3>2, <4>2
      <4> QED BY <4>1, <4>2 DEF Ind, Somewhere
    <3> QED BY <3>1, <3>2
  <2>7. DmaHasBuffers'
    BY <2>3 DEF Ind, DmaHasBuffers
  <2>8. TotLenIsRest'
    <3> HIDE DEF before, length
    <3>1. \A i \in 1 .. n : chain[i].len \in Int /\ chain[i].tot \in Int
      <4>1. \A i \in 1 .. n : chain[i] \in Pbuf
        BY ElementOfSeq DEF Ind, Typed
      <4> QED BY <4>1 DEF Pbuf
    <3>2. \A i \in 1 .. n :
            chain[i].tot = chain[i].len + (IF i < n THEN chain[i + 1].tot ELSE 0)
      BY <2>2 DEF Ind, TotLenIsRest
    <3>3. ASSUME NEW i \in 1 .. n + 1
          PROVE  chain'[i].tot = chain'[i].len + (IF i < n + 1 THEN chain'[i + 1].tot ELSE 0)
      <4>1. CASE i = n + 1
        BY <1>7, <2>2, <4>1
      <4>2. CASE i = n
        BY <1>7, <2>2, <3>1, <3>2, <4>2
      <4>3. CASE i < n
        <5>1. i \in 1 .. n /\ i + 1 \in 1 .. n
          BY <2>2, <4>3
        <5>2. /\ chain'[i].tot = chain[i].tot + length /\ chain'[i].len = chain[i].len
              /\ chain'[i + 1].tot = chain[i + 1].tot + length
              /\ chain[i].tot = chain[i].len + chain[i + 1].tot
          BY <2>2, <3>2, <4>3, <5>1
        <5> HIDE DEF n
        <5> QED BY <1>7, <2>2, <3>1, <4>3, <5>1, <5>2
      <4> QED BY <2>2, <4>1, <4>2, <4>3
    <3> QED BY <2>2, <3>3 DEF TotLenIsRest
  <2>9. Ring' /\ NoNullBuffer'
    <3> SUFFICES ASSUME LinkKept PROVE Ring' /\ NoNullBuffer'
      BY <1>2 DEF Ring, LinkKept, NoNullBuffer
    <3> DEFINE k == buildCnt + count
    <3>1. k \in 0 .. DescCnt - 1 /\ at = At(k) /\ desc[at].buf # NoBuffer
      BY <1>1, <1>2, <1>4 DEF Ind, Ring, Reading, Loaded, Building
    <3>2. rxIdx' = At(k + 1)
      BY <1>1, <1>2, <3>1, NextAt DEF Ind
    <3>3. ASSUME NEW l \in 0 .. DescCnt - 1, l >= k + 1
          PROVE  desc'[At(l)].buf # NoBuffer
      <4>1. At(l) \in Descs \ {at}
        BY <1>4, <3>1, <3>3, AtIs, NextAt DEF Ind
      <4>2. desc[At(l)].buf # NoBuffer
        BY <1>2, <1>4, <3>1, <3>3 DEF Ind, Ring, Loaded, Building
      <4> QED BY <2>3, <4>1, <4>2
    <3>4. Ring'
      BY <1>2, <1>4, <3>2, <3>3 DEF Ring, At, Loaded, Reading, Building
    <3>5. NoNullBuffer'
      BY <1>2, <2>2, <3>1 DEF Ind, NoNullBuffer, LinkKept
    <3> QED BY <3>4, <3>5
  <2> QED BY <1>8, <2>4, <2>5, <2>6, <2>7, <2>8, <2>9 DEF Ind
<1> QED BY <1>3, <1>9, <1>10

LEMMA BuildDescStep ==
  ASSUME Ind, BuildDesc
  PROVE  Ind'
<1>1. /\ DescCnt \in Nat \ {0} /\ buildIdx \in 0 .. DescCnt - 1
      /\ buildCnt \in 0 .. DescCnt /\ count \in 0 .. DescCnt /\ count > 0
      /\ count <= buildCnt /\ Building /\ started
  BY EthRxAssumption DEF BuildDesc, Ind, Typed, TypeOK, Descs, Building
<1> DEFINE j == buildCnt - count
<1>2. PICK at \in Descs : at = ToBuild /\ at = At(j)
  <2>1. j \in 0 .. DescCnt /\ buildIdx + j = buildIdx + buildCnt - count
    BY <1>1
  <2>2. ToBuild = At(j)
    BY <2>1, Zenon DEF ToBuild, At
  <2> QED BY <2>1, <2>2, AtIs DEF Ind
<1>3. PICK b \in NewBuffer(at) :
        /\ desc' = [desc EXCEPT ![at] = [Blank EXCEPT !.own = TRUE, !.buf = b]]
        /\ pool' = pool \ {b}
  BY <1>2 DEF BuildDesc
<1>4. /\ count' = count - 1
      /\ UNCHANGED <<dmaIdx, filled, arrived, rxIdx, buildIdx, buildCnt, chain, dataLength,
                     allocError, held, started, pc, downs>>
  BY DEF BuildDesc, hal
<1>5. /\ b \in Buffers
      /\ desc[at].buf = NoBuffer => b \in pool
      /\ desc[at].buf # NoBuffer => b = desc[at].buf /\ b \notin pool
  BY <1>3, EthRxAssumption DEF NewBuffer, Allocated, Ind, Typed, TypeOK, Apart
<1>6. /\ desc' \in [Descs -> [own : BOOLEAN, buf : Buffers \cup {NoBuffer}, fd : BOOLEAN,
                              ld : BOOLEAN, pl : 0..MaxBuffers * RxBuffLen]]
      /\ \A d \in Descs \ {at} : desc'[d] = desc[d]
      /\ desc'[at].own /\ desc'[at].buf = b
  <2> DEFINE Desc == [own : BOOLEAN, buf : Buffers \cup {NoBuffer}, fd : BOOLEAN,
                      ld : BOOLEAN, pl : 0..MaxBuffers * RxBuffLen]
             new == [Blank EXCEPT !.own = TRUE, !.buf = b]
  <2>1. 0 \in 0 .. MaxBuffers * RxBuffLen
    BY EthRxAssumption
  <2>2. new \in Desc /\ new.own /\ new.buf = b
    BY <1>5, <2>1 DEF Blank
  <2>3. desc \in [Descs -> Desc] /\ desc' = [desc EXCEPT ![at] = new]
    BY <1>3 DEF Ind, Typed, TypeOK
  <2> HIDE DEF new, Desc
  <2>4. /\ desc' \in [Descs -> Desc] /\ desc'[at] = new
        /\ \A d \in Descs \ {at} : desc'[d] = desc[d]
    BY <2>2, <2>3
  <2> QED BY <2>2, <2>4 DEF Desc
<1>7. Typed'
  <2>1. count' \in 0 .. DescCnt /\ count' <= buildCnt' /\ pool' \subseteq Buffers
    BY <1>1, <1>3, <1>4 DEF Ind, Typed, TypeOK
  <2>2. TypeOK'
    BY <1>4, <1>6, <2>1 DEF Ind, Typed, TypeOK
  <2> QED BY <1>1, <1>4, <2>1, <2>2 DEF Ind, Typed, Reading, Building
<1>8. b # NoBuffer /\ b \notin held /\ \A i \in DOMAIN chain : chain[i].buf # b
  BY <1>5, EthRxAssumption DEF Ind, Apart
<1>9. \A d \in Descs \ {at} : desc[d].buf # b
  BY <1>5, <1>8 DEF Ind, Apart
<1>10. Apart'
  <2>1. \A d, e \in Descs : desc'[d].buf = desc'[e].buf => d = e \/ desc'[d].buf = NoBuffer
    BY <1>6, <1>9 DEF Ind, Apart
  <2>2. \A d \in Descs, i \in DOMAIN chain :
          desc'[d].buf = chain[i].buf => desc'[d].buf = NoBuffer
    BY <1>6, <1>8 DEF Ind, Apart
  <2>3. \A d \in Descs : desc'[d].buf \in pool' \cup held => desc'[d].buf = NoBuffer
    BY <1>3, <1>6, <1>8 DEF Ind, Apart
  <2> QED BY <1>3, <1>4, <2>1, <2>2, <2>3 DEF Ind, Apart
<1>11. Somewhere'
  <2> SUFFICES ASSUME NEW c \in Buffers, c # b
               PROVE  \/ c \in pool' \cup held
                      \/ \E d \in Descs : desc'[d].buf = c
                      \/ \E i \in DOMAIN chain : chain[i].buf = c
    BY <1>4, <1>6 DEF Somewhere
  <2>1. desc[at].buf # c
    BY <1>5, EthRxAssumption
  <2> QED BY <1>3, <1>6, <2>1 DEF Ind, Somewhere
<1>12. FirstBuildDone'
  <2>1. ASSUME FirstBuild
        PROVE  FirstBuild' /\ at = DescCnt - count
    <3>1. IsFiniteSet(pool) /\ Cardinality(pool) \in Nat /\ Cardinality(Buffers) \in Nat
      BY EthRxAssumption, FS_Subset, FS_CardinalityType DEF Ind, Typed, TypeOK
    <3>2. Cardinality(pool') >= Cardinality(pool) - 1
      BY <1>3, <3>1, FS_RemoveElement
    <3>3. /\ pc = "build" /\ buildCnt = DescCnt /\ buildIdx = 0
          /\ Cardinality(pool) >= Cardinality(Buffers) - (DescCnt - count)
      BY <1>1, <2>1 DEF FirstBuild
    <3>4. Cardinality(pool') \in Nat
      BY <1>3, <3>1, FS_RemoveElement, FS_CardinalityType
    <3>5. Cardinality(pool') >= Cardinality(Buffers) - (DescCnt - count')
      BY <1>1, <1>4, <3>1, <3>2, <3>3, <3>4
    <3>6. at = DescCnt - count
      BY <1>1, <1>2, <3>3, AtIs DEF Ind
    <3> QED BY <1>4, <2>1, <3>3, <3>5, <3>6 DEF FirstBuild
  <2>2. Written(at)'
    BY <1>6 DEF Written
  <2>3. \A d \in Descs \ {at} : Written(d) => Written(d)'
    BY <1>6 DEF Written
  <2>4. CASE FirstBuild
    <3>1. \A d \in Descs \ {at} : d >= DescCnt - count => d >= DescCnt - count'
      BY <1>1, <1>4, <2>1, <2>4 DEF Descs
    <3> QED BY <1>1, <2>1, <2>2, <2>3, <2>4, <3>1 DEF Ind, FirstBuildDone
  <2>5. CASE ~FirstBuild
    BY <2>2, <2>3, <2>5 DEF Ind, FirstBuildDone
  <2> QED BY <2>4, <2>5
<1>13. Ring'
  <2> SUFFICES ASSUME LinkKept PROVE Ring'
    BY <1>4 DEF Ring, LinkKept
  <2>1. ASSUME NEW k \in 0 .. DescCnt - 1, k < buildCnt - count' \/ k >= buildCnt
        PROVE  desc'[At(k)].buf # NoBuffer
    <3>1. At(k) \in Descs
      BY <1>1, AtIs DEF Ind
    <3>2. CASE k = j
      BY <1>2, <1>6, <1>8, <3>2
    <3>3. CASE k # j
      <4>1. k < buildCnt - count \/ k >= buildCnt
        BY <1>1, <1>4, <2>1, <3>3
      <4>2. desc[At(k)].buf # NoBuffer
        BY <1>1, <4>1 DEF Ind, Ring, Loaded
      <4> QED BY <1>6, <1>8, <3>1, <4>2
    <3> QED BY <3>2, <3>3
  <2> QED BY <1>1, <1>4, <2>1 DEF Ind, Ring, At, Loaded, Reading, Building
<1>14. NotStarted' /\ DmaHasBuffers' /\ TotLenIsRest' /\ NoNullBuffer'
  BY <1>4, <1>6, <1>8 DEF Ind, NotStarted, DmaHasBuffers, TotLenIsRest, NoNullBuffer, LinkKept
<1> QED BY <1>7, <1>10, <1>11, <1>12, <1>13, <1>14 DEF Ind

LEMMA PbufFreeStep ==
  ASSUME Ind, NEW b \in Buffers, PbufFree(b)
  PROVE  Ind'
<1>1. /\ pc = "idle" /\ b \in held /\ held' = held \ {b} /\ pool' = pool \cup {b}
      /\ allocError' = FALSE
      /\ UNCHANGED <<desc, dmaIdx, filled, arrived, rxIdx, buildIdx, buildCnt, chain,
                     dataLength, started, pc, count, downs>>
  BY DEF PbufFree, ring, hal
<1>2. Typed'
  <2>1. TypeOK'
    BY <1>1 DEF Ind, Typed, TypeOK
  <2> QED BY <1>1, <2>1 DEF Ind, Typed, Reading, Building
<1>3. b # NoBuffer
  BY EthRxAssumption
<1>4. Apart'
  BY <1>1, <1>3 DEF Ind, Apart
<1>5. Somewhere'
  BY <1>1 DEF Ind, Somewhere
<1>6. FirstBuildDone'
  BY <1>1 DEF Ind, FirstBuildDone, FirstBuild, Written
<1>7. Ring'
  BY <1>1 DEF Ind, Ring, At, Loaded, Reading, Building, LinkKept
<1>8. NotStarted' /\ DmaHasBuffers' /\ TotLenIsRest' /\ NoNullBuffer'
  BY <1>1 DEF Ind, NotStarted, DmaHasBuffers, TotLenIsRest, NoNullBuffer, LinkKept
<1> QED BY <1>2, <1>4, <1>5, <1>6, <1>7, <1>8 DEF Ind

LEMMA BuildEndStep ==
  ASSUME Ind, BuildEnd
  PROVE  Ind'
<1>1. /\ DescCnt \in Nat \ {0} /\ buildIdx \in 0 .. DescCnt - 1
      /\ buildCnt \in 0 .. DescCnt /\ count \in 0 .. DescCnt
      /\ count <= buildCnt /\ Building /\ started
  BY EthRxAssumption DEF BuildEnd, Ind, Typed, TypeOK, Descs, Building
<1>2. /\ count = 0 \/ OutOfBuffers
      /\ allocError' = (allocError \/ OutOfBuffers)
      /\ buildIdx' = ToBuild /\ buildCnt' = count /\ pc' = "idle" /\ count' = 0
      /\ UNCHANGED <<desc, dmaIdx, filled, rxIdx, dataLength, pool, started, downs>>
  BY DEF BuildEnd
<1>3. \/ pc = "build" /\ UNCHANGED <<chain, held>>
      \/ /\ pc = "buildReady"
         /\ held' = held \cup {chain[i].buf : i \in DOMAIN chain}
         /\ chain' = <<>>
  BY DEF BuildEnd
<1> DEFINE j == buildCnt - count
<1>4. buildIdx' = At(j) /\ j \in 0 .. DescCnt /\ buildIdx' \in Descs
  <2>1. j \in 0 .. DescCnt /\ buildIdx + j = buildIdx + buildCnt - count
    BY <1>1
  <2>2. ToBuild = At(j)
    BY <2>1, Zenon DEF ToBuild, At
  <2> QED BY <1>2, <2>1, <2>2, AtIs DEF Ind
<1>5. chain \in Seq(Pbuf) /\ \A i \in DOMAIN chain : chain[i].buf \in Buffers \cup {NoBuffer}
  <2>1. \A i \in DOMAIN chain : chain[i] \in Pbuf
    BY ElementOfSeq, LenProperties DEF Ind, Typed
  <2> QED BY <2>1 DEF Ind, Typed, Pbuf
<1>6. <<>> \in Seq(Pbuf) /\ DOMAIN <<>> = {}
  BY EmptySeq
<1>7. Typed'
  <2>1. held' \subseteq Buffers \cup {NoBuffer} /\ chain' \in Seq(Pbuf)
    BY <1>3, <1>5, <1>6 DEF Ind, Typed, TypeOK
  <2>2. allocError' \in BOOLEAN
    BY <1>2
  <2>3. buildCnt' \in 0 .. DescCnt /\ count' \in 0 .. DescCnt
    BY <1>1, <1>2
  <2>4. TypeOK'
    BY <1>2, <1>4, <2>1, <2>2, <2>3 DEF Ind, Typed, TypeOK
  <2> QED BY <1>2, <2>1, <2>4 DEF Ind, Typed, Reading, Building
<1>8. Apart' /\ Somewhere'
  <2>1. CASE UNCHANGED <<chain, held>>
    BY <1>2, <2>1, StayPut DEF Ind
  <2>2. CASE held' = held \cup {chain[i].buf : i \in DOMAIN chain} /\ chain' = <<>>
    <3>1. DOMAIN chain' = {} /\ NoBuffer \notin pool
      BY <1>6, <2>2, EthRxAssumption DEF Ind, Typed, TypeOK
    <3>2. pool \cap held' = {}
      BY <2>2, <3>1 DEF Ind, Apart
    <3>3. \A d \in Descs : desc[d].buf \in pool \cup held' => desc[d].buf = NoBuffer
      BY <2>2 DEF Ind, Apart
    <3>4. Apart'
      BY <1>2, <3>1, <3>2, <3>3 DEF Ind, Apart
    <3>5. Somewhere'
      BY <1>2, <2>2 DEF Ind, Somewhere
    <3> QED BY <3>4, <3>5
  <2> QED BY <1>3, <2>1, <2>2
<1>9. FirstBuildDone'
  <2>1. \A d \in Descs : Written(d)
    <3>1. CASE FirstBuild
      <4>1. Cardinality(pool) >= Cardinality(Buffers) - (DescCnt - count)
        BY <1>1, <3>1 DEF FirstBuild
      <4>2. Cardinality(Buffers) \in Nat /\ Cardinality(Buffers) >= DescCnt
        BY EthRxAssumption, FS_CardinalityType
      <4>3. count = 0
        BY <1>1, <1>2, <4>1, <4>2, FS_EmptySet DEF OutOfBuffers
      <4> QED BY <1>1, <4>3 DEF Ind, FirstBuildDone, Descs
    <3>2. CASE ~FirstBuild
      BY <3>2 DEF Ind, FirstBuildDone
    <3> QED BY <3>1, <3>2
  <2>2. \A d \in Descs : Written(d)'
    BY <1>2, <2>1 DEF Written
  <2> QED BY <2>2 DEF FirstBuildDone
<1>10. Ring'
  <2> SUFFICES ASSUME LinkKept PROVE Ring'
    BY <1>2 DEF Ring, LinkKept
  <2>1. /\ buildIdx' = IF buildIdx + j < DescCnt THEN buildIdx + j ELSE buildIdx + j - DescCnt
        /\ buildIdx' \in 0 .. DescCnt - 1
    BY <1>1, <1>4, AtIs DEF Ind, Descs
  <2>2. \A k \in 0 .. DescCnt : At(k)' = IF buildIdx' + k < DescCnt THEN buildIdx' + k
                                                       ELSE buildIdx' + k - DescCnt
    <3> TAKE k \in 0 .. DescCnt
    <3>1. buildIdx' + k \in 0 .. 2 * DescCnt - 1
      BY <1>1, <2>1
    <3> QED BY <1>1, <2>1, <3>1, Wrap DEF At
  <2>3. \A k \in 0 .. DescCnt : At(k) = IF buildIdx + k < DescCnt THEN buildIdx + k
                                                     ELSE buildIdx + k - DescCnt
    BY <1>1, AtIs DEF Ind
  <2>4. PICK left \in 0 .. DescCnt : left = count
    BY <1>1
  <2>5. rxIdx' = At(left)'
    <3>1. rxIdx' = At(buildCnt)
      BY <1>1, <1>2 DEF Ind, Ring, Reading, Building
    <3>2. At(buildCnt) = IF buildIdx + buildCnt < DescCnt THEN buildIdx + buildCnt
                                                     ELSE buildIdx + buildCnt - DescCnt
      BY <1>1, <2>3
    <3>3. At(left)' = IF buildIdx' + left < DescCnt THEN buildIdx' + left
                                                    ELSE buildIdx' + left - DescCnt
      BY <2>2
    <3> QED BY <1>1, <2>1, <2>4, <3>1, <3>2, <3>3
  <2>6. ASSUME NEW k \in 0 .. DescCnt - 1, k >= left
        PROVE  desc[At(k)'].buf # NoBuffer
    <3> DEFINE l == IF k + j < DescCnt THEN k + j ELSE k + j - DescCnt
    <3>1. l \in 0 .. DescCnt - 1 /\ (l < j \/ l >= buildCnt)
      BY <1>1, <2>4, <2>6
    <3>2. At(l) = At(k)'
      BY <1>1, <2>1, <2>2, <2>3, <3>1
    <3> HIDE DEF l
    <3>3. desc[At(l)].buf # NoBuffer
      BY <1>1, <3>1 DEF Ind, Ring, Loaded
    <3> QED BY <3>2, <3>3
  <2>7. ~Building' /\ ~Reading' /\ buildCnt' = left /\ count' = 0 /\ desc' = desc
    BY <1>2, <2>4 DEF Building, Reading
  <2>8. \A k \in 0 .. DescCnt - 1 : Loaded(k)' => desc'[At(k)'].buf # NoBuffer
    BY <2>4, <2>6, <2>7 DEF Loaded
  <2>9. rxIdx' = At(buildCnt + IF Reading THEN count ELSE 0)'
    BY <2>4, <2>5, <2>7 DEF At
  <2> QED BY <2>8, <2>9 DEF Ring
<1>11. NotStarted' /\ DmaHasBuffers' /\ TotLenIsRest' /\ NoNullBuffer'
  <2>1. NotStarted' /\ DmaHasBuffers'
    BY <1>1, <1>2 DEF Ind, NotStarted, DmaHasBuffers
  <2>2. TotLenIsRest' /\ NoNullBuffer'
    BY <1>2, <1>3, <1>6 DEF Ind, TotLenIsRest, NoNullBuffer, LinkKept
  <2> QED BY <2>1, <2>2
<1> QED BY <1>7, <1>8, <1>9, <1>10, <1>11 DEF Ind

LEMMA Step == Ind /\ [Next]_vars => Ind'
<1> SUFFICES ASSUME Ind, [Next]_vars PROVE Ind'
  OBVIOUS
<1>1. CASE UNCHANGED vars
  <2>1. UNCHANGED <<desc, dmaIdx, filled, rxIdx, buildIdx, buildCnt, chain, dataLength,
                    allocError, pool, held, started, pc, count, downs>>
    BY <1>1 DEF vars, ring, hal, bufs
  <2>2. Typed'
    BY <2>1 DEF Ind, Typed, TypeOK, Reading, Building
  <2>3. Apart' /\ Somewhere'
    BY <2>1, StayPut DEF Ind
  <2>4. FirstBuildDone'
    BY <2>1 DEF Ind, FirstBuildDone, FirstBuild, Written
  <2>5. Ring'
    BY <2>1 DEF Ind, Ring, At, Loaded, Reading, Building, LinkKept
  <2>6. NotStarted' /\ DmaHasBuffers' /\ TotLenIsRest' /\ NoNullBuffer'
    BY <2>1 DEF Ind, NotStarted, DmaHasBuffers, TotLenIsRest, NoNullBuffer, LinkKept
  <2> QED BY <2>2, <2>3, <2>4, <2>5, <2>6 DEF Ind
<1>2. CASE Next
  BY <1>2, DmaFillStep, LowLevelInputStep, ReadDescStep, ReadEndStep, BuildDescStep,
     BuildEndStep, PbufFreeStep, LinkStep DEF Next
<1> QED BY <1>1, <1>2

(* How many places a set of at most one element is. *)
LEMMA OneOrNone ==
  /\ \A S : S = {} => Cardinality(S) = 0
  /\ \A S : \A x \in S : (\A y \in S : y = x) => Cardinality(S) = 1
<1>1. ASSUME NEW S, NEW x \in S, \A y \in S : y = x
      PROVE  Cardinality(S) = 1
  <2>1. S = {x}
    BY <1>1
  <2> QED BY <2>1, FS_Singleton
<1> QED BY <1>1, FS_EmptySet

LEMMA OnePlace ==
  ASSUME Apart, Somewhere, NoBuffer \notin Buffers
  PROVE  BuffersAccounted
<1> SUFFICES ASSUME NEW b \in Buffers
             PROVE  Cardinality({d \in Descs : desc[d].buf = b})
                      + Cardinality({i \in DOMAIN chain : chain[i].buf = b})
                      + Cardinality({b} \cap pool) + Cardinality({b} \cap held) = 1
  BY DEF BuffersAccounted
<1> DEFINE inDescs == {d \in Descs : desc[d].buf = b}
           inChain == {i \in DOMAIN chain : chain[i].buf = b}
           inPool == {b} \cap pool
           inHeld == {b} \cap held
<1>1. b # NoBuffer
  OBVIOUS
<1>2. CASE b \in pool
  <2>1. inDescs = {} /\ inChain = {} /\ inHeld = {}
    BY <1>1, <1>2 DEF Apart
  <2>2. b \in inPool /\ \A y \in inPool : y = b
    BY <1>2
  <2> HIDE DEF inDescs, inChain, inPool, inHeld
  <2>3. /\ Cardinality(inDescs) = 0 /\ Cardinality(inChain) = 0
        /\ Cardinality(inPool) = 1 /\ Cardinality(inHeld) = 0
    BY <2>1, <2>2, OneOrNone
  <2> QED BY <2>3 DEF inDescs, inChain, inPool, inHeld
<1>3. CASE b \in held
  <2>1. inDescs = {} /\ inChain = {} /\ inPool = {}
    BY <1>1, <1>3 DEF Apart
  <2>2. b \in inHeld /\ \A y \in inHeld : y = b
    BY <1>3
  <2> HIDE DEF inDescs, inChain, inPool, inHeld
  <2>3. /\ Cardinality(inDescs) = 0 /\ Cardinality(inChain) = 0
        /\ Cardinality(inPool) = 0 /\ Cardinality(inHeld) = 1
    BY <2>1, <2>2, OneOrNone
  <2> QED BY <2>3 DEF inDescs, inChain, inPool, inHeld
<1>4. ASSUME NEW d \in Descs, desc[d].buf = b
      PROVE  /\ Cardinality(inDescs) = 1 /\ Cardinality(inChain) = 0
             /\ Cardinality(inPool) = 0 /\ Cardinality(inHeld) = 0
  <2>1. inPool = {} /\ inChain = {} /\ inHeld = {}
    BY <1>1, <1>4 DEF Apart
  <2>2. d \in inDescs /\ \A y \in inDescs : y = d
    BY <1>1, <1>4 DEF Apart
  <2> HIDE DEF inDescs, inChain, inPool, inHeld
  <2> QED BY <2>1, <2>2, OneOrNone
<1>5. ASSUME NEW i \in DOMAIN chain, chain[i].buf = b
      PROVE  /\ Cardinality(inDescs) = 0 /\ Cardinality(inChain) = 1
             /\ Cardinality(inPool) = 0 /\ Cardinality(inHeld) = 0
  <2>1. inPool = {} /\ inDescs = {} /\ inHeld = {}
    BY <1>1, <1>5 DEF Apart
  <2>2. i \in inChain /\ \A y \in inChain : y = i
    BY <1>1, <1>5 DEF Apart
  <2> HIDE DEF inDescs, inChain, inPool, inHeld
  <2> QED BY <2>1, <2>2, OneOrNone
<1> QED BY <1>2, <1>3, <1>4, <1>5 DEF Somewhere

LEMMA Invariance == Spec => []Ind
BY Initial, Step, PTL DEF Spec

-----------------------------------------------------------------------------
(* Positions ahead of the reader. *)
LEMMA RxAtIs ==
  ASSUME Typed, NEW k \in 0 .. DescCnt
  PROVE  /\ RxAt(k) = IF rxIdx + k < DescCnt THEN rxIdx + k ELSE rxIdx + k - DescCnt
         /\ RxAt(k) \in Descs
<1>1. DescCnt \in Nat /\ DescCnt > 0 /\ rxIdx \in 0 .. DescCnt - 1
  BY EthRxAssumption DEF Typed, TypeOK, Descs
<1>2. rxIdx + k \in 0 .. 2 * DescCnt - 1
  BY <1>1
<1> QED BY <1>1, <1>2, Wrap DEF RxAt, Descs

LEMMA RxNext ==
  ASSUME Typed, NEW k \in 0 .. DescCnt - 1
  PROVE  /\ RxAt(k) \in Descs
         /\ NextDesc(RxAt(k)) = RxAt(k + 1)
         /\ \A l \in 0 .. DescCnt - 1 : RxAt(l) = RxAt(k) => l = k
<1>1. DescCnt \in Nat \ {0} /\ rxIdx \in 0 .. DescCnt - 1
  BY EthRxAssumption DEF Typed, TypeOK, Descs
<1>2. /\ RxAt(k) = IF rxIdx + k < DescCnt THEN rxIdx + k ELSE rxIdx + k - DescCnt
      /\ RxAt(k + 1) = IF rxIdx + (k + 1) < DescCnt THEN rxIdx + (k + 1)
                                                    ELSE rxIdx + (k + 1) - DescCnt
      /\ RxAt(k) \in Descs
  BY <1>1, RxAtIs
<1>3. PICK x \in 0 .. DescCnt - 1 : x = RxAt(k)
  BY <1>2 DEF Descs
<1>4. x + 1 \in 0 .. 2 * DescCnt - 1
  BY <1>1
<1>5. NextDesc(x) = IF x + 1 < DescCnt THEN x + 1 ELSE x + 1 - DescCnt
  BY <1>1, <1>4, Wrap DEF NextDesc
<1>6. NextDesc(RxAt(k)) = RxAt(k + 1)
  BY <1>1, <1>2, <1>3, <1>5
<1>7. ASSUME NEW l \in 0 .. DescCnt - 1, RxAt(l) = RxAt(k) PROVE l = k
  <2>1. RxAt(l) = IF rxIdx + l < DescCnt THEN rxIdx + l ELSE rxIdx + l - DescCnt
    BY <1>1, RxAtIs
  <2> QED BY <1>1, <1>2, <1>7, <2>1
<1> QED BY <1>2, <1>6, <1>7

LEMMA RxEnds ==
  ASSUME Typed
  PROVE  RxAt(0) = rxIdx /\ RxAt(DescCnt) = rxIdx
<1>1. DescCnt \in Nat \ {0} /\ rxIdx \in 0 .. DescCnt - 1
  BY EthRxAssumption DEF Typed, TypeOK, Descs
<1>2. /\ RxAt(0) = IF rxIdx + 0 < DescCnt THEN rxIdx + 0 ELSE rxIdx + 0 - DescCnt
      /\ RxAt(DescCnt) = IF rxIdx + DescCnt < DescCnt THEN rxIdx + DescCnt
                                                      ELSE rxIdx + DescCnt - DescCnt
  BY <1>1, RxAtIs
<1> QED BY <1>1, <1>2

(* What the packets are, and that their parts lie before the DMA. *)
LEMMA Waiting ==
  ASSUME Ind, started, WellFormed, NEW first \in [1 .. Coming + 1 -> Int], Placed(first)
  PROVE  /\ Len(arrived) \in Nat /\ Coming = Len(arrived) + 1
         /\ Given \in 0 .. DescCnt /\ DescCnt \in Nat \ {0}
         /\ \A i \in 1 .. Coming : /\ Packet(i) \in Seq(Part)
                                   /\ Len(Packet(i)) \in 0 .. 2
                                   /\ i < Coming => Len(Packet(i)) \in {1, 2}
         /\ \A i \in 1 .. Coming : \A j \in 1 .. Len(Packet(i)) :
              first[i] + j - 1 \in Int /\ first[i] + j - 1 < first[Coming + 1]
<1>1. Len(arrived) \in Nat /\ Coming = Len(arrived) + 1
  BY LenProperties DEF WellFormed, Coming
<1>2. DescCnt \in Nat \ {0} /\ MaxBuffers \in {1, 2}
  BY EthRxAssumption
<1>3. Given \in 0 .. DescCnt
  BY <1>2 DEF Given, Ind, Typed, TypeOK, Building, Reading
<1>4. ASSUME NEW i \in 1 .. Coming
      PROVE  /\ Packet(i) \in Seq(Part) /\ Len(Packet(i)) \in 0 .. 2
             /\ i < Coming => Len(Packet(i)) \in {1, 2}
  <2>1. CASE i <= Len(arrived)
    <3>1. i \in 1 .. Len(arrived) /\ Packet(i) = arrived[i]
      BY <1>1, <2>1 DEF Packet
    <3>2. arrived[i] \in Seq(Part)
      BY <3>1, ElementOfSeq DEF WellFormed
    <3> QED BY <3>1, <3>2 DEF WellFormed
  <2>2. CASE ~(i <= Len(arrived))
    <3>1. i = Coming /\ Packet(i) = filled
      BY <1>1, <2>2 DEF Packet
    <3>2. filled \in Seq(Part) /\ Len(filled) \in Nat /\ Len(filled) < MaxBuffers
      BY LenProperties DEF Ind, Typed, TypeOK
    <3>3. Len(filled) \in 0 .. 2
      <4>1. PICK m \in Nat : m = Len(filled)
        BY <3>2
      <4>2. m < 1 \/ m < 2
        BY <1>2, <3>2, <4>1
      <4> QED BY <4>1, <4>2
    <3>4. ~(i < Coming)
      BY <1>1, <3>1
    <3> QED BY <3>1, <3>2, <3>3, <3>4
  <2> QED BY <2>1, <2>2
<1>5. ASSUME NEW i \in 1 .. Coming, NEW j \in 1 .. Len(Packet(i))
      PROVE  first[i] + j - 1 \in Int /\ first[i] + j - 1 < first[Coming + 1]
  <2>1. /\ i + 1 \in 1 .. Coming + 1 /\ i \in 1 .. Coming + 1
        /\ Coming + 1 \in 1 .. Coming + 1 /\ Len(Packet(i)) \in Nat
    BY <1>1, <1>4
  <2>2. first[i] \in Int /\ first[i + 1] \in Int /\ first[Coming + 1] \in Int
    BY <2>1
  <2>3. first[i + 1] = first[i] + Len(Packet(i)) /\ first[i + 1] <= first[Coming + 1]
    BY <2>1 DEF Placed
  <2> QED BY <2>1, <2>2, <2>3
<1> QED BY <1>1, <1>2, <1>3, <1>4, <1>5

(* Steps of which the packets and the DMA see nothing. *)
LEMMA FlowSame ==
  ASSUME Flow, Given' = Given,
         UNCHANGED <<desc, dmaIdx, filled, arrived, rxIdx, chain, dataLength, started, downs>>,
         pc' \in {"ready", "buildReady"} <=> pc \in {"ready", "buildReady"}
  PROVE  Flow'
<1> SUFFICES ASSUME LinkKept, started PROVE Flow'
  BY DEF Flow, LinkKept, Untouched
<1>1. WellFormed' /\ Chained'
  BY DEF Flow, WellFormed, Chained, Packet, Coming
<1>2. PICK first \in [1 .. Coming + 1 -> Int] : Placed(first)
  BY DEF Flow
<1>3. Placed(first)' /\ Coming' = Coming
  BY <1>2 DEF Placed, Describes, Packet, Coming, RxAt
<1> QED BY <1>1, <1>2, <1>3 DEF Flow

(* When the link is up the ring stands in some such way. *)
LEMMA Where ==
  ASSUME Ind, Flow, LinkKept, started
  PROVE  \E z \in Nat \ {0}, w \in 0 .. DescCnt :
           \E first \in [1 .. z + 1 -> Int] : Laid(z, w, first)
<1>1. PICK first \in [1 .. Coming + 1 -> Int] : Placed(first)
  BY DEF Flow
<1>2. WellFormed
  BY DEF Flow
<1>3. /\ Len(arrived) \in Nat /\ Coming = Len(arrived) + 1
      /\ Given \in 0 .. DescCnt /\ DescCnt \in Nat \ {0}
      /\ \A i \in 1 .. Coming : Packet(i) \in Seq(Part) /\ Len(Packet(i)) \in 0 .. 2
      /\ \A i \in 1 .. Coming : \A j \in 1 .. Len(Packet(i)) :
           first[i] + j - 1 \in Int /\ first[i] + j - 1 < first[Coming + 1]
  BY <1>1, <1>2, Waiting
<1>4. PICK z \in Nat \ {0} : z = Coming
  BY <1>3
<1>5. /\ first[z + 1] \in 0 .. Given /\ dmaIdx = RxAt(first[z + 1])
      /\ \A k \in 0 .. DescCnt - 1 : desc[RxAt(k)].own <=> first[z + 1] <= k /\ k < Given
      /\ first[1] + Len(chain) = 0
      /\ \A i \in 1 .. z : first[i + 1] = first[i] + Len(Packet(i))
      /\ \A i \in 1 .. z + 1 : first[i] <= first[z + 1]
      /\ \A i \in 1 .. z : \A j \in 1 .. Len(Packet(i)) :
           first[i] + j - 1 >= 0 => Describes(desc[RxAt(first[i] + j - 1)], i, j)
  BY <1>1, <1>4 DEF Placed
<1>6. first[z + 1] \in 0 .. DescCnt /\ first[z + 1] <= Given
  BY <1>3, <1>5
<1>7. ASSUME NEW i \in 1 .. z
      PROVE  /\ first[i] \in Int /\ first[i + 1] \in Int
             /\ first[i] <= first[z + 1] /\ first[i + 1] <= first[z + 1]
  <2>1. i \in 1 .. z + 1 /\ i + 1 \in 1 .. z + 1
    BY <1>4
  <2> QED BY <1>1, <1>4, <1>5, <2>1
<1>8. /\ \A i \in 1 .. z - 1 : Packet(i) = arrived[i] /\ Len(arrived[i]) \in {1, 2}
      /\ Packet(z) = filled
  <2>1. /\ \A i \in 1 .. z - 1 : i \in 1 .. Len(arrived) /\ i <= Len(arrived)
        /\ ~(z <= Len(arrived))
    BY <1>3, <1>4
  <2> QED BY <1>2, <2>1 DEF Packet, WellFormed
<1>9. first \in [1 .. z + 1 -> Int]
  BY <1>1, <1>4
<1> USE <1>6, <1>9
<1> WITNESS z \in Nat \ {0}, first[z + 1] \in 0 .. DescCnt
<1> WITNESS first \in [1 .. z + 1 -> Int]
<1> QED BY <1>3, <1>4, <1>5, <1>6, <1>7, <1>8 DEF Laid

(* The DMA adds a part to the packet under way, and may complete it. *)
LEMMA DmaFillFlow ==
  ASSUME Ind, Flow, NEW last \in BOOLEAN, DmaFill(last)
  PROVE  Flow'
<1> SUFFICES ASSUME LinkKept PROVE Flow'
  BY DEF DmaFill, Flow, LinkKept
<1> DEFINE n == Len(arrived)
           fill == Len(filled)
<1>1. PICK rest \in IF last THEN 1..RxBuffLen ELSE {RxBuffLen} :
        LET part == [buf |-> desc[dmaIdx].buf, len |-> rest]
        IN  /\ desc' = [desc EXCEPT ![dmaIdx] =
                 [desc[dmaIdx] EXCEPT !.own = FALSE, !.fd = (filled = <<>>), !.ld = last,
                       !.pl = IF last THEN RxBuffLen * fill + rest ELSE 0]]
            /\ dmaIdx' = NextDesc(dmaIdx)
            /\ IF last
                 THEN filled' = <<>> /\ arrived' = Append(arrived, Append(filled, part))
                 ELSE filled' = Append(filled, part) /\ arrived' = arrived
  BY DEF DmaFill
<1>2. /\ started /\ desc[dmaIdx].own /\ (~last => fill + 1 < MaxBuffers)
      /\ UNCHANGED <<rxIdx, buildIdx, buildCnt, chain, dataLength, started, pc, count, downs>>
  BY DEF DmaFill, hal
<1>3. PICK z \in Nat \ {0}, w \in 0 .. DescCnt :
        \E first \in [1 .. z + 1 -> Int] : Laid(z, w, first)
  BY <1>2, Where
<1>4. PICK first \in [1 .. z + 1 -> Int] : Laid(z, w, first)
  BY <1>3
<1>5. WellFormed /\ Chained
  BY <1>2 DEF Flow
<1>6. /\ n \in Nat /\ z = n + 1 /\ z = Coming
      /\ DescCnt \in Nat \ {0} /\ Given \in 0 .. DescCnt
  BY <1>4 DEF Laid
<1>7. w \in 0 .. DescCnt - 1 /\ w + 1 \in 0 .. Given /\ w \in Nat /\ Typed
  <2>1. w # DescCnt
    <3> SUFFICES ASSUME w = DescCnt PROVE FALSE
      OBVIOUS
    <3>1. desc[RxAt(0)].own
      BY <1>2, <1>4, RxEnds DEF Ind, Laid
    <3>2. 0 \in 0 .. DescCnt - 1
      BY <1>6
    <3>3. w <= 0
      BY <1>4, <3>1, <3>2 DEF Laid
    <3> QED BY <1>6, <3>3
  <2>2. w \in 0 .. DescCnt - 1
    BY <1>6, <2>1
  <2>3. w < Given
    BY <1>2, <1>4, <2>2 DEF Laid
  <2> QED BY <1>6, <2>2, <2>3 DEF Ind
<1>8. PICK at \in Descs : at = RxAt(w) /\ at = dmaIdx /\ dmaIdx' = NextDesc(at)
  BY <1>1, <1>4, RxAtIs DEF Ind, Laid
<1> DEFINE part == [buf |-> desc[at].buf, len |-> rest]
           new == [desc[at] EXCEPT !.own = FALSE, !.fd = (filled = <<>>), !.ld = last,
                                   !.pl = IF last THEN RxBuffLen * fill + rest ELSE 0]
<1>9. /\ RxBuffLen \in Nat \ {0} /\ MaxBuffers \in {1, 2} /\ rest \in 1 .. RxBuffLen
      /\ ~last => rest = RxBuffLen
  BY EthRxAssumption
<1>10. part \in Part /\ part.len = rest /\ part.buf = desc[at].buf
  BY <1>9 DEF Part, Ind, Typed, TypeOK
<1>11. fill \in {0, 1} /\ filled \in Seq(Part) /\ (~last => fill = 0)
  <2>1. filled \in Seq(Part) /\ fill \in Nat /\ fill < MaxBuffers
    BY LenProperties DEF Ind, Typed, TypeOK
  <2> HIDE DEF fill
  <2> QED BY <1>2, <1>9, <2>1
<1>12. filled = <<>> <=> fill = 0
  BY <1>11, EmptySeq
<1>13. /\ desc'[at] = new /\ \A d \in Descs \ {at} : desc'[d] = desc[d]
       /\ new.buf = desc[at].buf /\ ~new.own /\ new.fd = (fill = 0) /\ new.ld = last
       /\ last => new.pl = (IF fill = 0 THEN 0 ELSE RxBuffLen) + rest
  <2>1. desc' = [desc EXCEPT ![at] = new]
    BY <1>1, <1>8
  <2>2. /\ new.buf = desc[at].buf /\ ~new.own /\ new.fd = (filled = <<>>) /\ new.ld = last
        /\ last => new.pl = RxBuffLen * fill + rest
    BY DEF Ind, Typed, TypeOK
  <2>3. RxBuffLen * fill = IF fill = 0 THEN 0 ELSE RxBuffLen
    <3> HIDE DEF fill
    <3> QED BY <1>9, <1>11
  <2>4. desc'[at] = new /\ \A d \in Descs \ {at} : desc'[d] = desc[d]
    <3> HIDE DEF new
    <3> QED BY <2>1 DEF Ind, Typed, TypeOK
  <2> QED BY <1>12, <2>2, <2>3, <2>4
<1> HIDE DEF part, new
<1>14. ASSUME NEW k \in 0 .. DescCnt - 1, k # w PROVE desc'[RxAt(k)] = desc[RxAt(k)]
  <2>1. RxAt(k) \in Descs /\ RxAt(k) # RxAt(w)
    BY <1>7, <1>14, RxNext
  <2> QED BY <1>8, <1>13, <2>1
<1>15. Given' = Given /\ \A k : RxAt(k)' = RxAt(k)
  BY <1>2 DEF Given, Building, RxAt
<1>16. /\ dmaIdx' = RxAt(w + 1)
       /\ \A k \in 0 .. DescCnt - 1 : desc'[RxAt(k)].own <=> w + 1 <= k /\ k < Given
  <2>1. dmaIdx' = RxAt(w + 1)
    BY <1>7, <1>8, RxNext
  <2>2. ASSUME NEW k \in 0 .. DescCnt - 1
        PROVE  desc'[RxAt(k)].own <=> w + 1 <= k /\ k < Given
    <3>1. CASE k = w
      <4>1. ~desc'[RxAt(k)].own
        BY <1>8, <1>13, <3>1
      <4>2. ~(w + 1 <= k)
        BY <1>7, <3>1
      <4> QED BY <4>1, <4>2
    <3>2. CASE k # w
      <4>1. desc[RxAt(k)].own <=> w <= k /\ k < Given
        BY <1>4 DEF Laid
      <4>2. w <= k <=> w + 1 <= k
        BY <1>7, <3>2
      <4> QED BY <1>14, <3>2, <4>1, <4>2
    <3> QED BY <3>1, <3>2
  <2> QED BY <2>1, <2>2
<1>17. first[z] \in Int /\ first[z] + fill = w /\ Packet(z) = filled
  <2>1. Packet(z) = filled /\ z \in 1 .. z
    BY <1>6 DEF Packet
  <2> QED BY <1>4, <1>6, <2>1 DEF Laid
(* The packets before are where they were. *)
<1>18. ASSUME NEW i \in 1 .. z, NEW j \in 1 .. Len(Packet(i)), first[i] + j - 1 >= 0
       PROVE  /\ desc'[RxAt(first[i] + j - 1)] = desc[RxAt(first[i] + j - 1)]
              /\ Describes(desc[RxAt(first[i] + j - 1)], i, j)
  <2>1. PICK p \in Int : p = first[i] + j - 1 /\ p < w
    BY <1>4 DEF Laid
  <2>2. first[i] + j - 1 \in 0 .. DescCnt - 1 /\ first[i] + j - 1 # w
    <3>1. p >= 0 /\ w \in Int /\ w <= DescCnt - 1 /\ DescCnt \in Int
      BY <1>6, <1>7, <1>18, <2>1
    <3>2. p \in 0 .. DescCnt - 1 /\ p # w
      BY <2>1, <3>1
    <3> QED BY <2>1, <3>2
  <2>3. desc'[RxAt(first[i] + j - 1)] = desc[RxAt(first[i] + j - 1)]
    BY <1>14, <2>2
  <2> QED BY <1>4, <1>18, <2>3 DEF Laid
<1>19. /\ \A i \in 1 .. n : i \in 1 .. z /\ i < z /\ Packet(i) = arrived[i]
       /\ \A i \in 1 .. z : \A j \in 1 .. Len(Packet(i)) :
            i = z \/ j < Len(Packet(i)) => Packet(i)[j].len = RxBuffLen
       /\ \A i \in 1 .. n : Len(arrived[i]) \in {1, 2}
  BY <1>5, <1>6 DEF Packet, WellFormed
<1>20. CASE ~last
  <2>1. arrived' = arrived /\ filled' = Append(filled, part) /\ fill = 0 /\ Coming' = z
    BY <1>1, <1>6, <1>8, <1>11, <1>20 DEF part, Coming
  <2>2. filled' \in Seq(Part) /\ Len(filled') = 1 /\ filled'[1] = part
    BY <1>6, <1>10, <1>11, <2>1, AppendProperties
  <2>3. /\ \A i \in 1 .. n : Packet(i)' = arrived[i]
        /\ Packet(z)' = filled'
    BY <1>6, <2>1 DEF Packet
  <2>4. WellFormed'
    <3>1. ASSUME NEW i \in 1 .. z, NEW j \in 1 .. Len(Packet(i)'),
                 i = z \/ j < Len(Packet(i)')
          PROVE  Packet(i)'[j].len = RxBuffLen
      <4>1. CASE i = z
        BY <1>6, <1>9, <1>10, <1>20, <2>2, <2>3, <4>1
      <4>2. CASE i # z
        <5>1. i \in 1 .. n
          BY <1>6, <4>2
        <5>2. /\ Packet(i)' = Packet(i) /\ i \in 1 .. z
              /\ j \in 1 .. Len(Packet(i)) /\ j < Len(Packet(i))
          BY <1>19, <2>3, <3>1, <4>2, <5>1
        <5> QED BY <1>19, <5>2
      <4> QED BY <1>6, <4>1, <4>2
    <3> QED BY <1>5, <1>6, <2>1, <3>1 DEF WellFormed
  <2>5. Chained'
    <3>1. CASE n = 0
      <4>1. Packet(1) = filled /\ Packet(1)' = filled' /\ Len(chain) \in Nat
        BY <1>6, <2>1, <3>1, LenProperties DEF Packet, Ind, Typed
      <4>2. Len(chain) = 0 /\ arrived = <<>>
        BY <1>5, <1>6, <2>1, <3>1, <4>1, EmptySeq DEF Chained, WellFormed
      <4> QED BY <1>2, <1>5, <1>6, <2>1, <2>2, <4>1, <4>2 DEF Chained
    <3>2. CASE n > 0
      <4>1. Packet(1)' = Packet(1)
        BY <1>6, <2>1, <3>2 DEF Packet
      <4> QED BY <1>2, <1>5, <1>6, <2>1, <4>1 DEF Chained
    <3> QED BY <1>6, <3>1, <3>2
  <2>6. PICK next \in [1 .. z + 1 -> Int] :
          next[z + 1] = w + 1 /\ \A i \in 1 .. z : next[i] = first[i]
    <3> DEFINE g == [i \in 1 .. z + 1 |-> IF i <= z THEN first[i] ELSE w + 1]
    <3>1. \A i \in 1 .. z : first[i] \in Int
      BY <1>4 DEF Laid
    <3>2. w \in Int /\ z \in Nat
      BY <1>6, <1>7
    <3>3. g \in [1 .. z + 1 -> Int] /\ g[z + 1] = w + 1 /\ \A i \in 1 .. z : g[i] = first[i]
      BY <3>1, <3>2
    <3> QED BY <3>3
  <2>7. Placed(next)'
    <3>1. next[1] + Len(chain) = 0
      BY <1>4, <1>6, <2>6 DEF Laid
    <3>2. \A i \in 1 .. z : next[i + 1] = next[i] + Len(Packet(i)')
      <4> TAKE i \in 1 .. z
      <4>1. CASE i = z
        <5>1. Len(Packet(i)') = 1 /\ next[i] = first[z] /\ next[i + 1] = w + 1 /\ first[z] = w
          BY <1>6, <1>17, <2>1, <2>2, <2>3, <2>6, <4>1
        <5> QED BY <1>7, <5>1
      <4>2. CASE i # z
        <5>1. i \in 1 .. n /\ i + 1 \in 1 .. z /\ Packet(i) = arrived[i]
          BY <1>6, <4>2 DEF Packet
        <5>2. first[i + 1] = first[i] + Len(Packet(i))
          BY <1>4 DEF Laid
        <5>3. Packet(i)' = Packet(i) /\ next[i] = first[i] /\ next[i + 1] = first[i + 1]
          BY <2>3, <2>6, <5>1
        <5> QED BY <5>2, <5>3
      <4> QED BY <1>6, <4>1, <4>2
    <3>3. \A i \in 1 .. z + 1 : next[i] <= next[z + 1]
      <4> TAKE i \in 1 .. z + 1
      <4>1. CASE i \in 1 .. z
        <5>1. first[i] <= w /\ first[i] \in Int
          BY <1>4, <4>1 DEF Laid
        <5> QED BY <1>7, <2>6, <4>1, <5>1
      <4>2. CASE i \notin 1 .. z
        <5>1. i = z + 1
          BY <1>6, <4>2
        <5> QED BY <1>7, <2>6, <5>1
      <4> QED BY <4>1, <4>2
    <3>4. ASSUME NEW i \in 1 .. z, NEW j \in 1 .. Len(Packet(i)'), next[i] + j - 1 >= 0
          PROVE  Describes(desc[RxAt(next[i] + j - 1)], i, j)'
      <4>1. CASE i = z
        <5>1. j = 1 /\ RxAt(next[i] + j - 1) = at
          <6>1. j = 1
            <7>1. j \in 1 .. Len(filled')
              BY <2>3, <4>1
            <7> QED BY <2>2, <7>1
          <6>2. next[i] = w
            BY <1>6, <1>17, <2>1, <2>6, <4>1
          <6>3. next[i] + j - 1 = w
            BY <1>7, <6>1, <6>2
          <6> QED BY <1>8, <6>1, <6>3
        <5>2. desc'[RxAt(next[i] + j - 1)] = new /\ Packet(i)'[j] = part /\ ~(i < z)
          BY <1>6, <1>13, <2>2, <2>3, <4>1, <5>1
        <5> QED BY <1>10, <1>13, <1>15, <1>20, <2>1, <5>1, <5>2 DEF Describes
      <4>2. CASE i # z
        <5>1. i \in 1 .. n
          BY <1>6, <4>2
        <5>2. Packet(i)' = Packet(i) /\ next[i] = first[i]
          BY <1>6, <1>19, <2>3, <2>6, <5>1 DEF Packet
        <5>3. /\ desc'[RxAt(next[i] + j - 1)] = desc[RxAt(next[i] + j - 1)]
              /\ Describes(desc[RxAt(next[i] + j - 1)], i, j)
          BY <1>6, <1>18, <3>4, <5>2
        <5> QED BY <1>6, <1>15, <2>1, <5>2, <5>3 DEF Describes
      <4> QED BY <1>6, <4>1, <4>2
    <3>5. /\ next[z + 1] \in 0 .. Given' /\ dmaIdx' = RxAt(next[z + 1])'
          /\ \A k \in 0 .. DescCnt - 1 :
               desc'[RxAt(k)'].own <=> next[z + 1] <= k /\ k < Given'
      BY <1>7, <1>15, <1>16, <2>6
    <3> QED BY <1>2, <2>1, <3>1, <3>2, <3>3, <3>4, <3>5 DEF Placed
  <2>8. next \in [1 .. Coming' + 1 -> Int]
    BY <2>1, <2>6
  <2> QED BY <1>2, <2>4, <2>5, <2>7, <2>8 DEF Flow
<1>21. CASE last
  <2> DEFINE packet == Append(filled, part)
  <2>1. arrived' = Append(arrived, packet) /\ filled' = <<>>
    BY <1>1, <1>6, <1>8, <1>21 DEF part
  <2>2. /\ packet \in Seq(Part) /\ Len(packet) = fill + 1 /\ packet[fill + 1] = part
        /\ \A j \in 1 .. fill : packet[j] = filled[j]
    BY <1>6, <1>10, <1>11, AppendProperties
  <2> HIDE DEF packet
  <2>3. /\ arrived' \in Seq(Seq(Part)) /\ Len(arrived') = n + 1 /\ arrived'[n + 1] = packet
        /\ \A i \in 1 .. n : arrived'[i] = arrived[i]
    BY <1>5, <1>6, <2>1, <2>2, AppendProperties DEF WellFormed
  <2>4. Coming' = z + 1
    BY <1>6, <2>3 DEF Coming
  <2>5. /\ \A i \in 1 .. n : Packet(i)' = arrived[i]
        /\ Packet(z)' = packet /\ Packet(z + 1)' = <<>>
    BY <1>6, <2>1, <2>3 DEF Packet
  <2>6. Len(<<>>) = 0
    BY EmptySeq
  <2>7. WellFormed'
    <3>1. ASSUME NEW i \in 1 .. z + 1, NEW j \in 1 .. Len(Packet(i)'),
                 i = z + 1 \/ j < Len(Packet(i)')
          PROVE  Packet(i)'[j].len = RxBuffLen
      <4>1. i # z + 1
        BY <1>6, <2>5, <2>6
      <4>2. CASE i = z
        <5>1. j \in 1 .. fill
          BY <1>6, <1>11, <2>2, <2>5, <3>1, <4>1, <4>2
        <5>2. /\ Packet(i)'[j] = filled[j] /\ Packet(i) = filled
              /\ i \in 1 .. z /\ j \in 1 .. Len(Packet(i))
          BY <1>6, <1>17, <2>2, <2>5, <4>2, <5>1
        <5> QED BY <1>19, <4>2, <5>2
      <4>3. CASE i # z
        <5>1. i \in 1 .. n
          BY <1>6, <4>1, <4>3
        <5>2. Packet(i)' = Packet(i) /\ i \in 1 .. z
          BY <1>19, <2>5, <5>1
        <5>3. j \in 1 .. Len(Packet(i)) /\ j < Len(Packet(i))
          BY <3>1, <4>1, <5>2
        <5> QED BY <1>19, <5>2, <5>3
      <4> QED BY <1>6, <4>2, <4>3
    <3>2. ASSUME NEW i \in 1 .. n + 1 PROVE Len(arrived'[i]) \in {1, 2}
      <4>1. CASE i \in 1 .. n
        BY <1>19, <2>3, <4>1
      <4>2. CASE i = n + 1
        <5>1. Len(arrived'[i]) = fill + 1
          BY <2>2, <2>3, <4>2
        <5> HIDE DEF fill
        <5> QED BY <1>11, <5>1
      <4> QED BY <1>6, <4>1, <4>2
    <3> QED BY <1>6, <2>3, <2>4, <3>1, <3>2 DEF WellFormed
  <2>8. Chained'
    <3>1. arrived' # <<>>
      BY <1>6, <2>3, EmptySeq
    <3>2. CASE n = 0
      <4>1. Packet(1) = filled /\ Packet(1)' = packet /\ Len(chain) \in Nat
        BY <1>6, <1>17, <2>5, <3>2, LenProperties DEF Ind, Typed
      <4>2. arrived = <<>> /\ Len(chain) <= fill
        BY <1>5, <1>6, <3>2, <4>1, EmptySeq DEF Chained, WellFormed
      <4>3. \A j \in 1 .. Len(chain) : packet[j] = filled[j]
        BY <1>6, <1>11, <2>2, <4>1, <4>2
      <4>4. Len(chain) < Len(packet) /\ arrived'[1] = packet
        BY <1>11, <2>2, <2>3, <3>2, <4>1, <4>2
      <4>5. /\ pc \notin {"ready", "buildReady"}
            /\ chain # <<>> => dataLength = RxBuffLen
            /\ \A j \in 1 .. Len(chain) : /\ chain[j].buf = filled[j].buf
                                          /\ chain[j].len = filled[j].len
        BY <1>5, <4>1, <4>2 DEF Chained
      <4> QED BY <1>2, <2>2, <4>1, <4>3, <4>4, <4>5 DEF Chained
    <3>3. CASE n > 0
      <4>1. Packet(1)' = Packet(1) /\ arrived'[1] = arrived[1] /\ arrived # <<>>
        BY <1>6, <2>3, <2>5, <3>3, EmptySeq DEF Packet
      <4> QED BY <1>2, <1>5, <1>6, <3>1, <4>1 DEF Chained
    <3> QED BY <1>6, <3>2, <3>3
  <2>9. PICK next \in [1 .. z + 2 -> Int] :
          /\ next[z + 1] = w + 1 /\ next[z + 2] = w + 1
          /\ \A i \in 1 .. z : next[i] = first[i]
    <3> DEFINE g == [i \in 1 .. z + 2 |-> IF i <= z THEN first[i] ELSE w + 1]
    <3>1. \A i \in 1 .. z : first[i] \in Int
      BY <1>4 DEF Laid
    <3>2. w \in Int /\ z \in Nat
      BY <1>6, <1>7
    <3>3. /\ g \in [1 .. z + 2 -> Int] /\ g[z + 1] = w + 1 /\ g[z + 2] = w + 1
          /\ \A i \in 1 .. z : g[i] = first[i]
      BY <3>1, <3>2
    <3> QED BY <3>3
  <2>10. Placed(next)'
    <3>1. next[1] + Len(chain) = 0
      <4>1. next[1] = first[1]
        BY <1>6, <2>9
      <4> QED BY <1>4, <4>1 DEF Laid
    <3>2. \A i \in 1 .. z + 1 : next[i + 1] = next[i] + Len(Packet(i)')
      <4> TAKE i \in 1 .. z + 1
      <4>1. CASE i = z + 1
        <5>1. i + 1 = z + 2 /\ Len(Packet(i)') = 0
          BY <1>6, <2>5, <2>6, <4>1
        <5>2. next[i] = w + 1 /\ next[i + 1] = w + 1 /\ w \in Int
          BY <1>7, <2>9, <4>1, <5>1
        <5> QED BY <5>1, <5>2
      <4>2. CASE i = z
        <5>0. next[z] = first[z] /\ next[z + 1] = w + 1
          BY <1>6, <2>9
        <5>1. Len(Packet(i)') = fill + 1 /\ next[i] = first[z] /\ next[i + 1] = w + 1
          BY <2>2, <2>5, <4>2, <5>0
        <5> HIDE DEF fill
        <5>2. PICK f \in Int : f = first[z] /\ f + fill = w /\ fill \in Int /\ w \in Int
          BY <1>7, <1>11, <1>17
        <5>3. PICK g \in Int : g = fill /\ f + g = w
          BY <5>2
        <5>4. w + 1 = f + (g + 1)
          BY <5>3
        <5> QED BY <5>1, <5>2, <5>3, <5>4
      <4>3. CASE i # z /\ i # z + 1
        <5>1. i \in 1 .. n /\ i + 1 \in 1 .. z /\ Packet(i) = arrived[i]
          BY <1>6, <4>3 DEF Packet
        <5>2. /\ i \in 1 .. z /\ next[i] = first[i] /\ next[i + 1] = first[i + 1]
              /\ Packet(i)' = Packet(i)
          BY <1>19, <2>5, <2>9, <5>1
        <5> QED BY <1>4, <5>2 DEF Laid
      <4> QED BY <1>6, <4>1, <4>2, <4>3
    <3>3. \A i \in 1 .. z + 2 : next[i] <= w + 1
      <4> TAKE i \in 1 .. z + 2
      <4>1. CASE i \in 1 .. z
        <5>1. first[i] <= w /\ first[i] \in Int
          BY <1>4, <4>1 DEF Laid
        <5> QED BY <1>7, <2>9, <4>1, <5>1
      <4>2. CASE i \notin 1 .. z
        <5>1. i = z + 1 \/ i = z + 2
          BY <1>6, <4>2
        <5> QED BY <1>7, <2>9, <5>1
      <4> QED BY <1>6, <4>1, <4>2
    <3>4. ASSUME NEW i \in 1 .. z + 1, NEW j \in 1 .. Len(Packet(i)'), next[i] + j - 1 >= 0
          PROVE  Describes(desc[RxAt(next[i] + j - 1)], i, j)'
      <4>1. i # z + 1
        BY <1>6, <2>5, <2>6
      <4>2. CASE i = z /\ j = fill + 1
        <5>1. RxAt(next[i] + j - 1) = at
          <6>1. next[i] + j - 1 = w
            <7>1. next[i] = first[z] /\ j = fill + 1
              BY <1>6, <2>9, <4>2
            <7> HIDE DEF fill
            <7> QED BY <1>7, <1>11, <1>17, <7>1
          <6> QED BY <1>6, <1>8, <6>1
        <5>2. /\ desc'[RxAt(next[i] + j - 1)] = new /\ Packet(i)'[j] = part
              /\ i < Coming' /\ j = Len(Packet(i)') /\ (j = 1 <=> fill = 0)
          <6>1. i < z + 1 /\ j = fill + 1 /\ (j = 1 <=> fill = 0)
            BY <1>6, <1>11, <4>2
          <6> QED BY <1>13, <2>2, <2>4, <2>5, <4>2, <5>1, <6>1
        <5> QED BY <1>10, <1>13, <1>15, <1>21, <5>1, <5>2 DEF Describes
      <4>3. CASE i = z /\ j # fill + 1
        <5>1. j \in 1 .. fill /\ j < Len(packet) /\ j \in 1 .. Len(Packet(i))
          BY <1>6, <1>11, <1>17, <2>2, <2>5, <4>3
        <5>2. /\ desc'[RxAt(next[i] + j - 1)] = desc[RxAt(next[i] + j - 1)]
              /\ Describes(desc[RxAt(next[i] + j - 1)], i, j)
          <6>1. i \in 1 .. z /\ next[i] = first[i]
            BY <1>6, <2>9, <4>3
          <6> QED BY <1>6, <1>18, <3>4, <5>1, <6>1
        <5> QED BY <1>6, <1>15, <1>17, <2>2, <2>4, <2>5, <4>3, <5>1, <5>2 DEF Describes
      <4>4. CASE i # z
        <5>1. i \in 1 .. n
          BY <1>6, <4>1, <4>4
        <5>2. Packet(i)' = Packet(i) /\ next[i] = first[i] /\ i < z /\ i < Coming'
          BY <1>6, <1>19, <2>4, <2>5, <2>9, <5>1 DEF Packet
        <5>3. /\ desc'[RxAt(next[i] + j - 1)] = desc[RxAt(next[i] + j - 1)]
              /\ Describes(desc[RxAt(next[i] + j - 1)], i, j)
          <6>1. i \in 1 .. z /\ j \in 1 .. Len(Packet(i)) /\ first[i] + j - 1 >= 0
            BY <1>19, <3>4, <5>1, <5>2
          <6> QED BY <1>18, <5>2, <6>1
        <5> QED BY <1>6, <1>15, <5>2, <5>3 DEF Describes
      <4> QED BY <1>6, <4>2, <4>3, <4>4
    <3>5. /\ next[z + 2] \in 0 .. Given' /\ dmaIdx' = RxAt(next[z + 2])'
          /\ \A k \in 0 .. DescCnt - 1 :
               desc'[RxAt(k)'].own <=> next[z + 2] <= k /\ k < Given'
      BY <1>7, <1>15, <1>16, <2>9
    <3>6. Coming' = z + 1 /\ Coming' + 1 = z + 2
      BY <1>6, <2>4
    <3> QED BY <1>2, <2>9, <3>1, <3>2, <3>3, <3>4, <3>5, <3>6 DEF Placed
  <2>11. next \in [1 .. Coming' + 1 -> Int]
    <3>1. Coming' + 1 = z + 2
      BY <1>6, <2>4
    <3> QED BY <2>9, <3>1
  <2> QED BY <1>2, <2>7, <2>8, <2>10, <2>11 DEF Flow
<1> QED BY <1>6, <1>20, <1>21

(* A descriptor more is given to the DMA, behind those it has. *)
LEMMA BuildDescFlow ==
  ASSUME Ind, Flow, BuildDesc
  PROVE  Flow'
<1> SUFFICES ASSUME LinkKept PROVE Flow'
  BY DEF BuildDesc, Flow, LinkKept
<1>1. /\ Building /\ ~Reading /\ started /\ count > 0 /\ count' = count - 1
      /\ UNCHANGED <<dmaIdx, filled, arrived, rxIdx, buildIdx, buildCnt, chain, dataLength,
                     started, pc, downs>>
  BY DEF BuildDesc, hal, Building, Reading, Ind, Typed
<1>2. PICK z \in Nat \ {0}, w \in 0 .. DescCnt :
        \E first \in [1 .. z + 1 -> Int] : Laid(z, w, first)
  BY <1>1, Where
<1>3. PICK first \in [1 .. z + 1 -> Int] : Laid(z, w, first)
  BY <1>2
<1>4. /\ DescCnt \in Nat \ {0} /\ count \in 0 .. DescCnt /\ buildCnt \in 0 .. DescCnt
      /\ count <= buildCnt /\ buildIdx \in 0 .. DescCnt - 1
  BY <1>1, EthRxAssumption DEF Ind, Typed, TypeOK, Descs
<1> DEFINE g == DescCnt - count
<1>5. g \in 0 .. DescCnt - 1 /\ Given = g /\ Given' = g + 1
  BY <1>1, <1>4 DEF Given, Building
<1>6. PICK at \in Descs : at = ToBuild /\ at = RxAt(g)
  <2>1. rxIdx = At(buildCnt + 0)
    BY <1>1, <1>4 DEF Ind, Ring
  <2>2. rxIdx = IF buildIdx + buildCnt < DescCnt THEN buildIdx + buildCnt
                                                 ELSE buildIdx + buildCnt - DescCnt
    BY <1>4, <2>1, AtIs DEF Ind
  <2>3. ToBuild = IF buildIdx + buildCnt - count < DescCnt
                    THEN buildIdx + buildCnt - count ELSE buildIdx + buildCnt - count - DescCnt
    <3>1. buildIdx + buildCnt - count \in 0 .. 2 * DescCnt - 1
      BY <1>1, <1>4
    <3>2. PICK x \in 0 .. 2 * DescCnt - 1 : x = buildIdx + buildCnt - count
      BY <3>1
    <3>3. ToBuild = x % DescCnt
      BY <3>2 DEF ToBuild
    <3>4. x % DescCnt = IF x < DescCnt THEN x ELSE x - DescCnt
      BY Wrap
    <3> QED BY <1>1, <1>4, <3>2, <3>3, <3>4
  <2>4. /\ RxAt(g) = IF rxIdx + g < DescCnt THEN rxIdx + g ELSE rxIdx + g - DescCnt
        /\ RxAt(g) \in Descs
    BY <1>4, <1>5, RxAtIs DEF Ind
  <2>5. ToBuild = RxAt(g)
    BY <1>1, <1>4, <2>2, <2>3, <2>4
  <2> QED BY <2>4, <2>5
<1>7. \A d \in Descs \ {at} : desc'[d] = desc[d]
  BY <1>6 DEF BuildDesc, Ind, Typed, TypeOK
<1>8. desc'[at].own
  <2>1. PICK b : desc' = [desc EXCEPT ![at] = [Blank EXCEPT !.own = TRUE, !.buf = b]]
    BY <1>6 DEF BuildDesc
  <2> QED BY <2>1 DEF Ind, Typed, TypeOK, Blank
<1>9. ASSUME NEW k \in 0 .. DescCnt - 1, k # g PROVE desc'[RxAt(k)] = desc[RxAt(k)]
  <2>1. RxAt(k) \in Descs /\ RxAt(k) # RxAt(g)
    BY <1>5, <1>9, RxNext DEF Ind
  <2> QED BY <1>6, <1>7, <2>1
<1>10. /\ Coming' = z /\ \A k : RxAt(k)' = RxAt(k) /\ Packet(k)' = Packet(k)
       /\ w <= g
  BY <1>1, <1>3, <1>5 DEF Coming, RxAt, Packet, Laid
<1>11. WellFormed' /\ Chained'
  BY <1>1 DEF Flow, WellFormed, Chained, Packet, Coming
<1>12. Placed(first)'
  <2>1. /\ first[1] + Len(chain) = 0 /\ w = first[z + 1] /\ dmaIdx = RxAt(w)
        /\ \A i \in 1 .. z : first[i + 1] = first[i] + Len(Packet(i))
        /\ \A i \in 1 .. z : first[i] <= w
    BY <1>3 DEF Laid
  <2>2. ASSUME NEW i \in 1 .. z, NEW j \in 1 .. Len(Packet(i)), first[i] + j - 1 >= 0
        PROVE  Describes(desc[RxAt(first[i] + j - 1)], i, j)'
    <3>1. Describes(desc[RxAt(first[i] + j - 1)], i, j) /\ Coming = z
      BY <1>3, <2>2 DEF Laid
    <3>2. first[i] + j - 1 \in Int /\ first[i] + j - 1 < w
      BY <1>3 DEF Laid
    <3>3. first[i] + j - 1 \in 0 .. DescCnt - 1 /\ first[i] + j - 1 # g
      <4>1. PICK p \in Int : p = first[i] + j - 1 /\ p >= 0 /\ p < w
        BY <2>2, <3>2
      <4> HIDE DEF g
      <4>2. p \in 0 .. DescCnt - 1 /\ p # g
        BY <1>4, <1>5, <1>10, <4>1
      <4> QED BY <4>1, <4>2
    <3>4. desc'[RxAt(first[i] + j - 1)] = desc[RxAt(first[i] + j - 1)]
      BY <1>9, <3>3
    <3> QED BY <1>10, <3>1, <3>4 DEF Describes
  <2>3. ASSUME NEW k \in 0 .. DescCnt - 1
        PROVE  desc'[RxAt(k)].own <=> w <= k /\ k < g + 1
    <3>1. CASE k = g
      BY <1>5, <1>6, <1>8, <1>10, <3>1
    <3>2. CASE k # g
      <4>1. desc[RxAt(k)].own <=> w <= k /\ k < g
        BY <1>3, <1>5 DEF Laid
      <4>2. k < g <=> k < g + 1
        BY <1>5, <3>2
      <4> QED BY <1>9, <3>2, <4>1, <4>2
    <3> QED BY <3>1, <3>2
  <2>4. w \in 0 .. g + 1 /\ w <= w /\ z + 1 \in 1 .. z + 1
    BY <1>5, <1>10
  <2>5. \A i \in 1 .. z + 1 : first[i] <= w
    <3> TAKE i \in 1 .. z + 1
    <3>1. i \in 1 .. z \/ i = z + 1
      OBVIOUS
    <3> QED BY <2>1, <2>4, <3>1
  <2> QED BY <1>1, <1>5, <1>10, <2>1, <2>2, <2>3, <2>4, <2>5 DEF Placed
<1> QED BY <1>1, <1>10, <1>11, <1>12 DEF Flow

(* Before the link is up for the first time there is nothing. *)
LEMMA LinkFlow ==
  ASSUME Ind, Flow, LinkDown \/ LinkUp
  PROVE  Flow'
<1> SUFFICES ASSUME LinkKept', started' PROVE Flow'
  <2>1. ASSUME LinkKept' PROVE started'
    BY <2>1 DEF LinkDown, LinkUp, LinkKept, Ind, Typed, TypeOK
  <2> QED BY <2>1 DEF Flow
<1>1. LinkUp /\ LinkKept
  BY DEF LinkDown, LinkUp, LinkKept, Ind, Typed, TypeOK
<1>2. /\ ~started /\ buildCnt' = DescCnt /\ count' = DescCnt /\ pc' = "build"
      /\ UNCHANGED <<desc, dmaIdx, filled, arrived, rxIdx, chain>>
  BY <1>1 DEF LinkUp, ring
<1>3. /\ arrived = <<>> /\ filled = <<>> /\ chain = <<>> /\ dmaIdx = 0 /\ rxIdx = 0
      /\ \A d \in Descs : ~desc[d].own
  BY <1>1, <1>2 DEF Flow, Untouched
<1>4. DescCnt \in Nat \ {0} /\ Len(<<>>) = 0 /\ <<>> \in Seq(Seq(Part))
  BY EthRxAssumption, EmptySeq
<1>5. Coming' = 1 /\ Packet(1)' = <<>> /\ Given' = 0
  <2>1. Len(arrived') = 0 /\ filled' = <<>>
    BY <1>2, <1>3, <1>4
  <2>2. Coming' = 1 /\ Packet(1)' = <<>>
    BY <2>1 DEF Coming, Packet
  <2>3. Given' = DescCnt - DescCnt - 0
    BY <1>2 DEF Given, Building
  <2> QED BY <1>4, <2>2, <2>3
<1>6. WellFormed'
  <2>1. \A i \in 1 .. 1 : i = 1
    OBVIOUS
  <2> QED BY <1>2, <1>3, <1>4, <1>5, <2>1 DEF WellFormed
<1>7. Chained'
  BY <1>2, <1>3, <1>4, <1>5 DEF Chained
<1>8. PICK first \in [1 .. 2 -> Int] : first[1] = 0 /\ first[2] = 0
  <2> DEFINE g == [i \in 1 .. 2 |-> 0]
  <2>1. g \in [1 .. 2 -> Int] /\ g[1] = 0 /\ g[2] = 0
    OBVIOUS
  <2> QED BY <2>1
<1>9. Placed(first)'
  <2>1. \A k \in 0 .. DescCnt - 1 : ~desc'[RxAt(k)'].own
    <3>1. \A k \in 0 .. DescCnt - 1 : RxAt(k)' = RxAt(k) /\ RxAt(k) \in Descs
      BY <1>2, <1>4, RxAtIs DEF Ind, RxAt
    <3> QED BY <1>2, <1>3, <3>1
  <2>2. RxAt(0)' = 0
    BY <1>2, <1>3, RxEnds DEF Ind, RxAt
  <2>3. /\ \A i \in 1 .. 1 : i = 1
        /\ \A i \in 1 .. 2 : first[i] = 0
        /\ \A k \in 0 .. DescCnt - 1 : ~(k < 0)
        /\ 0 \in 0 .. 0
    BY <1>8
  <2>4. first[1 + 1] = 0 /\ Len(chain') = 0 /\ \A j : j \notin 1 .. Len(Packet(1)')
    <3>1. first[1 + 1] = 0
      BY <1>8
    <3>2. Len(chain') = 0 /\ Len(Packet(1)') = 0
      BY <1>2, <1>3, <1>4, <1>5
    <3>3. \A j : j \notin 1 .. 0
      OBVIOUS
    <3> QED BY <3>1, <3>2, <3>3
  <2> QED BY <1>2, <1>3, <1>4, <1>5, <1>8, <2>1, <2>2, <2>3, <2>4 DEF Placed
<1> QED BY <1>5, <1>6, <1>7, <1>8, <1>9 DEF Flow

LEMMA InitFlow == Init => Flow
BY DEF Init, Flow, Untouched, Blank

(* What is read is the next part of the first packet. *)
LEMMA ReadDescFlow ==
  ASSUME Ind, Flow, ReadDesc
  PROVE  Flow'
<1> SUFFICES ASSUME LinkKept PROVE Flow'
  BY DEF ReadDesc, Flow, LinkKept
<1>1. PICK at \in Descs : at = rxIdx /\ at = RxAt(0)
  BY RxEnds DEF Ind, Typed, TypeOK
<1> DEFINE d == desc[at]
           before == LengthBefore(d)
           length == IF d.ld THEN d.pl - before ELSE RxBuffLen
           c == Len(chain)
           first1 == Packet(1)
<1>2. /\ pc = "read" /\ started /\ ~d.own /\ count < DescCnt - buildCnt
      /\ rxIdx' = NextDesc(at) /\ count' = count + 1
      /\ pc' = (IF (d.fd \/ chain # <<>>) /\ d.ld THEN "ready" ELSE "read")
      /\ UNCHANGED <<dmaIdx, filled, arrived, buildIdx, buildCnt, started, downs>>
  BY <1>1 DEF ReadDesc, Readable, Ind, Typed
<1>3. d.fd \/ chain # <<>> =>
        /\ chain' = Linked(chain, [buf |-> d.buf, len |-> length])
        /\ dataLength' = before + length
        /\ desc' = [desc EXCEPT ![at] = [d EXCEPT !.buf = NoBuffer]]
  BY <1>1 DEF ReadDesc, Emptied
<1>4. PICK z \in Nat \ {0}, w \in 0 .. DescCnt :
        \E first \in [1 .. z + 1 -> Int] : Laid(z, w, first)
  BY <1>2, Where
<1>5. PICK first \in [1 .. z + 1 -> Int] : Laid(z, w, first)
  BY <1>4
<1>6. WellFormed /\ Chained /\ Ind'
  BY <1>2, ReadDescStep DEF Flow
<1>7. /\ DescCnt \in Nat \ {0} /\ count \in 0 .. DescCnt /\ buildCnt \in 0 .. DescCnt
      /\ RxBuffLen \in Nat \ {0} /\ MaxBuffers \in {1, 2}
  BY EthRxAssumption DEF Ind, Typed, TypeOK
<1>8. PICK g \in 1 .. DescCnt : Given = g /\ Given' = g - 1
  <2>1. /\ Given = DescCnt - count - buildCnt
        /\ Given' = DescCnt - (count + 1) - buildCnt
    BY <1>2 DEF Given, Building
  <2>2. DescCnt - count - buildCnt \in 1 .. DescCnt
    BY <1>2, <1>7
  <2> QED BY <1>7, <2>1, <2>2
<1>9. w \in 1 .. g
  <2>1. w # 0
    BY <1>1, <1>2, <1>5, <1>7, <1>8 DEF Laid
  <2> QED BY <1>5, <1>8, <2>1 DEF Laid
<1>10. /\ 1 \in 1 .. z /\ z = Coming /\ z = Len(arrived) + 1 /\ Len(arrived) \in Nat
       /\ first[1] + c = 0 /\ first[1] \in Int /\ first[2] = first[1] + Len(first1)
       /\ Len(first1) \in 0 .. 2 /\ first1 \in Seq(Part)
       /\ z = 1 => first1 = filled /\ w = first[2]
       /\ z > 1 => first1 = arrived[1]
       /\ arrived = <<>> <=> z = 1
  <2>1. arrived = <<>> <=> Len(arrived) = 0
    BY <1>6, EmptySeq DEF WellFormed
  <2>2. 1 \in 1 .. z /\ (z > 1 => 1 \in 1 .. z - 1)
    BY <1>4
  <2> QED BY <1>5, <2>1, <2>2 DEF Laid
<1>11. c \in Nat /\ c < Len(first1) /\ (chain = <<>> <=> c = 0)
  <2>1. c \in Nat /\ (chain = <<>> <=> c = 0)
    BY LenProperties, EmptySeq DEF Ind, Typed
  <2>2. CASE z = 1
    <3> HIDE DEF c, first1
    <3> QED BY <1>9, <1>10, <2>1, <2>2
  <2>3. CASE z > 1
    BY <1>2, <1>6, <1>10, <2>3 DEF Chained
  <2> QED BY <1>10, <2>1, <2>2, <2>3
<1>12. c + 1 \in 1 .. Len(first1) /\ c \in {0, 1}
  <2>1. PICK m \in 0 .. 2 : m = Len(first1)
    BY <1>10
  <2> HIDE DEF c, first1
  <2> QED BY <1>11, <2>1
<1>13. Describes(d, 1, c + 1)
  <2>1. first[1] + (c + 1) - 1 = 0
    <3> HIDE DEF c
    <3> QED BY <1>10, <1>11
  <2>2. first[1] + (c + 1) - 1 >= 0 =>
          Describes(desc[RxAt(first[1] + (c + 1) - 1)], 1, c + 1)
    <3>1. \A j \in 1 .. Len(first1) : first[1] + j - 1 >= 0 =>
            Describes(desc[RxAt(first[1] + j - 1)], 1, j)
      BY <1>5, <1>10 DEF Laid
    <3> QED BY <1>12, <3>1
  <2> HIDE DEF c
  <2> QED BY <1>1, <2>1, <2>2
<1>14. /\ d.buf = first1[c + 1].buf /\ (d.fd <=> c = 0)
       /\ d.ld <=> 1 < z /\ c + 1 = Len(first1)
       /\ d.ld => d.pl = (IF c = 0 THEN 0 ELSE RxBuffLen) + first1[c + 1].len
  <2>1. c + 1 = 1 <=> c = 0
    BY <1>11
  <2> QED BY <1>10, <1>13, <2>1 DEF Describes
<1>15. before = IF c = 0 THEN 0 ELSE RxBuffLen
  BY <1>2, <1>6, <1>11, <1>14 DEF LengthBefore, Chained
<1>16. first1[c + 1].len \in Int /\ length = first1[c + 1].len
  <2>1. first1[c + 1] \in Part
    BY <1>10, <1>12, ElementOfSeq
  <2>2. first1[c + 1].len \in Int
    BY <1>7, <2>1 DEF Part
  <2>3. CASE d.ld
    <3> HIDE DEF c, first1, before, d
    <3> QED BY <1>7, <1>14, <1>15, <2>2, <2>3
  <2>4. CASE ~d.ld
    <3>1. 1 = z \/ c + 1 < Len(first1)
      BY <1>4, <1>10, <1>12, <1>14, <2>4
    <3> QED BY <1>6, <1>10, <1>12, <2>4, <3>1, <2>2 DEF WellFormed
  <2> QED BY <2>2, <2>3, <2>4
<1>17. /\ Len(chain') = c + 1 /\ chain' # <<>>
       /\ \A j \in 1 .. c + 1 : chain'[j].buf = first1[j].buf /\ chain'[j].len = first1[j].len
       /\ dataLength' = before + length
       /\ desc' = [desc EXCEPT ![at] = [d EXCEPT !.buf = NoBuffer]]
       /\ pc' = IF d.ld THEN "ready" ELSE "read"
  <2> DEFINE part == [buf |-> d.buf, len |-> length]
  <2>1. d.fd \/ chain # <<>>
    BY <1>11, <1>14
  <2>2. part \in [buf : Buffers \cup {NoBuffer}, len : Int]
    <3> HIDE DEF length
    <3> QED BY <1>16 DEF Ind, Typed, TypeOK
  <2>3. chain \in Seq(Pbuf) /\ chain' = Linked(chain, part)
    BY <1>3, <2>1 DEF Ind, Typed
  <2>4. part.buf = first1[c + 1].buf /\ part.len = first1[c + 1].len
    BY <1>14, <1>16
  <2> HIDE DEF part
  <2>5. /\ chain' \in Seq(Pbuf) /\ Len(chain') = c + 1
        /\ \A j \in 1 .. c : chain'[j].buf = chain[j].buf /\ chain'[j].len = chain[j].len
        /\ chain'[c + 1] = [buf |-> part.buf, len |-> part.len, tot |-> part.len]
    BY <2>2, <2>3, LinkedAt
  <2>6. chain' # <<>>
    BY <1>11, <2>5, EmptySeq
  <2>7. \A j \in 1 .. c : chain[j].buf = first1[j].buf /\ chain[j].len = first1[j].len
    BY <1>6 DEF Chained
  <2>8. ASSUME NEW j \in 1 .. c + 1
        PROVE  chain'[j].buf = first1[j].buf /\ chain'[j].len = first1[j].len
    <3>1. CASE j = c + 1
      BY <2>4, <2>5, <3>1
    <3>2. CASE j # c + 1
      <4>1. j \in 1 .. c
        BY <1>11, <3>2
      <4> QED BY <2>5, <2>7, <4>1
    <3> QED BY <3>1, <3>2
  <2> QED BY <1>2, <1>3, <2>1, <2>5, <2>6, <2>8
<1>18. WellFormed' /\ Coming' = z /\ \A i : Packet(i)' = Packet(i)
  BY <1>2, <1>6, <1>10 DEF WellFormed, Packet, Coming
<1>19. Chained'
  <2>1. c + 1 <= Len(first1) /\ Packet(1)' = first1
    BY <1>12, <1>18
  <2>2. CASE d.ld
    <3>1. pc' = "ready" /\ arrived' # <<>> /\ c + 1 = Len(arrived'[1])
      BY <1>2, <1>10, <1>14, <1>17, <2>2
    <3> QED BY <1>17, <2>1, <3>1 DEF Chained
  <2>3. CASE ~d.ld
    <3>1. pc' = "read"
      BY <1>17, <2>3
    <3>2. arrived' # <<>> => c + 1 < Len(arrived'[1])
      BY <1>2, <1>4, <1>10, <1>12, <1>14, <2>3
    <3>3. c = 0
      <4>1. CASE z = 1
        <5>1. PICK m \in Nat : m = Len(filled) /\ m < MaxBuffers
          BY <1>10, <2>3, <4>1 DEF Ind, Typed, TypeOK
        <5>2. m < 2 /\ c < m
          BY <1>7, <1>10, <1>11, <4>1, <5>1
        <5> QED BY <1>12, <5>2
      <4>2. CASE z > 1
        <5>1. PICK m \in 0 .. 2 : m = Len(first1)
          BY <1>10
        <5>2. c + 1 # m /\ c + 1 \in 1 .. m
          BY <1>12, <1>14, <2>3, <4>2, <5>1
        <5> HIDE DEF c
        <5> QED BY <1>12, <5>2
      <4> QED BY <1>4, <4>1, <4>2
    <3>4. dataLength' = RxBuffLen
      BY <1>7, <1>15, <1>17, <2>3, <3>3
    <3> QED BY <1>17, <2>1, <3>1, <3>2, <3>4 DEF Chained
  <2> QED BY <2>2, <2>3
<1>20. ASSUME NEW k \in 0 .. DescCnt - 1
       PROVE  RxAt(k)' = RxAt(k + 1)
  <2>1. rxIdx' = IF at + 1 < DescCnt THEN at + 1 ELSE at + 1 - DescCnt
    <3>1. at + 1 \in 0 .. 2 * DescCnt - 1
      BY <1>7 DEF Descs
    <3>2. PICK y \in 0 .. 2 * DescCnt - 1 : y = at + 1
      BY <3>1
    <3>3. y % DescCnt = IF y < DescCnt THEN y ELSE y - DescCnt
      BY Wrap
    <3>4. rxIdx' = y % DescCnt
      BY <1>2, <3>2 DEF NextDesc
    <3> QED BY <1>7, <3>2, <3>3, <3>4 DEF Descs
  <2>2. RxAt(k + 1) = IF at + (k + 1) < DescCnt THEN at + (k + 1) ELSE at + (k + 1) - DescCnt
    BY <1>1, <1>7, RxAtIs DEF Ind
  <2>3. PICK x \in 0 .. DescCnt - 1 : x = rxIdx'
    BY <1>6 DEF Ind, Typed, TypeOK, Descs
  <2>4. RxAt(k)' = IF x + k < DescCnt THEN x + k ELSE x + k - DescCnt
    <3>1. x + k \in 0 .. 2 * DescCnt - 1
      BY <1>7
    <3>2. PICK y \in 0 .. 2 * DescCnt - 1 : y = x + k
      BY <3>1
    <3>3. y % DescCnt = IF y < DescCnt THEN y ELSE y - DescCnt
      BY Wrap
    <3>4. RxAt(k)' = y % DescCnt
      BY <2>3, <3>2 DEF RxAt
    <3> QED BY <1>7, <3>2, <3>3, <3>4
  <2> QED BY <1>7, <2>1, <2>2, <2>3, <2>4 DEF Descs
<1>21. /\ \A e \in Descs \ {at} : desc'[e] = desc[e]
       /\ ~desc'[at].own
  BY <1>2, <1>17 DEF Ind, Typed, TypeOK
<1>22. ASSUME NEW k \in 1 .. DescCnt - 1 PROVE desc'[RxAt(k)] = desc[RxAt(k)]
  <2>1. RxAt(k) \in Descs /\ RxAt(k) # RxAt(0)
    BY <1>7, RxNext DEF Ind
  <2> QED BY <1>1, <1>21, <2>1
<1>23. PICK next \in [1 .. z + 1 -> Int] : \A i \in 1 .. z + 1 : next[i] = first[i] - 1
  <2> DEFINE f == [i \in 1 .. z + 1 |-> first[i] - 1]
  <2>1. f \in [1 .. z + 1 -> Int] /\ \A i \in 1 .. z + 1 : f[i] = first[i] - 1
    OBVIOUS
  <2> QED BY <2>1
<1>24. Placed(next)'
  <2>1. next[1] + Len(chain') = 0
    <3>1. next[1] = first[1] - 1
      BY <1>4, <1>23
    <3> HIDE DEF c
    <3> QED BY <1>10, <1>11, <1>17, <3>1
  <2>2. next[z + 1] = w - 1
    BY <1>5, <1>23 DEF Laid
  <2>3. ASSUME NEW i \in 1 .. z
        PROVE  /\ next[i + 1] = next[i] + Len(Packet(i)') /\ next[i] <= next[z + 1]
               /\ next[i] = first[i] - 1 /\ first[i] \in Int
    <3>1. i \in 1 .. z + 1 /\ i + 1 \in 1 .. z + 1
      OBVIOUS
    <3>2. /\ first[i] \in Int /\ first[i] <= w /\ first[i + 1] = first[i] + Len(Packet(i))
          /\ Len(Packet(i)) \in Int
      BY <1>5 DEF Laid
    <3>3. PICK q \in Int, m \in Int :
            /\ q = first[i] /\ m = Len(Packet(i)) /\ first[i + 1] = q + m /\ q <= w
      BY <3>2
    <3>4. next[i] = q - 1 /\ m = Len(Packet(i)')
      BY <1>18, <1>23, <3>1, <3>3
    <3>5. PICK r \in Int : r = first[i + 1] /\ r = q + m
      BY <3>2, <3>3
    <3>6. next[i + 1] = r - 1
      BY <1>23, <3>1, <3>5
    <3>7. next[i + 1] = next[i] + m
      BY <3>4, <3>5, <3>6
    <3>8. q - 1 <= w - 1
      BY <3>3
    <3> QED BY <2>2, <3>3, <3>4, <3>7, <3>8
  <2>4. \A i \in 1 .. z + 1 : next[i] <= next[z + 1]
    <3> TAKE i \in 1 .. z + 1
    <3>1. i \in 1 .. z \/ i = z + 1
      OBVIOUS
    <3> QED BY <2>2, <2>3, <3>1
  <2>5. ASSUME NEW i \in 1 .. z, NEW j \in 1 .. Len(Packet(i)'), next[i] + j - 1 >= 0
        PROVE  Describes(desc[RxAt(next[i] + j - 1)], i, j)'
    <3>1. j \in 1 .. Len(Packet(i)) /\ j \in Int
      BY <1>18
    <3>2. PICK p \in Int : p = first[i] + j - 1 /\ p < w
      BY <1>5, <3>1 DEF Laid
    <3>3. p - 1 = next[i] + j - 1
      <4>1. PICK q \in Int : q = first[i] /\ next[i] = q - 1
        BY <2>3
      <4> QED BY <3>1, <3>2, <4>1
    <3>4. p \in 1 .. DescCnt - 1 /\ p - 1 \in 0 .. DescCnt - 1 /\ (p - 1) + 1 = p
      <4>1. p - 1 >= 0
        BY <2>5, <3>3
      <4>2. w <= DescCnt /\ w \in Int /\ DescCnt \in Int
        BY <1>7
      <4>3. p < w
        BY <3>2
      <4> QED BY <4>1, <4>2, <4>3
    <3>5. Describes(desc[RxAt(p)], i, j)
      <4>1. first[i] + j - 1 >= 0 => Describes(desc[RxAt(first[i] + j - 1)], i, j)
        BY <1>5, <3>1 DEF Laid
      <4>2. p >= 0 => Describes(desc[RxAt(p)], i, j)
        BY <3>2, <4>1
      <4> QED BY <3>4, <4>2
    <3>6. RxAt(next[i] + j - 1)' = RxAt(p) /\ desc'[RxAt(p)] = desc[RxAt(p)]
      BY <1>20, <1>22, <3>3, <3>4
    <3> QED BY <1>10, <1>18, <3>5, <3>6 DEF Describes
  <2>6. /\ next[z + 1] \in 0 .. Given' /\ dmaIdx' = RxAt(next[z + 1])'
    <3>1. w - 1 \in 0 .. g - 1 /\ w - 1 \in 0 .. DescCnt - 1 /\ (w - 1) + 1 = w
      BY <1>7, <1>9
    <3>2. RxAt(w - 1)' = RxAt(w)
      BY <1>20, <3>1
    <3> QED BY <1>2, <1>5, <1>8, <2>2, <3>1, <3>2 DEF Laid
  <2>7. ASSUME NEW k \in 0 .. DescCnt - 1
        PROVE  desc'[RxAt(k)'].own <=> next[z + 1] <= k /\ k < Given'
    <3>1. RxAt(k)' = RxAt(k + 1)
      BY <1>20
    <3>2. CASE k = DescCnt - 1
      <4>1. RxAt(k)' = at
        BY <1>1, <1>7, <3>1, <3>2, RxEnds DEF Ind
      <4>2. ~(k < Given')
        BY <1>7, <1>8, <3>2
      <4> QED BY <1>21, <4>1, <4>2
    <3>3. CASE k # DescCnt - 1
      <4>1. k + 1 \in 1 .. DescCnt - 1 /\ k + 1 \in 0 .. DescCnt - 1
        BY <1>7, <3>3
      <4>2. desc'[RxAt(k)'].own <=> w <= k + 1 /\ k + 1 < g
        BY <1>5, <1>8, <1>22, <3>1, <4>1 DEF Laid
      <4> QED BY <1>8, <1>9, <2>2, <4>2
    <3> QED BY <3>2, <3>3
  <2> QED BY <1>18, <2>1, <2>3, <2>4, <2>5, <2>6, <2>7 DEF Placed
<1> QED BY <1>2, <1>18, <1>19, <1>23, <1>24 DEF Flow

(* With the packet that has been given to lwIP the first one is gone. *)
LEMMA BuildEndFlow ==
  ASSUME Ind, Flow, BuildEnd
  PROVE  Flow'
<1> SUFFICES ASSUME LinkKept PROVE Flow'
  BY DEF BuildEnd, Flow, LinkKept
<1>1. /\ Building /\ started /\ pc' = "idle" /\ buildCnt' = count /\ count' = 0
      /\ UNCHANGED <<desc, dmaIdx, filled, rxIdx, dataLength, started, downs>>
  BY DEF BuildEnd, Building, Ind, Typed
<1>2. Given' = Given
  <2>1. /\ DescCnt \in Nat /\ count \in 0 .. DescCnt
        /\ Given = DescCnt - count - 0 /\ Given' = DescCnt - 0 - count
    BY <1>1, EthRxAssumption DEF Given, Building, Ind, Typed, TypeOK
  <2> QED BY <2>1
<1>3. CASE pc = "build"
  <2>1. UNCHANGED <<chain, arrived>>
    BY <1>3 DEF BuildEnd
  <2> QED BY <1>1, <1>2, <1>3, <2>1, FlowSame
<1>4. CASE pc = "buildReady"
  <2>1. /\ chain' = <<>> /\ WellFormed /\ Chained
        /\ arrived # <<>> /\ arrived' = Tail(arrived) /\ Len(chain) = Len(arrived[1])
    BY <1>1, <1>4 DEF BuildEnd, Flow, Chained
  <2>2. PICK z \in Nat \ {0}, w \in 0 .. DescCnt :
          \E first \in [1 .. z + 1 -> Int] : Laid(z, w, first)
    BY <1>1, Where
  <2>3. PICK first \in [1 .. z + 1 -> Int] : Laid(z, w, first)
    BY <2>2
  <2>4. PICK y \in Nat \ {0} : z = y + 1 /\ Len(arrived) = y /\ Coming = z
    <3>1. Len(arrived) \in Nat /\ Len(arrived) # 0
      BY <2>1, EmptySeq, LenProperties DEF WellFormed
    <3> QED BY <2>3, <3>1 DEF Laid
  <2>5. /\ arrived' \in Seq(Seq(Part)) /\ Len(arrived') = y - 1 /\ Coming' = y
        /\ \A i \in 1 .. y - 1 : arrived'[i] = arrived[i + 1]
    <3>1. /\ Tail(arrived) \in Seq(Seq(Part)) /\ Len(Tail(arrived)) = Len(arrived) - 1
          /\ \A i \in 1 .. Len(Tail(arrived)) : Tail(arrived)[i] = arrived[i + 1]
      BY <2>1, HeadTailProperties DEF WellFormed
    <3> QED BY <2>1, <2>4, <3>1 DEF Coming
  <2>6. ASSUME NEW i \in 1 .. y
        PROVE  Packet(i)' = Packet(i + 1) /\ i + 1 \in 1 .. z /\ (i = y <=> i + 1 = z)
    <3>1. CASE i <= y - 1
      <4>1. i <= Len(arrived') /\ i + 1 <= Len(arrived) /\ i \in 1 .. y - 1
        BY <2>4, <2>5, <3>1
      <4>2. Packet(i)' = arrived[i + 1]
        BY <2>5, <4>1 DEF Packet
      <4> QED BY <2>4, <4>1, <4>2 DEF Packet
    <3>2. CASE ~(i <= y - 1)
      BY <1>1, <2>4, <2>5, <3>2 DEF Packet
    <3> QED BY <2>4, <3>1, <3>2
  <2>7. \A i \in 1 .. y - 1 : Len(arrived'[i]) \in {1, 2}
    BY <2>1, <2>4, <2>5 DEF WellFormed
  <2>8. WellFormed'
    <3>1. ASSUME NEW i \in 1 .. y, NEW j \in 1 .. Len(Packet(i)'), i = y \/ j < Len(Packet(i)')
          PROVE  Packet(i)'[j].len = RxBuffLen
      <4>1. /\ i + 1 \in 1 .. z /\ j \in 1 .. Len(Packet(i + 1))
            /\ i + 1 = z \/ j < Len(Packet(i + 1))
        BY <2>6, <3>1
      <4>2. \A k \in 1 .. z : \A l \in 1 .. Len(Packet(k)) :
              k = z \/ l < Len(Packet(k)) => Packet(k)[l].len = RxBuffLen
        BY <2>1, <2>4 DEF WellFormed
      <4> QED BY <2>6, <4>1, <4>2
    <3> QED BY <2>5, <2>7, <3>1 DEF WellFormed
  <2>9. Chained'
    <3>1. Len(chain') = 0 /\ \A j : j \notin 1 .. 0
      BY <2>1, EmptySeq
    <3>2. 0 <= Len(Packet(1)')
      <4>1. Packet(2) \in Seq(Part) /\ Packet(1)' = Packet(2)
        BY <2>3, <2>4, <2>6 DEF Laid
      <4> QED BY <4>1, LenProperties
    <3>3. arrived' # <<>> => 0 < Len(arrived'[1])
      <4>1. arrived' # <<>> => 1 \in 1 .. y - 1
        <5>1. arrived' # <<>> => y - 1 # 0
          BY <2>5, EmptySeq
        <5> QED BY <5>1
      <4>2. \A m \in {1, 2} : 0 < m
        OBVIOUS
      <4> QED BY <2>7, <4>1, <4>2
    <3> QED BY <1>1, <2>1, <3>1, <3>2, <3>3 DEF Chained
  <2>10. PICK next \in [1 .. y + 1 -> Int] : \A i \in 1 .. y + 1 : next[i] = first[i + 1]
    <3> DEFINE f == [i \in 1 .. y + 1 |-> first[i + 1]]
    <3>1. \A i \in 1 .. y + 1 : i + 1 \in 1 .. z + 1
      BY <2>4
    <3>2. f \in [1 .. y + 1 -> Int] /\ \A i \in 1 .. y + 1 : f[i] = first[i + 1]
      BY <3>1
    <3> QED BY <3>2
  <2>11. Placed(next)'
    <3>1. next[1] + Len(chain') = 0
      <4>1. /\ first[1] \in Int /\ first[2] = first[1] + Len(Packet(1)) /\ Packet(1) = arrived[1]
            /\ first[1] + Len(chain) = 0 /\ Len(Packet(1)) \in Int
        <5>1. 1 \in 1 .. z /\ 1 \in 1 .. z - 1 /\ 1 + 1 = 2
          BY <2>4
        <5> QED BY <2>3, <5>1 DEF Laid
      <4>2. next[1] = first[2] /\ Len(chain') = 0
        BY <2>1, <2>10, EmptySeq
      <4> QED BY <2>1, <4>1, <4>2
    <3>2. next[y + 1] = w
      BY <2>3, <2>4, <2>10 DEF Laid
    <3>3. ASSUME NEW i \in 1 .. y
          PROVE  /\ next[i + 1] = next[i] + Len(Packet(i)') /\ next[i] <= w
                 /\ next[i] = first[i + 1]
      <4>1. i \in 1 .. y + 1 /\ i + 1 \in 1 .. y + 1 /\ i + 1 \in 1 .. z
        BY <2>4
      <4> QED BY <2>3, <2>6, <2>10, <4>1 DEF Laid
    <3>4. \A i \in 1 .. y + 1 : next[i] <= next[y + 1]
      <4> TAKE i \in 1 .. y + 1
      <4>1. (i \in 1 .. y \/ i = y + 1) /\ w <= w
        OBVIOUS
      <4> QED BY <3>2, <3>3, <4>1
    <3>5. ASSUME NEW i \in 1 .. y, NEW j \in 1 .. Len(Packet(i)'), next[i] + j - 1 >= 0
          PROVE  Describes(desc[RxAt(next[i] + j - 1)], i, j)'
      <4>1. /\ i + 1 \in 1 .. z /\ j \in 1 .. Len(Packet(i + 1)) /\ next[i] = first[i + 1]
            /\ Packet(i)' = Packet(i + 1)
        BY <2>6, <3>3
      <4>2. Describes(desc[RxAt(next[i] + j - 1)], i + 1, j)
        BY <2>3, <3>5, <4>1 DEF Laid
      <4>3. RxAt(next[i] + j - 1)' = RxAt(next[i] + j - 1)
        BY <1>1 DEF RxAt
      <4>4. i < Coming' <=> i + 1 < Coming
        BY <2>4, <2>5
      <4> QED BY <1>1, <4>1, <4>2, <4>3, <4>4 DEF Describes
    <3>6. /\ next[y + 1] \in 0 .. Given' /\ dmaIdx' = RxAt(next[y + 1])'
          /\ \A k \in 0 .. DescCnt - 1 :
               desc'[RxAt(k)'].own <=> next[y + 1] <= k /\ k < Given'
      <4>1. \A k : RxAt(k)' = RxAt(k)
        BY <1>1 DEF RxAt
      <4> QED BY <1>1, <1>2, <2>3, <3>2, <4>1 DEF Laid
    <3> QED BY <2>5, <3>1, <3>3, <3>4, <3>5, <3>6 DEF Placed
  <2> QED BY <1>1, <2>5, <2>8, <2>9, <2>10, <2>11 DEF Flow
<1> QED BY <1>1, <1>3, <1>4 DEF Building

LEMMA QuietFlow ==
  ASSUME Ind, Flow, \/ LowLevelInput \/ ReadEnd \/ UNCHANGED vars
                    \/ \E b \in Buffers : PbufFree(b)
  PROVE  Flow'
<1>1. DescCnt \in Nat /\ count \in 0 .. DescCnt /\ buildCnt \in 0 .. DescCnt
  BY EthRxAssumption DEF Ind, Typed, TypeOK
<1>2. CASE LowLevelInput
  <2>1. count = 0 /\ count' = 0 /\ pc = "idle" /\ pc' = "read" /\ buildCnt' = buildCnt
    BY <1>2 DEF LowLevelInput, hal, Ind, Typed
  <2>2. Given' = Given
    BY <2>1 DEF Given, Building
  <2> QED BY <1>2, <2>1, <2>2, FlowSame DEF LowLevelInput, ring, hal
<1>3. CASE ReadEnd
  <2>1. /\ \/ pc = "read" /\ pc' = "build"
           \/ pc = "ready" /\ pc' = "buildReady"
        /\ buildCnt' = buildCnt + count /\ count' = buildCnt + count
    BY <1>3 DEF ReadEnd
  <2>2. Given = DescCnt - count - buildCnt /\ Given' = DescCnt - (buildCnt + count) - 0
    BY <2>1 DEF Given, Building
  <2>3. Given' = Given
    BY <1>1, <2>2
  <2> QED BY <1>3, <2>1, <2>3, FlowSame DEF ReadEnd, ring
<1>4. CASE UNCHANGED vars \/ \E b \in Buffers : PbufFree(b)
  <2>1. UNCHANGED <<desc, dmaIdx, filled, arrived, rxIdx, buildCnt, chain, dataLength, started,
                    pc, count, downs>>
    BY <1>4 DEF vars, ring, hal, PbufFree
  <2>2. Given' = Given
    BY <2>1 DEF Given, Building
  <2> QED BY <2>1, <2>2, FlowSame
<1> QED BY <1>2, <1>3, <1>4

LEMMA FlowStep == Ind /\ Flow /\ [Next]_vars => Flow'
BY DmaFillFlow, ReadDescFlow, BuildDescFlow, BuildEndFlow, LinkFlow, QuietFlow DEF Next

(* A packet that waits is before the DMA, so the descriptor looked at is read. *)
LEMMA FlowReadable == Ind /\ Flow => (LinkKept => PacketReadable)
<1> SUFFICES ASSUME Ind, Flow, LinkKept, pc = "idle", started, arrived # <<>>
             PROVE  ~desc[rxIdx].own
  BY DEF PacketReadable
<1>1. PICK z \in Nat \ {0}, w \in 0 .. DescCnt :
        \E first \in [1 .. z + 1 -> Int] : Laid(z, w, first)
  BY Where
<1>2. PICK first \in [1 .. z + 1 -> Int] : Laid(z, w, first)
  BY <1>1
<1>3. z > 1
  <2>1. Len(arrived) # 0
    BY EmptySeq DEF Flow, WellFormed
  <2> QED BY <1>2, <2>1 DEF Laid
<1>4. /\ first[1] \in Int /\ first[2] = first[1] + Len(arrived[1]) /\ first[2] <= w
      /\ first[1] + Len(chain) = 0 /\ Len(arrived[1]) \in {1, 2}
  <2>1. 1 \in 1 .. z /\ 1 \in 1 .. z - 1 /\ 1 + 1 = 2
    BY <1>3
  <2> QED BY <1>2, <2>1 DEF Laid
<1>5. Len(chain) < Len(arrived[1]) /\ Len(chain) \in Nat
  BY LenProperties DEF Flow, Chained, Ind, Typed
<1>6. 0 < w
  BY <1>4, <1>5
<1>7. RxAt(0) = rxIdx /\ 0 \in 0 .. DescCnt - 1
  BY RxEnds, EthRxAssumption DEF Ind
<1> QED BY <1>2, <1>6, <1>7 DEF Laid

(* The chain that is given to lwIP is the first packet. *)
LEMMA FlowDelivers ==
  ASSUME Ind, Flow, LinkKept, pc = "buildReady"
  PROVE  arrived # <<>> /\ Head(arrived) = Delivered
<1>1. /\ WellFormed /\ arrived # <<>> /\ Len(chain) = Len(arrived[1])
      /\ Packet(1) = arrived[1] /\ Len(arrived) \in Nat \ {0}
      /\ \A j \in 1 .. Len(chain) : /\ chain[j].buf = arrived[1][j].buf
                                    /\ chain[j].len = arrived[1][j].len
  <2>1. started /\ WellFormed /\ Chained
    BY DEF Flow, Ind, Typed
  <2>2. arrived # <<>> /\ Len(chain) = Len(arrived[1])
    BY <2>1 DEF Chained
  <2>3. Len(arrived) \in Nat \ {0}
    BY <2>1, <2>2, EmptySeq, LenProperties DEF WellFormed
  <2>4. Packet(1) = arrived[1]
    BY <2>3 DEF Packet
  <2> QED BY <2>1, <2>2, <2>3, <2>4 DEF Chained
<1>2. arrived[1] \in Seq(Part) /\ Head(arrived) = arrived[1]
  <2>1. 1 \in 1 .. Len(arrived)
    BY <1>1
  <2> QED BY <1>1, <2>1, ElementOfSeq, HeadTailProperties DEF WellFormed
<1>3. DOMAIN chain = 1 .. Len(chain) /\ Len(chain) \in Nat
  BY LenProperties DEF Ind, Typed
<1>4. arrived[1] \in [1 .. Len(chain) -> Part]
  BY <1>1, <1>2, LenProperties
<1>5. \A j \in 1 .. Len(chain) :
        arrived[1][j] = [buf |-> chain[j].buf, len |-> chain[j].len]
  BY <1>1, <1>4 DEF Part
<1>6. arrived[1] = Delivered
  BY <1>3, <1>4, <1>5 DEF Delivered
<1> QED BY <1>1, <1>2, <1>6

(***************************************************************************)
(* As long as the link has not gone down lwIP is given the packets that    *)
(* arrive, in their order, each with all its buffers and lengths, and no   *)
(* packet waits behind a descriptor that HAL_ETH_ReadData leaves alone.    *)
(***************************************************************************)
THEOREM ReceivedInOrder == Spec => PacketsAsReceived
<1>1. Ind /\ Flow /\ [Next]_vars => Flow'
  BY FlowStep
<1>2. Spec => []Flow
  BY <1>1, InitFlow, Invariance, PTL DEF Spec
<1>3. Ind /\ Flow => (LinkKept => PacketReadable)
  BY FlowReadable
<1>4. Ind /\ Flow =>
        (Delivering /\ LinkKept => arrived # <<>> /\ Head(arrived) = Delivered)
  BY FlowDelivers DEF Delivering
<1>5. Spec => [](LinkKept => PacketReadable)
  BY <1>2, <1>3, Invariance, PTL
<1>6. Spec => [][Delivering /\ LinkKept => arrived # <<>> /\ Head(arrived) = Delivered]_vars
  BY <1>2, <1>4, Invariance, PTL
<1> QED BY <1>5, <1>6 DEF PacketsAsReceived

(***************************************************************************)
(* Every buffer is in the pool, at one descriptor, in the chain or with    *)
(* lwIP, and only there; what the DMA owns has a buffer; the lengths in a  *)
(* chain add up; and as long as the link has not gone down, no null        *)
(* pointer is linked into a packet.                                        *)
(***************************************************************************)
THEOREM BuffersStaySafe == Spec => []BuffersSafe
<1>1. Ind => BuffersSafe
  BY OnePlace, EthRxAssumption DEF Ind, Typed, BuffersSafe
<1> QED BY <1>1, Invariance, PTL
=============================================================================
