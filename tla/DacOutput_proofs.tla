------------------------- MODULE DacOutput_proofs -------------------------
(***************************************************************************)
(* Whatever the period and the length of the USB handler, as long as a     *)
(* word fits in what that handler leaves of a period: each converter gets  *)
(* whole words, both channels of a tick come out together and in the next  *)
(* tick, the streams are free when they are armed, no update is lost.      *)
(*                                                                         *)
(* The invariant follows each chip through the handler and the transfer,   *)
(* and bounds by the bytes already shifted how late it can be.             *)
(***************************************************************************)
EXTENDS DacOutput, SequenceTheorems, WellFoundedInduction, TLAPS

Waiting == {"idle", "usb"}      \* where time can pass and handlers begin
Whole == Words \ {Torn}

(* Types, with what is in a sequence left to Transfer. *)
Typed ==
  /\ counter \in Ticks
  /\ txBuffer \in [Chips -> Whole]
  /\ csHigh \in [Chips -> BOOLEAN]
  /\ enabled \in [Streams -> BOOLEAN]
  /\ ndtr \in [Streams -> 0 .. WordBytes]
  /\ complete \in [Streams -> BOOLEAN]
  /\ spiStarted \in [Chips -> BOOLEAN]
  /\ txFifo \in [Chips -> Seq(Whole)]
  /\ rxFifo \in [Chips -> 0 .. WordBytes]
  /\ shifted \in [Chips -> Seq(Whole)]
  /\ inputReg \in [Chips -> Whole]
  /\ outputReg \in [Chips -> Whole]
  /\ clock \in 0 .. Period - 1
  /\ update \in BOOLEAN
  /\ usbPending \in BOOLEAN
  /\ usbLeft \in 0 .. UsbTime
  /\ cpu \in Waiting \cup {"load", "select", "arm1", "arm2", "start"}

(* Nothing is under way at a chip.  The transmit stream's interrupt may still wait. *)
Still(c) ==
  /\ ~enabled[RxStream(c)] /\ ~complete[RxStream(c)] /\ ~enabled[TxStream(c)]
  /\ txFifo[c] = <<>> /\ rxFifo[c] = 0
  /\ Len(shifted[c]) <= WordBytes

Deselected(c) == csHigh[c] /\ Still(c)

Selected(c) == ~csHigh[c] /\ Still(c) /\ ~complete[TxStream(c)] /\ shifted[c] = <<>>

(* A word is under way: where its bytes are, and what the streams show of it. *)
Sending(c) ==
  /\ ~csHigh[c]
  /\ txFifo[c] \in Seq({txBuffer[c]}) /\ shifted[c] \in Seq({txBuffer[c]})
  /\ ndtr[TxStream(c)] + Len(txFifo[c]) + Len(shifted[c]) = WordBytes
  /\ ndtr[RxStream(c)] + Len(shifted[c]) = WordBytes + rxFifo[c]
  /\ enabled[TxStream(c)] <=> ndtr[TxStream(c)] > 0
  /\ complete[TxStream(c)] => ndtr[TxStream(c)] = 0
  /\ enabled[RxStream(c)] <=> ndtr[RxStream(c)] > 0
  /\ complete[RxStream(c)] <=> ndtr[RxStream(c)] = 0

(* It began at most UsbTime - 1 late, and every byte time has moved a byte. *)
InTime(c) ==
  /\ spiStarted[c]
  /\ Len(shifted[c]) < WordBytes => ~update /\ clock < UsbTime + Len(shifted[c])
  /\ update => rxFifo[c] = 0

ChipOK(c) ==
  /\ cpu \in Waiting => \/ Deselected(c) /\ inputReg[c] = txBuffer[c]
                        \/ Sending(c) /\ InTime(c)
  /\ cpu \in {"load", "select"} => Deselected(c) /\ ~complete[TxStream(c)]
  /\ cpu = "arm1" \/ (cpu = "arm2" /\ c = 2) => Selected(c)
  /\ cpu = "start" \/ (cpu = "arm2" /\ c = 1) => Sending(c) /\ shifted[c] = <<>>

(* An update is served before a USB handler's time has passed. *)
Timely ==
  /\ update => cpu \in Waiting
  /\ update /\ cpu = "usb" => clock + usbLeft < UsbTime
  /\ (update /\ cpu = "idle") \/ cpu \notin Waiting => clock < UsbTime

Together == txBuffer[1] = txBuffer[2] /\ outputReg[1] = outputReg[2]

Ind == Typed /\ (\A c \in Chips : ChipOK(c)) /\ Timely /\ Together

-----------------------------------------------------------------------------
(* Each chip has two streams of its own. *)
LEMMA StreamsOfChips ==
  /\ \A c \in Chips : /\ RxStream(c) \in Streams /\ TxStream(c) \in Streams
                      /\ RxStream(c) # TxStream(c)
                      /\ ChipOf(RxStream(c)) = c /\ ChipOf(TxStream(c)) = c
  /\ \A s \in Streams : /\ ChipOf(s) \in Chips
                        /\ s = RxStream(ChipOf(s)) \/ s = TxStream(ChipOf(s))
  /\ RxStream(1) = 0 /\ TxStream(1) = 1 /\ RxStream(2) = 2 /\ TxStream(2) = 3
BY DEF Chips, Streams, RxStream, TxStream, ChipOf

LEMMA LeastIsIn ==
  ASSUME NEW S \in SUBSET Nat, S # {}
  PROVE  Min(S) \in S /\ \A y \in S : Min(S) <= y
<1>1. \E x \in S : \A y \in S : ~(<<y, x>> \in OpToRel(<, Nat))
  BY WFMin, NatLessThanWellFounded, Zenon
<1>2. PICK x \in S : \A y \in S : ~(y < x)
  BY <1>1 DEF OpToRel
<1>3. \A y \in S : x <= y
  BY <1>2
<1> QED BY <1>3 DEF Min

(* What the interrupt that is taken says of the others. *)
LEMMA TakenFirst ==
  ASSUME Typed, NEW irq, Takes(irq)
  PROVE  /\ cpu = "idle"
         /\ \A s \in Streams : irq = DmaIrq(s) => complete[s]
         /\ irq = Tim1Irq => update /\ \A s \in Streams : ~complete[s]
         /\ irq = OtgIrq => usbPending /\ ~update
<1>1. Pending \subseteq Nat
  BY DEF Pending, DmaIrq, Tim1Irq, OtgIrq, Streams
<1>2. irq \in Pending /\ \A y \in Pending : irq <= y
  BY <1>1, LeastIsIn DEF Takes
<1>3. /\ \A s \in Streams : complete[s] => DmaIrq(s) \in Pending
      /\ update => Tim1Irq \in Pending
  BY DEF Pending
<1>4. /\ \A s \in Streams : irq = DmaIrq(s) => complete[s]
      /\ irq = Tim1Irq => update
      /\ irq = OtgIrq => usbPending
  BY <1>2 DEF Pending, DmaIrq, Tim1Irq, OtgIrq, Streams
<1>5. irq = Tim1Irq => \A s \in Streams : ~complete[s]
  BY <1>2, <1>3 DEF DmaIrq, Tim1Irq, Streams
<1>6. irq = OtgIrq => ~update
  BY <1>2, <1>3 DEF OtgIrq, Tim1Irq
<1> QED BY <1>4, <1>5, <1>6 DEF Takes

(* A chip at which nothing changes but that its transmit interrupt may be served. *)
Untouched(c) ==
  /\ csHigh'[c] = csHigh[c] /\ txBuffer'[c] = txBuffer[c]
  /\ txFifo'[c] = txFifo[c] /\ rxFifo'[c] = rxFifo[c]
  /\ shifted'[c] = shifted[c] /\ inputReg'[c] = inputReg[c]
  /\ spiStarted'[c] = spiStarted[c]
  /\ \A s \in {RxStream(c), TxStream(c)} : enabled'[s] = enabled[s] /\ ndtr'[s] = ndtr[s]
  /\ complete'[RxStream(c)] = complete[RxStream(c)]
  /\ complete'[TxStream(c)] => complete[TxStream(c)]

LEMMA UntouchedStays ==
  ASSUME NEW c, Untouched(c)
  PROVE  /\ Deselected(c) => Deselected(c)' 
         /\ Selected(c) => Selected(c)'
         /\ Sending(c) => Sending(c)'
         /\ UNCHANGED <<clock, update>> /\ InTime(c) => InTime(c)'
         /\ UNCHANGED <<cpu, clock, update>> /\ ChipOK(c) => ChipOK(c)'
BY DEF Untouched, Deselected, Selected, Still, Sending, InTime, ChipOK

(* A word that has gone out whole. *)
LEMMA SentWhole ==
  ASSUME Typed, NEW c \in Chips, Sending(c), complete[RxStream(c)]
  PROVE  /\ Len(shifted[c]) = WordBytes /\ WordIn(shifted[c]) = txBuffer[c]
         /\ txFifo[c] = <<>> /\ rxFifo[c] = 0
         /\ ~enabled[RxStream(c)] /\ ~enabled[TxStream(c)]
<1> DEFINE n == Len(shifted[c])
           f == Len(txFifo[c])
           t == ndtr[TxStream(c)]
<1>1. /\ t \in Nat /\ f \in Nat /\ n \in Nat /\ rxFifo[c] \in Nat
  BY StreamsOfChips, LenProperties DEF Typed, Sending
<1>2. ndtr[RxStream(c)] = 0
  BY DEF Sending
<1>3. t + f + n = 3 /\ n = 3 + rxFifo[c]
  BY <1>1, <1>2 DEF Sending, WordBytes
<1>4. n = 3 /\ f = 0 /\ rxFifo[c] = 0 /\ t = 0
  <2> HIDE DEF n, f, t
  <2> QED BY <1>1, <1>3
<1>5. \A i \in 1..3 : shifted[c][i] = txBuffer[c]
  BY <1>4, ElementOfSeq DEF Sending
<1>6. WordIn(shifted[c]) = txBuffer[c]
  BY <1>4, <1>5, LenProperties DEF WordIn, WordBytes, Sending
<1>7. txFifo[c] = <<>>
  BY <1>4, EmptySeq DEF Sending
<1> QED BY <1>4, <1>6, <1>7 DEF WordBytes, Sending

-----------------------------------------------------------------------------
LEMMA Initial == Init => Ind
<1> SUFFICES ASSUME Init PROVE Ind
  OBVIOUS
<1> USE ScheduleAssumption
<1>1. <<>> \in Seq(Whole)
  BY EmptySeq
<1>2. PowerOn \in Whole /\ 0 \in Ticks
  BY DEF PowerOn, Whole, Words, Torn, Ticks
<1>3. Typed
  <2>1. 0 \in 0 .. Period - 1 /\ 0 \in 0 .. UsbTime /\ 0 \in 0 .. 3 /\ 3 \in 0 .. 3
    BY DEF WordBytes
  <2> QED BY <1>1, <1>2, <2>1, Zenon DEF Init, Typed, Waiting, WordBytes
<1>4. \A c \in Chips : ChipOK(c)
  BY StreamsOfChips DEF Init, ChipOK, Deselected, Still, WordBytes, Waiting
<1>5. Timely /\ Together
  BY DEF Init, Timely, Together, Waiting, Chips
<1> QED BY <1>3, <1>4, <1>5 DEF Ind

LEMMA DmaHandlerStep ==
  ASSUME Ind, NEW s \in Streams, DmaHandler(s)
  PROVE  Ind'
<1>1. cpu = "idle" /\ complete[s]
  BY TakenFirst DEF DmaHandler, Ind
<1>2. PICK c \in Chips : c = ChipOf(s) /\ (s = RxStream(c) \/ s = TxStream(c))
  BY StreamsOfChips
<1>3. /\ enabled' = [enabled EXCEPT ![s] = FALSE]
      /\ complete' = [complete EXCEPT ![s] = FALSE]
      /\ UNCHANGED <<ndtr, counter, txBuffer, spiStarted, txFifo, rxFifo, clock, update,
                     usbPending, usbLeft, cpu, shifted, outputReg>>
  BY DEF DmaHandler, memory, spi, timer, usb, converters, RaiseCS
<1>4. /\ enabled' \in [Streams -> BOOLEAN] /\ complete' \in [Streams -> BOOLEAN]
      /\ ~enabled'[s] /\ ~complete'[s]
      /\ \A t \in Streams \ {s} : enabled'[t] = enabled[t] /\ complete'[t] = complete[t]
  BY <1>3 DEF Ind, Typed
<1>5. ASSUME csHigh' \in [Chips -> BOOLEAN], inputReg' \in [Chips -> Whole]
      PROVE  Typed'
  BY <1>3, <1>4, <1>5 DEF Ind, Typed
<1>6. ASSUME NEW d \in Chips, d # c,
             csHigh'[d] = csHigh[d], inputReg'[d] = inputReg[d]
      PROVE  ChipOK(d)'
  <2>1. RxStream(d) \in Streams \ {s} /\ TxStream(d) \in Streams \ {s}
    BY <1>2, <1>6, StreamsOfChips
  <2>2. Untouched(d)
    BY <1>3, <1>4, <1>6, <2>1 DEF Untouched
  <2> QED BY <1>3, <2>2, UntouchedStays DEF Ind
<1>7. CASE s = RxStream(c)
  <2>1. Sending(c) /\ InTime(c)
    BY <1>1, <1>2, <1>7 DEF Ind, ChipOK, Deselected, Still, Waiting
  <2>2. /\ csHigh' = [csHigh EXCEPT ![c] = TRUE]
        /\ inputReg' = [inputReg EXCEPT ![c] = txBuffer[c]]
    BY <1>1, <1>2, <1>7, <2>1, SentWhole DEF DmaHandler, RaiseCS, Sending, Ind
  <2>3. /\ csHigh' \in [Chips -> BOOLEAN] /\ inputReg' \in [Chips -> Whole]
        /\ csHigh'[c] /\ inputReg'[c] = txBuffer[c]
        /\ \A d \in Chips \ {c} : csHigh'[d] = csHigh[d] /\ inputReg'[d] = inputReg[d]
    BY <2>2 DEF Ind, Typed
  <2>4. Deselected(c)' /\ inputReg'[c] = txBuffer'[c]
    <3>1. TxStream(c) \in Streams \ {s}
      BY <1>7, StreamsOfChips
    <3>2. ~enabled'[RxStream(c)] /\ ~complete'[RxStream(c)]
      BY <1>4, <1>7
    <3>3. ~enabled'[TxStream(c)]
      <4>1. enabled'[TxStream(c)] = enabled[TxStream(c)]
        BY <1>4, <3>1
      <4>2. ~enabled[TxStream(c)]
        BY <1>1, <1>7, <2>1, SentWhole DEF Ind
      <4> QED BY <4>1, <4>2
    <3>4. txFifo[c] = <<>> /\ rxFifo[c] = 0 /\ Len(shifted[c]) <= WordBytes
      <4>1. txFifo[c] = <<>> /\ rxFifo[c] = 0 /\ Len(shifted[c]) = WordBytes
        BY <1>1, <1>7, <2>1, SentWhole DEF Ind
      <4> QED BY <4>1 DEF WordBytes
    <3> QED BY <1>3, <2>3, <3>2, <3>3, <3>4 DEF Deselected, Still
  <2>5. ChipOK(c)'
    BY <1>1, <1>3, <2>4 DEF ChipOK, Waiting
  <2> QED BY <1>3, <1>5, <1>6, <2>3, <2>5 DEF Ind, Timely, Together
<1>8. CASE s = TxStream(c)
  <2>1. UNCHANGED <<csHigh, inputReg>>
    BY <1>2, <1>8, StreamsOfChips DEF DmaHandler, pins, converters
  <2>2. RxStream(c) \in Streams \ {s}
    BY <1>8, StreamsOfChips
  <2>3. ~enabled'[TxStream(c)] /\ ~complete'[TxStream(c)] /\ complete[TxStream(c)]
    BY <1>1, <1>4, <1>8
  <2>4. /\ enabled'[RxStream(c)] = enabled[RxStream(c)]
        /\ complete'[RxStream(c)] = complete[RxStream(c)]
    BY <1>4, <2>2
  <2>5. ~enabled[TxStream(c)]
    <3>1. CASE Deselected(c)
      BY <3>1 DEF Deselected, Still
    <3>2. CASE Sending(c)
      BY <2>3, <3>2 DEF Sending
    <3> QED BY <1>1, <3>1, <3>2 DEF Ind, ChipOK, Waiting
  <2>6. ChipOK(c)'
    <3>1. enabled'[TxStream(c)] = enabled[TxStream(c)]
      BY <1>4, <2>3, <2>5, StreamsOfChips DEF Ind, Typed
    <3>2. Untouched(c)
      BY <1>3, <2>1, <2>3, <2>4, <3>1 DEF Untouched
    <3> QED BY <1>3, <3>2, UntouchedStays DEF Ind
  <2>7. csHigh' \in [Chips -> BOOLEAN] /\ inputReg' \in [Chips -> Whole]
    BY <2>1 DEF Ind, Typed
  <2> QED BY <1>3, <1>5, <1>6, <2>1, <2>6, <2>7 DEF Ind, Timely, Together
<1> QED BY <1>2, <1>7, <1>8

(* When the update is served nothing is under way, and the words are in. *)
LEMMA LatchReady ==
  ASSUME Ind, Tim1Latch
  PROVE  /\ inputReg = txBuffer /\ clock < UsbTime /\ cpu = "idle"
         /\ \A c \in Chips : Deselected(c) /\ ~complete[TxStream(c)]
<1>1. cpu = "idle" /\ update /\ \A s \in Streams : ~complete[s]
  BY TakenFirst DEF Tim1Latch, Ind
<1>2. clock < UsbTime
  BY <1>1 DEF Ind, Timely
<1>3. ASSUME NEW c \in Chips PROVE ~(Sending(c) /\ InTime(c))
  <2> SUFFICES ASSUME Sending(c), InTime(c) PROVE FALSE
    OBVIOUS
  <2>1. /\ Len(shifted[c]) \in Nat /\ ndtr[RxStream(c)] \in Nat
        /\ ~complete[RxStream(c)]
    BY <1>1, StreamsOfChips, LenProperties DEF Ind, Typed, Sending
  <2>2. Len(shifted[c]) >= 3 /\ rxFifo[c] = 0
    BY <1>1, <2>1 DEF InTime, WordBytes
  <2>3. ndtr[RxStream(c)] = 0
    BY <2>1, <2>2 DEF Sending, WordBytes
  <2> QED BY <2>1, <2>3 DEF Sending
<1>4. \A c \in Chips : Deselected(c) /\ inputReg[c] = txBuffer[c]
  BY <1>1, <1>3 DEF Ind, ChipOK, Waiting
<1>5. inputReg = txBuffer
  BY <1>4 DEF Ind, Typed
<1> QED BY <1>1, <1>2, <1>4, <1>5, StreamsOfChips

LEMMA LatchStep ==
  ASSUME Ind, Tim1Latch
  PROVE  Ind'
<1>1. /\ outputReg' = inputReg /\ update' = FALSE /\ cpu' = "load"
      /\ UNCHANGED <<counter, txBuffer, csHigh, enabled, ndtr, complete, spiStarted, txFifo,
                     rxFifo, shifted, inputReg, clock, usbPending, usbLeft>>
  BY DEF Tim1Latch, memory, pins, dma, spi, usb
<1>2. Typed'
  BY <1>1 DEF Ind, Typed
<1>3. \A c \in Chips : ChipOK(c)'
  BY <1>1, LatchReady DEF ChipOK, Waiting, Deselected, Still
<1>4. Timely' /\ Together'
  BY <1>1, LatchReady DEF Timely, Together, Ind, Waiting
<1> QED BY <1>2, <1>3, <1>4 DEF Ind

LEMMA LoadStep ==
  ASSUME Ind, LoadWords
  PROVE  Ind'
<1>1. /\ cpu = "load" /\ cpu' = "select" /\ txBuffer' = [c \in Chips |-> counter]
      /\ UNCHANGED <<counter, csHigh, enabled, ndtr, complete, spiStarted, txFifo, rxFifo,
                     shifted, inputReg, outputReg, clock, update, usbPending, usbLeft>>
  BY DEF LoadWords, pins, dma, spi, converters, timer, usb
<1>2. Typed'
  BY <1>1, ScheduleAssumption DEF Ind, Typed, Whole, Words, Ticks, Torn
<1>3. \A c \in Chips : ChipOK(c)'
  BY <1>1 DEF Ind, ChipOK, Waiting, Deselected, Still
<1>4. Timely' /\ Together'
  BY <1>1 DEF Ind, Timely, Together, Waiting, Chips
<1> QED BY <1>2, <1>3, <1>4 DEF Ind

LEMMA SelectStep ==
  ASSUME Ind, SelectChips
  PROVE  Ind'
<1>1. /\ cpu = "select" /\ cpu' = "arm1" /\ csHigh' = [c \in Chips |-> FALSE]
      /\ shifted' = [c \in Chips |-> IF csHigh[c] THEN <<>> ELSE shifted[c]]
      /\ UNCHANGED <<counter, txBuffer, enabled, ndtr, complete, spiStarted, txFifo, rxFifo,
                     inputReg, outputReg, clock, update, usbPending, usbLeft>>
  BY DEF SelectChips, memory, dma, spi, timer, usb
<1>2. Typed'
  BY <1>1, EmptySeq DEF Ind, Typed
<1>3. \A c \in Chips : csHigh[c] /\ Still(c) /\ ~complete[TxStream(c)]
  BY <1>1 DEF Ind, ChipOK, Deselected
<1>4. \A c \in Chips : ChipOK(c)'
  BY <1>1, <1>3, EmptySeq DEF ChipOK, Waiting, Selected, Still, WordBytes
<1>5. Timely' /\ Together'
  BY <1>1 DEF Ind, Timely, Together, Waiting
<1> QED BY <1>2, <1>4, <1>5 DEF Ind

(* Both streams of a free SPI take the three bytes that they are given. *)
LEMMA ArmFree ==
  ASSUME Typed, NEW c \in Chips, Arm(c), Selected(c)
  PROVE  /\ Sending(c)' /\ shifted'[c] = <<>>
         /\ ndtr' \in [Streams -> 0 .. WordBytes] /\ enabled' \in [Streams -> BOOLEAN]
         /\ \A d \in Chips \ {c} : Untouched(d)
<1> DEFINE mine == {RxStream(c), TxStream(c)}
<1>1. /\ ndtr' = [s \in Streams |-> IF s \in mine /\ ~enabled[s] THEN WordBytes
                                                                 ELSE ndtr[s]]
      /\ enabled' = [s \in Streams |-> enabled[s] \/ (s \in mine /\ ~complete[s])]
      /\ UNCHANGED <<complete, counter, txBuffer, csHigh, spiStarted, txFifo, rxFifo,
                     shifted, inputReg, outputReg, clock, update, usbPending, usbLeft>>
  BY DEF Arm, memory, pins, spi, converters, timer, usb
<1>2. \A s \in mine : s \in Streams /\ ~enabled[s] /\ ~complete[s]
  BY StreamsOfChips DEF Selected, Still
<1>3. \A s \in mine : ndtr'[s] = WordBytes /\ enabled'[s]
  BY <1>1, <1>2
<1>4. ndtr' \in [Streams -> 0 .. WordBytes]
  BY <1>1 DEF Typed, WordBytes
<1>5. enabled' \in [Streams -> BOOLEAN]
  BY <1>1
<1>6. Sending(c)'
  <2>1. txFifo'[c] = <<>> /\ shifted'[c] = <<>> /\ rxFifo'[c] = 0 /\ ~csHigh'[c]
    BY <1>1 DEF Selected, Still
  <2>2. <<>> \in Seq({txBuffer'[c]}) /\ Len(<<>>) = 0
    BY EmptySeq
  <2>3. ~complete'[RxStream(c)] /\ ~complete'[TxStream(c)]
    BY <1>1, <1>2
  <2> QED BY <1>3, <2>1, <2>2, <2>3 DEF Sending, WordBytes
<1>7. ASSUME NEW d \in Chips \ {c} PROVE Untouched(d)
  <2>1. \A s \in {RxStream(d), TxStream(d)} : s \in Streams \ mine
    BY StreamsOfChips DEF Chips
  <2>2. \A s \in {RxStream(d), TxStream(d)} :
          enabled'[s] = enabled[s] /\ ndtr'[s] = ndtr[s]
    BY <1>1, <2>1 DEF Typed
  <2> QED BY <1>1, <2>2 DEF Untouched
<1> QED BY <1>1, <1>4, <1>5, <1>6, <1>7 DEF Selected

LEMMA ArmStep ==
  ASSUME Ind, ArmStreams
  PROVE  Ind'
<1>1. ASSUME NEW c \in Chips, Arm(c), Selected(c),
             cpu' \in {"arm2", "start"}, cpu \in {"arm1", "arm2"}
      PROVE  Typed' /\ Timely' /\ Together'
  <2>1. UNCHANGED <<complete, counter, txBuffer, csHigh, spiStarted, txFifo, rxFifo,
                    shifted, inputReg, outputReg, clock, update, usbPending, usbLeft>>
    BY <1>1 DEF Arm, memory, pins, spi, converters, timer, usb
  <2>2. ndtr' \in [Streams -> 0 .. WordBytes] /\ enabled' \in [Streams -> BOOLEAN]
    BY <1>1, ArmFree DEF Ind
  <2> QED BY <1>1, <2>1, <2>2 DEF Ind, Typed, Timely, Together, Waiting
<1>2. CASE cpu = "arm1" /\ Arm(1) /\ cpu' = "arm2"
  <2>1. Selected(1) /\ Selected(2) /\ 1 \in Chips /\ 2 \in Chips \ {1}
    BY <1>2 DEF Ind, ChipOK, Chips
  <2>2. Sending(1)' /\ shifted'[1] = <<>> /\ Untouched(2)
    BY <1>2, <2>1, ArmFree DEF Ind
  <2>3. Selected(2)'
    BY <2>1, <2>2, UntouchedStays
  <2>4. \A c \in Chips : ChipOK(c)'
    BY <1>2, <2>2, <2>3 DEF ChipOK, Chips, Waiting
  <2> QED BY <1>1, <1>2, <2>1, <2>4 DEF Ind
<1>3. CASE cpu = "arm2" /\ Arm(2) /\ cpu' = "start"
  <2>1. /\ Sending(1) /\ shifted[1] = <<>> /\ Selected(2)
        /\ 2 \in Chips /\ 1 \in Chips \ {2}
    BY <1>3 DEF Ind, ChipOK, Chips
  <2>2. Sending(2)' /\ shifted'[2] = <<>> /\ Untouched(1)
    BY <1>3, <2>1, ArmFree DEF Ind
  <2>3. Sending(1)' /\ shifted'[1] = <<>>
    BY <2>1, <2>2, UntouchedStays DEF Untouched
  <2>4. \A c \in Chips : ChipOK(c)'
    BY <1>3, <2>2, <2>3 DEF ChipOK, Chips, Waiting
  <2> QED BY <1>1, <1>3, <2>1, <2>4 DEF Ind
<1> QED BY <1>2, <1>3 DEF ArmStreams

LEMMA StartStep ==
  ASSUME Ind, StartSpi
  PROVE  Ind'
<1>1. /\ cpu = "start" /\ cpu' = "idle" /\ spiStarted' = [c \in Chips |-> TRUE]
      /\ counter' = IF counter + 1 >= CounterModulus THEN 0 ELSE counter + 1
      /\ UNCHANGED <<txBuffer, csHigh, enabled, ndtr, complete, txFifo, rxFifo, shifted,
                     inputReg, outputReg, clock, update, usbPending, usbLeft>>
  BY DEF StartSpi, pins, dma, converters, timer, usb
<1>2. counter' \in Ticks
  BY <1>1, ScheduleAssumption DEF Ind, Typed, Ticks
<1>3. Typed'
  BY <1>1, <1>2 DEF Ind, Typed, Waiting
<1>4. ~update /\ clock < UsbTime
  BY <1>1 DEF Ind, Timely, Waiting
<1>5. ASSUME NEW c \in Chips PROVE ChipOK(c)'
  <2>1. Sending(c) /\ shifted[c] = <<>>
    BY <1>1 DEF Ind, ChipOK
  <2>2. Sending(c)'
    BY <1>1, <2>1 DEF Sending
  <2>3. InTime(c)'
    <3>1. Len(shifted'[c]) = 0 /\ rxFifo'[c] \in Nat /\ spiStarted'[c]
      BY <1>1, <2>1, EmptySeq DEF Ind, Typed
    <3>2. ~update' /\ clock' < UsbTime + 0
      BY <1>1, <1>4, ScheduleAssumption DEF Ind, Typed
    <3> QED BY <3>1, <3>2 DEF InTime
  <2> QED BY <1>1, <2>2, <2>3 DEF ChipOK, Waiting
<1>6. Timely' /\ Together'
  BY <1>1, <1>4 DEF Ind, Timely, Together, Waiting
<1> QED BY <1>3, <1>5, <1>6 DEF Ind

LEMMA UsbStep ==
  ASSUME Ind, UsbBegin \/ UsbEnd \/ UsbInterrupt
  PROVE  Ind'
<1>1. UNCHANGED <<counter, txBuffer, csHigh, enabled, ndtr, complete, spiStarted, txFifo,
                  rxFifo, shifted, inputReg, outputReg, clock, update>>
  BY DEF UsbBegin, UsbEnd, UsbInterrupt, memory, pins, dma, spi, converters, timer
<1>2. UsbTime \in Nat /\ UsbTime > 0
  BY ScheduleAssumption
<1>3. \/ cpu = "idle" /\ cpu' = "usb" /\ ~update /\ usbLeft' = UsbTime /\ usbPending' = FALSE
      \/ cpu = "usb" /\ cpu' = "idle" /\ usbLeft' = 0 /\ usbPending' = usbPending
      \/ cpu' = cpu /\ usbLeft' = usbLeft /\ usbPending' = TRUE
  <2>1. CASE UsbBegin
    <3>1. cpu = "idle" /\ ~update
      BY <2>1, TakenFirst DEF UsbBegin, Ind
    <3> QED BY <2>1, <3>1 DEF UsbBegin
  <2>2. CASE UsbEnd
    BY <2>2 DEF UsbEnd
  <2>3. CASE UsbInterrupt
    BY <2>3 DEF UsbInterrupt
  <2> QED BY <2>1, <2>2, <2>3
<1>4. Typed'
  <2>1. usbLeft' \in 0 .. UsbTime
    BY <1>2, <1>3 DEF Ind, Typed
  <2>2. usbPending' \in BOOLEAN
    BY <1>3 DEF Ind, Typed
  <2>3. cpu' \in Waiting \cup {"load", "select", "arm1", "arm2", "start"}
    BY <1>3 DEF Ind, Typed, Waiting
  <2> QED BY <1>1, <2>1, <2>2, <2>3 DEF Ind, Typed
<1>5. ASSUME NEW c \in Chips PROVE ChipOK(c)'
  <2>1. Untouched(c)
    BY <1>1 DEF Untouched
  <2>2. CASE cpu' = cpu
    BY <1>1, <2>1, <2>2, UntouchedStays DEF Ind
  <2>3. CASE cpu \in Waiting /\ cpu' \in Waiting
    <3>1. inputReg'[c] = inputReg[c] /\ txBuffer'[c] = txBuffer[c]
      BY <1>1
    <3> QED BY <1>1, <2>1, <2>3, <3>1, UntouchedStays DEF Ind, ChipOK, Waiting
  <2> QED BY <1>3, <2>2, <2>3 DEF Waiting
<1>6. Timely'
  BY <1>1, <1>2, <1>3 DEF Ind, Typed, Timely, Waiting
<1> QED BY <1>1, <1>4, <1>5, <1>6 DEF Ind, Together

-----------------------------------------------------------------------------
LEMMA StreamStepAt ==
  ASSUME Typed, NEW s \in Streams, StreamStep(s), ndtr[s] > 0
  PROVE  /\ ndtr'[s] = ndtr[s] - 1
         /\ enabled'[s] <=> ndtr'[s] > 0
         /\ complete'[s] <=> complete[s] \/ ndtr'[s] = 0
         /\ \A r \in Streams \ {s} : /\ ndtr'[r] = ndtr[r] /\ enabled'[r] = enabled[r]
                                     /\ complete'[r] = complete[r]
         /\ ndtr' \in [Streams -> 0 .. WordBytes]
         /\ enabled' \in [Streams -> BOOLEAN] /\ complete' \in [Streams -> BOOLEAN]
<1>1. ndtr[s] \in 1 .. 3
  BY DEF Typed, WordBytes
<1>2. /\ ndtr' = [ndtr EXCEPT ![s] = ndtr[s] - 1]
      /\ enabled' = [enabled EXCEPT ![s] = ndtr[s] > 1]
      /\ complete' = [complete EXCEPT ![s] = complete[s] \/ ndtr[s] = 1]
  BY DEF StreamStep
<1>3. ndtr'[s] = ndtr[s] - 1 /\ ndtr' \in [Streams -> 0 .. WordBytes]
  BY <1>1, <1>2 DEF Typed, WordBytes
<1>4. enabled'[s] <=> ndtr'[s] > 0
  <2>1. enabled'[s] = (ndtr[s] > 1)
    BY <1>2 DEF Typed
  <2>2. ndtr[s] > 1 <=> ndtr'[s] > 0
    BY <1>1, <1>3
  <2> QED BY <2>1, <2>2
<1>5. complete'[s] <=> complete[s] \/ ndtr'[s] = 0
  <2>1. complete'[s] = (complete[s] \/ ndtr[s] = 1)
    BY <1>2 DEF Typed
  <2>2. ndtr[s] = 1 <=> ndtr'[s] = 0
    BY <1>1, <1>3
  <2> QED BY <2>1, <2>2
<1>6. enabled' \in [Streams -> BOOLEAN] /\ complete' \in [Streams -> BOOLEAN]
  BY <1>2 DEF Typed
<1>7. \A r \in Streams \ {s} : /\ ndtr'[r] = ndtr[r] /\ enabled'[r] = enabled[r]
                               /\ complete'[r] = complete[r]
  BY <1>2 DEF Typed
<1> QED BY <1>3, <1>4, <1>5, <1>6, <1>7

(* A stream runs only while a word is under way. *)
LEMMA RunningIsSending ==
  ASSUME Ind, NEW c \in Chips, enabled[RxStream(c)] \/ enabled[TxStream(c)]
  PROVE  /\ Sending(c) /\ cpu \in Waiting \cup {"arm2", "start"}
         /\ cpu \in Waiting => InTime(c)
         /\ cpu = "arm2" => c = 1
         /\ cpu \notin Waiting => shifted[c] = <<>>
BY DEF Ind, Typed, ChipOK, Deselected, Selected, Still, Waiting, Chips

(* What a stream does at one chip leaves it as far as it was. *)
LEMMA StreamMoves ==
  ASSUME Ind, NEW c \in Chips, enabled[RxStream(c)] \/ enabled[TxStream(c)],
         Sending(c)', UNCHANGED <<shifted, spiStarted, clock, update, cpu>>,
         rxFifo[c] = 0 => rxFifo'[c] = 0
  PROVE  ChipOK(c)'
<1>1. cpu \in Waiting => InTime(c)'
  BY RunningIsSending DEF InTime
<1> QED BY <1>1, RunningIsSending DEF ChipOK, Waiting

LEMMA FeedStep ==
  ASSUME Ind, NEW c \in Chips, FeedSpi(c)
  PROVE  Ind'
<1> DEFINE s == TxStream(c)
           r == RxStream(c)
<1>1. /\ s \in Streams /\ r \in Streams \ {s} /\ enabled[s] /\ ndtr[s] > 0
      /\ StreamStep(s) /\ txFifo' = [txFifo EXCEPT ![c] = Append(txFifo[c], txBuffer[c])]
      /\ UNCHANGED <<counter, txBuffer, csHigh, spiStarted, rxFifo, shifted, inputReg,
                     outputReg, clock, update, usbPending, usbLeft, cpu>>
  BY StreamsOfChips DEF FeedSpi, CanFeed, memory, pins, converters, timer, usb
<1>2. Sending(c)
  BY <1>1, RunningIsSending
<1>3. Typed'
  <2>1. txFifo' \in [Chips -> Seq(Whole)]
    BY <1>1, AppendProperties DEF Ind, Typed
  <2> QED BY <1>1, <2>1, StreamStepAt DEF Ind, Typed
<1>4. Sending(c)'
  <2>1. /\ txFifo'[c] = Append(txFifo[c], txBuffer[c])
        /\ txFifo'[c] \in Seq({txBuffer'[c]})
        /\ Len(txFifo'[c]) = Len(txFifo[c]) + 1
    BY <1>1, <1>2, AppendProperties DEF Ind, Typed, Sending
  <2> DEFINE n == Len(shifted[c])
             f == Len(txFifo[c])
             g == Len(txFifo'[c])
  <2>2. /\ n \in Nat /\ f \in Nat /\ ndtr[s] \in Nat
        /\ ndtr[s] + f + n = 3 /\ g = f + 1 /\ ndtr'[s] = ndtr[s] - 1
    BY <1>1, <1>2, <2>1, StreamStepAt, LenProperties DEF Ind, Typed, Sending, WordBytes
  <2>3. ndtr'[s] + g + n = 3
    <3> HIDE DEF n, f, g, s
    <3> QED BY <2>2
  <2>4. /\ enabled'[s] <=> ndtr'[s] > 0
        /\ complete'[s] => ndtr'[s] = 0
    BY <1>1, <1>2, StreamStepAt DEF Ind, Sending
  <2>5. ndtr'[r] = ndtr[r] /\ enabled'[r] = enabled[r] /\ complete'[r] = complete[r]
    BY <1>1, StreamStepAt DEF Ind
  <2> QED BY <1>1, <1>2, <2>1, <2>3, <2>4, <2>5 DEF Sending, WordBytes
<1>5. ChipOK(c)'
  BY <1>1, <1>4, StreamMoves
<1>6. ASSUME NEW d \in Chips, d # c PROVE ChipOK(d)'
  <2>1. RxStream(d) \in Streams \ {s} /\ TxStream(d) \in Streams \ {s}
    BY <1>6, StreamsOfChips
  <2>2. txFifo'[d] = txFifo[d]
    BY <1>1, <1>6 DEF Ind, Typed
  <2>3. Untouched(d)
    BY <1>1, <2>1, <2>2, StreamStepAt DEF Ind, Untouched
  <2> QED BY <1>1, <2>3, UntouchedStays DEF Ind
<1> QED BY <1>1, <1>3, <1>5, <1>6 DEF Ind, Timely, Together

LEMMA DrainStep ==
  ASSUME Ind, NEW c \in Chips, DrainSpi(c)
  PROVE  Ind'
<1> DEFINE s == RxStream(c)
           t == TxStream(c)
<1>1. /\ s \in Streams /\ t \in Streams \ {s} /\ enabled[s] /\ ndtr[s] > 0
      /\ StreamStep(s) /\ rxFifo' = [rxFifo EXCEPT ![c] = rxFifo[c] - 1] /\ rxFifo[c] > 0
      /\ UNCHANGED <<counter, txBuffer, csHigh, spiStarted, txFifo, shifted, inputReg,
                     outputReg, clock, update, usbPending, usbLeft, cpu>>
  BY StreamsOfChips DEF DrainSpi, CanDrain, memory, pins, converters, timer, usb
<1>2. Sending(c)
  BY <1>1, RunningIsSending
<1>3. Typed'
  <2>1. rxFifo' \in [Chips -> 0 .. WordBytes]
    BY <1>1 DEF Ind, Typed, WordBytes
  <2> QED BY <1>1, <2>1, StreamStepAt DEF Ind, Typed
<1>4. Sending(c)'
  <2>1. rxFifo'[c] = rxFifo[c] - 1
    BY <1>1 DEF Ind, Typed
  <2> DEFINE n == Len(shifted[c])
  <2>2. /\ n \in Nat /\ rxFifo[c] \in Nat /\ ndtr[s] \in Nat
        /\ ndtr[s] + n = 3 + rxFifo[c] /\ ndtr'[s] = ndtr[s] - 1
    BY <1>1, <1>2, StreamStepAt, LenProperties DEF Ind, Typed, Sending, WordBytes
  <2>3. ndtr'[s] + n = 3 + rxFifo'[c]
    <3> HIDE DEF n, s
    <3> QED BY <2>1, <2>2
  <2>4. /\ enabled'[s] <=> ndtr'[s] > 0
        /\ complete'[s] <=> ndtr'[s] = 0
    BY <1>1, <1>2, StreamStepAt DEF Ind, Sending
  <2>5. ndtr'[t] = ndtr[t] /\ enabled'[t] = enabled[t] /\ complete'[t] = complete[t]
    BY <1>1, StreamStepAt DEF Ind
  <2> QED BY <1>1, <1>2, <2>3, <2>4, <2>5 DEF Sending, WordBytes
<1>5. ChipOK(c)'
  BY <1>1, <1>4, StreamMoves
<1>6. ASSUME NEW d \in Chips, d # c PROVE ChipOK(d)'
  <2>1. RxStream(d) \in Streams \ {s} /\ TxStream(d) \in Streams \ {s}
    BY <1>6, StreamsOfChips
  <2>2. rxFifo'[d] = rxFifo[d]
    BY <1>1, <1>6 DEF Ind, Typed
  <2>3. Untouched(d)
    BY <1>1, <2>1, <2>2, StreamStepAt DEF Ind, Untouched
  <2> QED BY <1>1, <2>3, UntouchedStays DEF Ind
<1> QED BY <1>1, <1>3, <1>5, <1>6 DEF Ind, Timely, Together

-----------------------------------------------------------------------------
(* Where a transfer stands when time passes: all received bytes are fetched. *)
LEMMA SettledWord ==
  ASSUME Ind, NEW c \in Chips, Sending(c), ~CanFeed(c), ~CanDrain(c)
  PROVE  /\ ndtr[TxStream(c)] = 0 /\ rxFifo[c] = 0
         /\ Len(shifted[c]) \in 0 .. 3 /\ Len(txFifo[c]) = 3 - Len(shifted[c])
         /\ ndtr[RxStream(c)] = 3 - Len(shifted[c])
<1> DEFINE n == Len(shifted[c])
           f == Len(txFifo[c])
           s == TxStream(c)
           r == RxStream(c)
<1>1. /\ n \in Nat /\ f \in Nat /\ rxFifo[c] \in Nat
      /\ ndtr[s] \in Nat /\ ndtr[r] \in Nat
  BY StreamsOfChips, LenProperties DEF Ind, Typed, Sending
<1>2. ndtr[s] + f + n = 3 /\ ndtr[r] + n = 3 + rxFifo[c]
  BY DEF Sending, WordBytes
<1>3. ndtr[s] = 0
  BY <1>1 DEF Sending, CanFeed
<1>4. ndtr[r] = 0 \/ rxFifo[c] = 0
  BY <1>1 DEF Sending, CanDrain
<1>5. /\ n \in 0 .. 3 /\ f = 3 - n /\ rxFifo[c] = 0 /\ ndtr[r] = 3 - n
  <2> HIDE DEF n, f, s, r
  <2> QED BY <1>1, <1>2, <1>3, <1>4
<1> QED BY <1>3, <1>5

(* Time passes over a finished transfer, and moves a byte of one under way. *)
LEMMA ElapseAtChip ==
  ASSUME Ind, Elapse, NEW c \in Chips
  PROVE  /\ ChipOK(c)'
         /\ txFifo'[c] \in Seq(Whole) /\ shifted'[c] \in Seq(Whole)
         /\ rxFifo'[c] \in 0 .. WordBytes
<1>1. /\ cpu \in Waiting /\ ~CanFeed(c) /\ ~CanDrain(c)
      /\ txFifo'[c] = IF c \in Shifting THEN Tail(txFifo[c]) ELSE txFifo[c]
      /\ rxFifo'[c] = IF c \in Shifting THEN rxFifo[c] + 1 ELSE rxFifo[c]
      /\ shifted'[c] = IF c \in Shifting /\ ~csHigh[c]
                         THEN Append(shifted[c], Head(txFifo[c])) ELSE shifted[c]
      /\ UNCHANGED <<counter, txBuffer, csHigh, enabled, ndtr, complete, spiStarted,
                     inputReg, outputReg, usbPending, cpu>>
  BY DEF Elapse, memory, pins, dma, Waiting
<1>2. /\ clock \in Nat /\ clock < Period /\ Period \in Nat /\ UsbTime \in Nat
      /\ UsbTime + 3 <= Period
      /\ clock' = (clock + 1) % Period /\ update' = (update \/ clock + 1 = Period)
  BY ScheduleAssumption DEF Ind, Typed, Elapse, WordBytes
<1>3. /\ txFifo[c] \in Seq(Whole) /\ shifted[c] \in Seq(Whole)
      /\ rxFifo[c] \in 0 .. WordBytes /\ txBuffer[c] \in Whole
  BY DEF Ind, Typed
<1>4. CASE Deselected(c) /\ inputReg[c] = txBuffer[c]
  <2>1. c \notin Shifting
    BY <1>4 DEF Shifting, Deselected, Still
  <2>2. Deselected(c)' /\ inputReg'[c] = txBuffer'[c]
    BY <1>1, <1>4, <2>1 DEF Deselected, Still
  <2> QED BY <1>1, <1>3, <2>1, <2>2 DEF ChipOK, Waiting
<1>5. CASE Sending(c) /\ InTime(c)
  <2> DEFINE n == Len(shifted[c])
  <2>1. /\ ndtr[TxStream(c)] = 0 /\ rxFifo[c] = 0 /\ n \in 0 .. 3
        /\ Len(txFifo[c]) = 3 - n /\ ndtr[RxStream(c)] = 3 - n
    BY <1>1, <1>5, SettledWord
  <2>2. /\ txFifo[c] \in Seq({txBuffer[c]}) /\ shifted[c] \in Seq({txBuffer[c]})
        /\ ~csHigh[c] /\ spiStarted[c]
    BY <1>5 DEF Sending, InTime
  <2>3. CASE n = 3
    <3>1. txFifo[c] = <<>> /\ c \notin Shifting
      BY <2>1, <2>2, <2>3, EmptySeq DEF Shifting
    <3>2. /\ txFifo'[c] = txFifo[c] /\ rxFifo'[c] = rxFifo[c] /\ shifted'[c] = shifted[c]
      BY <1>1, <3>1
    <3>3. Sending(c)'
      BY <1>1, <1>5, <3>2 DEF Sending
    <3>4. InTime(c)'
      <4>1. Len(shifted'[c]) = 3 /\ rxFifo'[c] = 0 /\ spiStarted'[c]
        BY <1>1, <2>1, <2>2, <2>3, <3>2
      <4> QED BY <4>1 DEF InTime, WordBytes
    <3> QED BY <1>1, <1>3, <3>2, <3>3, <3>4 DEF ChipOK, Waiting
  <2>4. CASE n < 3
    <3>1. txFifo[c] # <<>> /\ c \in Shifting
      <4>1. Len(txFifo[c]) > 0
        <5> HIDE DEF n
        <5> QED BY <2>1, <2>4
      <4>2. txFifo[c] # <<>>
        BY <4>1, EmptySeq
      <4> QED BY <2>2, <4>2 DEF Shifting
    <3>2. /\ txFifo'[c] = Tail(txFifo[c]) /\ rxFifo'[c] = 1
          /\ shifted'[c] = Append(shifted[c], Head(txFifo[c]))
      BY <1>1, <2>1, <2>2, <3>1
    <3>3. /\ txFifo'[c] \in Seq({txBuffer[c]}) /\ Head(txFifo[c]) = txBuffer[c]
          /\ Len(txFifo'[c]) = Len(txFifo[c]) - 1
      BY <2>2, <3>1, <3>2, HeadTailProperties
    <3>4. shifted'[c] \in Seq({txBuffer[c]}) /\ Len(shifted'[c]) = n + 1
      BY <2>2, <3>2, <3>3, AppendProperties
    <3> DEFINE m == Len(shifted'[c])
               f == Len(txFifo[c])
               g == Len(txFifo'[c])
    <3>5. /\ n \in 0 .. 3 /\ n < 3 /\ f = 3 - n /\ m = n + 1 /\ g = f - 1
          /\ ndtr'[TxStream(c)] = 0 /\ ndtr'[RxStream(c)] = 3 - n
      BY <1>1, <2>1, <2>4, <3>3, <3>4
    <3>6. /\ ndtr'[TxStream(c)] + g + m = 3 /\ ndtr'[RxStream(c)] + m = 3 + 1
      <4> HIDE DEF n, m, f, g
      <4> QED BY <3>5
    <3>7. Sending(c)'
      BY <1>1, <1>5, <3>2, <3>3, <3>4, <3>6 DEF Sending, WordBytes
    <3>8. ~update /\ clock < UsbTime + n
      BY <1>5, <2>4 DEF InTime, WordBytes
    <3>9. ~update' /\ clock' = clock + 1 /\ clock + 1 < UsbTime + m
      <4> HIDE DEF n, m
      <4>1. clock + 1 < Period /\ clock + 1 < UsbTime + m
        BY <1>2, <3>5, <3>8
      <4>2. (clock + 1) % Period = clock + 1
        BY <1>2, <4>1
      <4>3. ~(clock + 1 = Period)
        BY <1>2, <4>1
      <4> QED BY <1>2, <3>8, <4>1, <4>2, <4>3
    <3>10. InTime(c)'
      BY <1>1, <2>2, <3>9 DEF InTime
    <3>11. txFifo'[c] \in Seq(Whole) /\ shifted'[c] \in Seq(Whole)
      BY <1>3, <3>1, <3>2, <3>3, HeadTailProperties, AppendProperties
    <3>12. rxFifo'[c] \in 0 .. WordBytes
      BY <3>2 DEF WordBytes
    <3> QED BY <1>1, <3>7, <3>10, <3>11, <3>12 DEF ChipOK, Waiting
  <2>5. n = 3 \/ n < 3
    <3> HIDE DEF n
    <3> QED BY <2>1
  <2> QED BY <2>3, <2>4, <2>5
<1> QED BY <1>1, <1>4, <1>5 DEF Ind, ChipOK

LEMMA ElapseStep ==
  ASSUME Ind, Elapse
  PROVE  Ind'
<1>1. /\ \/ cpu = "usb" /\ usbLeft > 0
         \/ cpu = "idle" /\ Pending = {}
      /\ usbLeft' = IF cpu = "usb" THEN usbLeft - 1 ELSE usbLeft
      /\ txFifo' = [c \in Chips |-> txFifo'[c]] /\ rxFifo' = [c \in Chips |-> rxFifo'[c]]
      /\ shifted' = [c \in Chips |-> shifted'[c]]
      /\ clock' = (clock + 1) % Period /\ update' = (update \/ clock + 1 = Period)
      /\ UNCHANGED <<counter, txBuffer, csHigh, enabled, ndtr, complete, spiStarted,
                     inputReg, outputReg, usbPending, cpu>>
  BY DEF Elapse, memory, pins, dma
<1>2. /\ clock \in Nat /\ clock < Period /\ Period \in Nat /\ UsbTime \in Nat
      /\ UsbTime + 3 <= Period /\ UsbTime > 0
  BY ScheduleAssumption DEF Ind, Typed, WordBytes
<1>3. clock + 1 < Period => clock' = clock + 1
  BY <1>1, <1>2
<1>4. clock + 1 = Period => clock' = 0
  BY <1>1, <1>2
<1>5. clock' \in 0 .. Period - 1 /\ (clock + 1 < Period \/ clock + 1 = Period)
  BY <1>2, <1>3, <1>4
<1>6. cpu = "idle" => ~update
  BY <1>1 DEF Pending
<1>7. usbLeft' \in 0 .. UsbTime
  BY <1>1, <1>2 DEF Ind, Typed
<1>8. Typed'
  <2>1. update' \in BOOLEAN
    BY <1>1 DEF Ind, Typed
  <2>2. /\ txFifo' \in [Chips -> Seq(Whole)] /\ shifted' \in [Chips -> Seq(Whole)]
        /\ rxFifo' \in [Chips -> 0 .. WordBytes]
    BY <1>1, ElapseAtChip
  <2> QED BY <1>1, <1>5, <1>7, <2>1, <2>2 DEF Ind, Typed
<1>9. Timely'
  <2>1. CASE update
    BY <1>1, <1>2, <1>3, <1>6, <2>1 DEF Ind, Typed, Timely, Waiting
  <2>2. CASE ~update
    BY <1>1, <1>2, <1>4, <2>2 DEF Ind, Typed, Timely, Waiting
  <2> QED BY <2>1, <2>2
<1> QED BY <1>1, <1>8, <1>9, ElapseAtChip DEF Ind, Together

-----------------------------------------------------------------------------
LEMMA Step == Ind /\ [Next]_vars => Ind'
<1> SUFFICES ASSUME Ind, [Next]_vars PROVE Ind'
  OBVIOUS
<1>1. CASE UNCHANGED vars
  <2>1. UNCHANGED <<counter, txBuffer, csHigh, enabled, ndtr, complete, spiStarted, txFifo,
                    rxFifo, shifted, inputReg, outputReg, clock, update, usbPending,
                    usbLeft, cpu>>
    BY <1>1 DEF vars, memory, pins, dma, spi, converters, timer, usb
  <2>2. \A c \in Chips : Untouched(c)
    BY <2>1 DEF Untouched
  <2>3. \A c \in Chips : ChipOK(c)'
    BY <2>1, <2>2, UntouchedStays DEF Ind
  <2> QED BY <2>1, <2>3 DEF Ind, Typed, Timely, Together
<1>2. CASE Handlers
  BY <1>2, DmaHandlerStep, LatchStep, LoadStep, SelectStep, ArmStep, StartStep, UsbStep
  DEF Handlers, Tim1Handler
<1>3. CASE Hardware
  BY <1>3, FeedStep, DrainStep, ElapseStep DEF Hardware
<1>4. CASE UsbInterrupt
  BY <1>4, UsbStep
<1> QED BY <1>1, <1>2, <1>3, <1>4 DEF Next

LEMMA Invariance == SafeSpec => []Ind
BY Initial, Step, PTL DEF SafeSpec

(* A word under way has three bytes in all, so no FIFO overruns. *)
LEMMA FifosFit ==
  ASSUME Ind, NEW c \in Chips
  PROVE  Len(txFifo[c]) =< WordBytes /\ Len(shifted[c]) =< WordBytes
<1>1. CASE Sending(c)
  <2> DEFINE n == Len(shifted[c])
             f == Len(txFifo[c])
             t == ndtr[TxStream(c)]
  <2>1. n \in Nat /\ f \in Nat /\ t \in Nat
    BY <1>1, StreamsOfChips, LenProperties DEF Ind, Typed, Sending
  <2>2. t + f + n = 3
    BY <1>1 DEF Sending, WordBytes
  <2>3. n <= 3 /\ f <= 3
    <3> HIDE DEF n, f, t
    <3> QED BY <2>1, <2>2
  <2> QED BY <2>3 DEF WordBytes
<1>2. CASE ~Sending(c)
  <2>1. Still(c)
    BY <1>2 DEF Ind, Typed, ChipOK, Deselected, Selected, Waiting, Chips
  <2>2. txFifo[c] = <<>> /\ Len(<<>>) = 0
    BY <2>1, EmptySeq DEF Still
  <2> QED BY <2>1, <2>2 DEF Still, WordBytes
<1> QED BY <1>1, <1>2

(***************************************************************************)
(* Every variable keeps to its type; in particular no SPI ever has more    *)
(* than the three bytes of one word waiting or on their way.               *)
(***************************************************************************)
THEOREM TypeCorrect == Spec => []TypeOK
<1>1. Ind => TypeOK
  <2> SUFFICES ASSUME Ind PROVE TypeOK
    OBVIOUS
  <2>1. Whole \subseteq Words
    BY DEF Whole
  <2>2. ASSUME NEW c \in Chips
        PROVE  /\ \A i \in DOMAIN txFifo[c] : txFifo[c][i] \in Words
               /\ \A i \in DOMAIN shifted[c] : shifted[c][i] \in Words
    BY <2>1, ElementOfSeq, LenProperties DEF Ind, Typed
  <2> QED BY <2>1, <2>2, FifosFit DEF Ind, Typed, TypeOK, Whole, Waiting
<1> QED BY <1>1, Invariance, PTL DEF Spec

(***************************************************************************)
(* Neither converter is ever left with a word that is short, long or mixed *)
(* from two ticks, however long the USB handler holds up the interrupt     *)
(* that raises its chip select.                                            *)
(***************************************************************************)
THEOREM WordsWhole == Spec => []NoTornWord
<1>1. Ind => NoTornWord
  BY DEF Ind, Typed, NoTornWord, Whole
<1> QED BY <1>1, Invariance, PTL DEF Spec

(***************************************************************************)
(* Left and right always come from the same tick.                          *)
(***************************************************************************)
THEOREM BothChannels == Spec => []ChannelsTogether
<1>1. Ind => ChannelsTogether
  BY DEF Ind, Together, ChannelsTogether
<1> QED BY <1>1, Invariance, PTL DEF Spec

(***************************************************************************)
(* timer1 finds the streams stopped and their flags clear when it arms     *)
(* them without looking.                                                   *)
(***************************************************************************)
THEOREM ArmedWhenFree == Spec => []StreamsReadyToArm
<1>1. Ind => StreamsReadyToArm
  <2> SUFFICES ASSUME Ind PROVE StreamsReadyToArm
    OBVIOUS
  <2>1. cpu = "arm1" => Selected(1)
    BY DEF Ind, ChipOK, Chips
  <2>2. cpu \in {"arm1", "arm2"} => Selected(2)
    BY DEF Ind, ChipOK, Chips
  <2> QED BY <2>1, <2>2, StreamsOfChips DEF StreamsReadyToArm, Selected, Still
<1> QED BY <1>1, Invariance, PTL DEF Spec

(***************************************************************************)
(* The LDAC pulse puts out the words that the tick before loaded.          *)
(***************************************************************************)
THEOREM PreviousWord == Spec => LatchesPreviousWord
<1>1. Ind /\ [Next]_vars => [Tim1Latch => outputReg' = txBuffer]_vars
  <2> SUFFICES ASSUME Ind, Tim1Latch PROVE outputReg' = txBuffer
    OBVIOUS
  <2> QED BY LatchReady DEF Tim1Latch
<1> QED BY <1>1, Invariance, PTL DEF Spec, SafeSpec, LatchesPreviousWord

(***************************************************************************)
(* No update of the timer comes while the one before is still waiting.     *)
(***************************************************************************)
THEOREM UpdateServed == Spec => NoUpdateLost
<1>1. Ind /\ [Next]_vars => [Elapse /\ clock + 1 = Period => ~update]_vars
  <2> SUFFICES ASSUME Ind, Elapse, clock + 1 = Period, update PROVE FALSE
    OBVIOUS
  <2>1. cpu = "usb" /\ usbLeft > 0
    BY DEF Elapse, Pending
  <2>2. clock + usbLeft < UsbTime
    BY <2>1 DEF Ind, Timely
  <2> QED BY <2>1, <2>2, ScheduleAssumption DEF Ind, Typed, WordBytes
<1> QED BY <1>1, Invariance, PTL DEF Spec, SafeSpec, NoUpdateLost

=============================================================================
