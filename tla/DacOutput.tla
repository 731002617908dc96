----------------------------- MODULE DacOutput ------------------------------
(***************************************************************************)
(* How a word reaches the two converters.                                  *)
(*                                                                         *)
(* Every TIM1 update interrupt pulses LDAC, which makes both converters    *)
(* output the word they hold, loads the next pair of words into the two    *)
(* transmit buffers, pulls both chip selects low and starts one DMA        *)
(* transfer of three bytes on each SPI (dac.cpp timer1, stm32h7xx_it.c     *)
(* TIM1_UP_IRQHandler).  The receive stream of each SPI counts the bytes   *)
(* clocked out, and its transfer-complete interrupt raises the chip select *)
(* again.  Nobody waits for anybody: that the word is complete when LDAC   *)
(* comes rests on the order in which the interrupts are served and on the  *)
(* time the USB handler may take.                                          *)
(*                                                                         *)
(* All interrupts have priority 0 (main.c 494, 551-561; usbd_conf.c 118):  *)
(* none preempts another, and among the pending ones the lowest interrupt  *)
(* number goes first.  Handlers other than the USB one take no time here;  *)
(* the unit of time is one byte on the SPI.                                *)
(*                                                                         *)
(* A word is represented by the tick that loaded it (counter_), because    *)
(* which tick's word goes where is all the properties ask.                 *)
(***************************************************************************)
EXTENDS Integers, Sequences, FiniteSetsExt

CONSTANTS
  Period,          (* byte times between two TIM1 updates                  *)
  UsbTime,         (* byte times the longest OTG_FS handler takes          *)
  CounterModulus   (* 16777216, where counter_ starts over                 *)

(***************************************************************************)
(* A word takes WordBytes byte times on the SPI.  It must fit in what the  *)
(* longest USB handler leaves of a period: TIM1 updates come every 4000    *)
(* cycles of PLL1's VCO and a word takes 384 (main.c 205-207, 342,         *)
(* 500-502), which leaves 90% of the period to the USB handler.            *)
(***************************************************************************)
WordBytes == 3

ASSUME ScheduleAssumption ==
  /\ Period \in Nat
  /\ UsbTime \in Nat \ {0}
  /\ UsbTime + WordBytes =< Period
  /\ CounterModulus \in Nat \ {0, 1}

Chips == {1, 2}

(* DMA1 streams 0 and 1 receive and transmit on SPI1, 2 and 3 on SPI2. *)
RxStream(c) == 2 * (c - 1)
TxStream(c) == 2 * (c - 1) + 1
Streams == 0 .. 3
ChipOf(s) == s \div 2 + 1

(* Interrupt numbers (stm32h743xx.h 72-75, 86, 156). *)
DmaIrq(s) == 11 + s
Tim1Irq == 25
OtgIrq == 101

Ticks == 0 .. CounterModulus - 1
PowerOn == -1     (* what buffers and converters hold before the first tick *)
Torn == -2        (* a word of the wrong length or with bytes of two ticks  *)
Words == Ticks \cup {PowerOn, Torn}

VARIABLES
  counter,        (* counter_                                               *)
  txBuffer,       (* dac1_dma_buffer_tx, dac2_dma_buffer_tx                 *)
  csHigh,         (* level of CS1, CS2                                      *)
  enabled,        (* EN bit of each DMA stream                              *)
  ndtr,           (* bytes each DMA stream has left                         *)
  complete,       (* transfer-complete flag of each DMA stream              *)
  spiStarted,     (* CSTART of each SPI                                     *)
  txFifo, rxFifo, (* bytes waiting in each SPI, out and in                  *)
  shifted,        (* bytes clocked into each converter since CS went low    *)
  inputReg,       (* word each converter holds                              *)
  outputReg,      (* word each converter puts out                           *)
  clock,          (* TIM1: byte times since its last update                 *)
  update,         (* TIM1 update flag                                       *)
  usbPending,     (* OTG_FS interrupt pending                               *)
  usbLeft,        (* byte times the running OTG_FS handler may still take   *)
  cpu             (* what the processor executes                            *)

memory == <<counter, txBuffer>>
pins == <<csHigh>>
dma == <<enabled, ndtr, complete>>
spi == <<spiStarted, txFifo, rxFifo>>
converters == <<shifted, inputReg, outputReg>>
timer == <<clock, update>>
usb == <<usbPending, usbLeft>>

vars == <<memory, pins, dma, spi, converters, timer, usb, cpu>>

-----------------------------------------------------------------------------
(***************************************************************************)
(* Interrupt controller: with everything at priority 0 the processor takes *)
(* the pending interrupt with the lowest number, once it is idle.          *)
(***************************************************************************)
Pending ==
  {DmaIrq(s) : s \in {r \in Streams : complete[r]}}
  \cup (IF update THEN {Tim1Irq} ELSE {})
  \cup (IF usbPending THEN {OtgIrq} ELSE {})

(* mutants: another interrupt number order *)
Takes_HighestFirst(irq) ==
  /\ cpu = "idle"
  /\ irq \in Pending
  /\ irq = Max(Pending)

Takes_Tim1First(irq) ==
  /\ cpu = "idle"
  /\ irq \in Pending
  /\ irq = IF Tim1Irq \in Pending THEN Tim1Irq ELSE Min(Pending)

Takes_UsbFirst(irq) ==
  /\ cpu = "idle"
  /\ irq \in Pending
  /\ irq = IF OtgIrq \in Pending THEN OtgIrq ELSE Min(Pending)

Takes(irq) ==
  /\ cpu = "idle"
  /\ irq \in Pending
  /\ irq = Min(Pending)

(***************************************************************************)
(* Converter (external): the rising edge of its chip select ends a word.   *)
(***************************************************************************)
WordIn(bytes) ==
  IF Len(bytes) = WordBytes /\ \A i \in DOMAIN bytes : bytes[i] = bytes[1]
    THEN bytes[1]
    ELSE Torn

RaiseCS(c) ==
  /\ csHigh' = [csHigh EXCEPT ![c] = TRUE]
  /\ inputReg' = IF csHigh[c] THEN inputReg
                              ELSE [inputReg EXCEPT ![c] = WordIn(shifted[c])]
  /\ UNCHANGED <<shifted, outputReg>>

(***************************************************************************)
(* DMA1_Stream0_IRQHandler .. DMA1_Stream3_IRQHandler: stop the stream,    *)
(* clear its flag; the receive streams also release the chip select.       *)
(***************************************************************************)
(* mutant: the chip select is released when the last byte has been handed over *)
DmaHandler_ReleasesOnTx(s) ==
  /\ Takes(DmaIrq(s))
  /\ enabled' = [enabled EXCEPT ![s] = FALSE]
  /\ complete' = [complete EXCEPT ![s] = FALSE]
  /\ IF s = TxStream(ChipOf(s)) THEN RaiseCS(ChipOf(s))
                                ELSE UNCHANGED <<pins, converters>>
  /\ UNCHANGED <<ndtr, memory, spi, timer, usb, cpu>>

(* mutant: stream 2's handler is a copy of stream 0's and raises CS1 *)
DmaHandler_RaisesCS1(s) ==
  /\ Takes(DmaIrq(s))
  /\ enabled' = [enabled EXCEPT ![s] = FALSE]
  /\ complete' = [complete EXCEPT ![s] = FALSE]
  /\ IF s = RxStream(ChipOf(s)) THEN RaiseCS(1)
                                ELSE UNCHANGED <<pins, converters>>
  /\ UNCHANGED <<ndtr, memory, spi, timer, usb, cpu>>

DmaHandler(s) ==
  /\ Takes(DmaIrq(s))
  /\ enabled' = [enabled EXCEPT ![s] = FALSE]
  /\ complete' = [complete EXCEPT ![s] = FALSE]
  /\ IF s = RxStream(ChipOf(s)) THEN RaiseCS(ChipOf(s))
                                ELSE UNCHANGED <<pins, converters>>
  /\ UNCHANGED <<ndtr, memory, spi, timer, usb, cpu>>

(***************************************************************************)
(* TIM1_UP_IRQHandler, in the order of its statements.  The LDAC pulse     *)
(* comes first and puts out what the previous tick sent.                   *)
(***************************************************************************)
Tim1Latch ==
  /\ Takes(Tim1Irq)
  /\ outputReg' = inputReg
  /\ update' = FALSE
  /\ cpu' = "load"
  /\ UNCHANGED <<memory, pins, dma, spi, shifted, inputReg, clock, usb>>

(* mutant: lines 311-313 fill the first buffer again *)
LoadWords_FirstTwice ==
  /\ cpu = "load"
  /\ txBuffer' = [txBuffer EXCEPT ![1] = counter]
  /\ cpu' = "select"
  /\ UNCHANGED <<counter, pins, dma, spi, converters, timer, usb>>

LoadWords ==
  /\ cpu = "load"
  /\ txBuffer' = [c \in Chips |-> counter]
  /\ cpu' = "select"
  /\ UNCHANGED <<counter, pins, dma, spi, converters, timer, usb>>

SelectChips ==
  /\ cpu = "select"
  /\ csHigh' = [c \in Chips |-> FALSE]
  /\ shifted' = [c \in Chips |-> IF csHigh[c] THEN <<>> ELSE shifted[c]]
  /\ cpu' = "arm1"
  /\ UNCHANGED <<memory, dma, spi, inputReg, outputReg, timer, usb>>

(***************************************************************************)
(* NDTR = 3 and EN = 1 for both streams of one SPI.  The hardware          *)
(* (external) ignores a new NDTR while the stream is enabled, and does not *)
(* start a stream whose flags are still set.                               *)
(***************************************************************************)
Arm(c) ==
  LET mine == {RxStream(c), TxStream(c)}
  IN  /\ ndtr' = [s \in Streams |-> IF s \in mine /\ ~enabled[s] THEN WordBytes
                                                                 ELSE ndtr[s]]
      /\ enabled' = [s \in Streams |-> enabled[s] \/ (s \in mine /\ ~complete[s])]
      /\ UNCHANGED <<complete, memory, pins, spi, converters, timer, usb>>

ArmStreams ==
  \/ cpu = "arm1" /\ Arm(1) /\ cpu' = "arm2"
  \/ cpu = "arm2" /\ Arm(2) /\ cpu' = "start"

StartSpi ==
  /\ cpu = "start"
  /\ spiStarted' = [c \in Chips |-> TRUE]
  /\ counter' = IF counter + 1 >= CounterModulus THEN 0 ELSE counter + 1
  /\ cpu' = "idle"
  /\ UNCHANGED <<txBuffer, pins, dma, txFifo, rxFifo, converters, timer, usb>>

Tim1Handler == Tim1Latch \/ LoadWords \/ SelectChips \/ ArmStreams \/ StartSpi

(***************************************************************************)
(* OTG_FS_IRQHandler: takes from one byte time up to UsbTime and touches   *)
(* none of the above.                                                      *)
(***************************************************************************)
UsbBegin ==
  /\ Takes(OtgIrq)
  /\ usbPending' = FALSE
  /\ usbLeft' = UsbTime
  /\ cpu' = "usb"
  /\ UNCHANGED <<memory, pins, dma, spi, converters, timer>>

UsbEnd ==
  /\ cpu = "usb"
  /\ usbLeft < UsbTime
  /\ usbLeft' = 0
  /\ cpu' = "idle"
  /\ UNCHANGED <<usbPending, memory, pins, dma, spi, converters, timer>>

(* The host sends whenever it likes. *)
UsbInterrupt ==
  /\ ~usbPending
  /\ usbPending' = TRUE
  /\ UNCHANGED <<usbLeft, memory, pins, dma, spi, converters, timer, cpu>>

-----------------------------------------------------------------------------
(***************************************************************************)
(* Hardware that moves on its own (external).                              *)
(***************************************************************************)
StreamStep(s) ==
  /\ ndtr' = [ndtr EXCEPT ![s] = @ - 1]
  /\ enabled' = [enabled EXCEPT ![s] = ndtr[s] > 1]
  /\ complete' = [complete EXCEPT ![s] = @ \/ ndtr[s] = 1]

CanFeed(c) == enabled[TxStream(c)] /\ ndtr[TxStream(c)] > 0
CanDrain(c) == enabled[RxStream(c)] /\ ndtr[RxStream(c)] > 0 /\ rxFifo[c] > 0

(* The transmit stream moves a byte from the buffer into the SPI. *)
FeedSpi(c) ==
  /\ CanFeed(c)
  /\ txFifo' = [txFifo EXCEPT ![c] = Append(@, txBuffer[c])]
  /\ StreamStep(TxStream(c))
  /\ UNCHANGED <<memory, pins, spiStarted, rxFifo, converters, timer, usb, cpu>>

(* The receive stream takes a byte out of the SPI. *)
DrainSpi(c) ==
  /\ CanDrain(c)
  /\ rxFifo' = [rxFifo EXCEPT ![c] = @ - 1]
  /\ StreamStep(RxStream(c))
  /\ UNCHANGED <<memory, pins, spiStarted, txFifo, converters, timer, usb, cpu>>

Shifting == {c \in Chips : spiStarted[c] /\ txFifo[c] # <<>>}

(***************************************************************************)
(* One byte time passes: each SPI that has a byte clocks it out, and TIM1  *)
(* advances.  Time stands still while a DMA request or an interrupt that   *)
(* the processor is free to take is waiting, and during the handlers that  *)
(* are taken to be instantaneous.                                          *)
(***************************************************************************)
Elapse ==
  /\ \A c \in Chips : ~CanFeed(c) /\ ~CanDrain(c)
  /\ \/ cpu = "usb" /\ usbLeft > 0
     \/ cpu = "idle" /\ Pending = {}
  /\ usbLeft' = IF cpu = "usb" THEN usbLeft - 1 ELSE usbLeft
  /\ txFifo' = [c \in Chips |-> IF c \in Shifting THEN Tail(txFifo[c]) ELSE txFifo[c]]
  /\ rxFifo' = [c \in Chips |-> IF c \in Shifting THEN rxFifo[c] + 1 ELSE rxFifo[c]]
  /\ shifted' = [c \in Chips |->
                   IF c \in Shifting /\ ~csHigh[c]
                     THEN Append(shifted[c], Head(txFifo[c])) ELSE shifted[c]]
  /\ clock' = (clock + 1) % Period
  /\ update' = (update \/ clock + 1 = Period)
  /\ UNCHANGED <<memory, pins, dma, spiStarted, inputReg, outputReg, usbPending, cpu>>

-----------------------------------------------------------------------------
Init ==
  /\ counter = 0
  /\ txBuffer = [c \in Chips |-> PowerOn]
  /\ csHigh = [c \in Chips |-> TRUE]
  /\ enabled = [s \in Streams |-> FALSE]
  /\ ndtr = [s \in Streams |-> WordBytes]
  /\ complete = [s \in Streams |-> FALSE]
  /\ spiStarted = [c \in Chips |-> FALSE]
  /\ txFifo = [c \in Chips |-> <<>>]
  /\ rxFifo = [c \in Chips |-> 0]
  /\ shifted = [c \in Chips |-> <<>>]
  /\ inputReg = [c \in Chips |-> PowerOn]
  /\ outputReg = [c \in Chips |-> PowerOn]
  /\ clock = 0
  /\ update = FALSE
  /\ usbPending = FALSE
  /\ usbLeft = 0
  /\ cpu = "idle"

Handlers == (\E s \in Streams : DmaHandler(s)) \/ Tim1Handler \/ UsbBegin \/ UsbEnd

Hardware == (\E c \in Chips : FeedSpi(c) \/ DrainSpi(c)) \/ Elapse

Next == Handlers \/ Hardware \/ UsbInterrupt

SafeSpec == Init /\ [][Next]_vars

(* The processor and the peripherals keep running; the host need not. *)
Spec == SafeSpec /\ WF_vars(Handlers) /\ WF_vars(Hardware)

-----------------------------------------------------------------------------
TypeOK ==
  /\ counter \in Ticks
  /\ txBuffer \in [Chips -> Words \ {Torn}]
  /\ csHigh \in [Chips -> BOOLEAN]
  /\ enabled \in [Streams -> BOOLEAN]
  /\ ndtr \in [Streams -> 0 .. WordBytes]
  /\ complete \in [Streams -> BOOLEAN]
  /\ spiStarted \in [Chips -> BOOLEAN]
  /\ \A c \in Chips :
       /\ Len(txFifo[c]) =< WordBytes /\ \A i \in DOMAIN txFifo[c] : txFifo[c][i] \in Words
       /\ rxFifo[c] \in 0 .. WordBytes
       /\ Len(shifted[c]) =< WordBytes /\ \A i \in DOMAIN shifted[c] : shifted[c][i] \in Words
  /\ inputReg \in [Chips -> Words]
  /\ outputReg \in [Chips -> Words]
  /\ clock \in 0 .. Period - 1
  /\ update \in BOOLEAN
  /\ usbPending \in BOOLEAN
  /\ usbLeft \in 0 .. UsbTime
  /\ cpu \in {"idle", "load", "select", "arm1", "arm2", "start", "usb"}

(***************************************************************************)
(* No converter ever ends a word short, long or mixed from two ticks,      *)
(* although the chip select is raised by an interrupt that may be served   *)
(* late and lowered by one that does not look.                             *)
(***************************************************************************)
NoTornWord == \A c \in Chips : inputReg[c] # Torn

(***************************************************************************)
(* Left and right always come from the same tick.                          *)
(***************************************************************************)
ChannelsTogether == outputReg[1] = outputReg[2]

(***************************************************************************)
(* The LDAC pulse at the start of a tick puts out, on both converters, the *)
(* word the tick before loaded: none is skipped, repeated or still on its  *)
(* way.                                                                    *)
(***************************************************************************)
LatchesPreviousWord == [][Tim1Latch => outputReg' = txBuffer]_vars

(***************************************************************************)
(* timer1 re-arms the streams without asking whether they are still busy;  *)
(* when it does they have stopped and their flags are clear, so the NDTR   *)
(* and EN it writes take effect.                                           *)
(***************************************************************************)
StreamsReadyToArm ==
  /\ cpu = "arm1" => \A s \in {0, 1} : ~enabled[s] /\ ~complete[s]
  /\ cpu = "arm2" => \A s \in {2, 3} : ~enabled[s] /\ ~complete[s]

(***************************************************************************)
(* No timer update comes while the one before is still waiting to be       *)
(* served: the update flag holds only one.                                 *)
(***************************************************************************)
NoUpdateLost == [][Elapse /\ clock + 1 = Period => ~update]_vars

(***************************************************************************)
(* Every word loaded is put out on both converters in the end.             *)
(***************************************************************************)
EveryWordPutOut ==
  \A t \in Ticks :
    (cpu = "select" /\ txBuffer[1] = t) ~> (\A c \in Chips : outputReg[c] = t)

=============================================================================
