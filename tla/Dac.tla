-------------------------------- MODULE Dac ---------------------------------
(***************************************************************************)
(* Class Dac as a whole: the sample ring (DacRing) and the output path     *)
(* (DacOutput) driven by the same two interrupt handlers.                  *)
(*                                                                         *)
(* TIM1_UP_IRQHandler runs Dac::timer1, which passes one slot of the ring  *)
(* and sends one pair of words; OTG_FS_IRQHandler runs, when an audio      *)
(* packet has arrived, AUDIO_PeriodicTC_FS, which hands it to              *)
(* Dac::addData.  Neither module assumes anything of the other, but the    *)
(* ring relies on ticks that never cease, and here nothing but the         *)
(* processor and the hardware running on provides them.                    *)
(***************************************************************************)
EXTENDS Integers, Sequences

CONSTANTS N, Samples, Silence, Packets, MaxOverflow,   \* see DacRing
          Period, UsbTime, CounterModulus              \* see DacOutput

VARIABLES inputIndex, outputIndex, channelA, channelB, counterOverflow,
          lastBufferLevel, fresh

VARIABLES counter, txBuffer, csHigh, enabled, ndtr, complete, spiStarted,
          txFifo, rxFifo, shifted, inputReg, outputReg, clock, update,
          usbPending, usbLeft, cpu

Ring == INSTANCE DacRing
Out == INSTANCE DacOutput

ringVars == <<inputIndex, outputIndex, channelA, channelB, counterOverflow,
              lastBufferLevel, fresh>>

outVars == <<counter, txBuffer, csHigh, enabled, ndtr, complete, spiStarted,
             txFifo, rxFifo, shifted, inputReg, outputReg, clock, update,
             usbPending, usbLeft, cpu>>

vars == <<ringVars, outVars>>

Init == Ring!Init /\ Out!Init

(* mutant: the commented-out test of lines 269-274, leaving on an empty ring *)
Tick_LeavesWhenEmpty ==
  \/ Ring!bufferLevel > 0 /\ Out!LoadWords /\ Ring!AdvanceOutput
  \/ Ring!bufferLevel = 0 /\ cpu = "load" /\ cpu' = "idle"
     /\ UNCHANGED <<ringVars, counter, txBuffer, csHigh, enabled, ndtr, complete,
                    spiStarted, txFifo, rxFifo, shifted, inputReg, outputReg, clock,
                    update, usbPending, usbLeft>>

(* timer1 passes a slot of the ring while it loads the words (dac.cpp 293-313). *)
Tick == Out!LoadWords /\ Ring!AdvanceOutput

(* The handler had an audio packet: DataOut -> PeriodicTC -> addData. *)
ReceivePacket(packet) == Out!UsbEnd /\ Ring!AddData(packet)

(* It served something else: a reset, a setup packet, a start of frame. *)
OtherUsbWork == Out!UsbEnd /\ UNCHANGED ringVars

(* The rest of TIM1_UP_IRQHandler and the DMA handlers leave the ring alone. *)
RestOfHandlers ==
  /\ \/ \E s \in Out!Streams : Out!DmaHandler(s)
     \/ Out!Tim1Latch \/ Out!SelectChips \/ Out!ArmStreams \/ Out!StartSpi
     \/ Out!UsbBegin
  /\ UNCHANGED ringVars

Handlers ==
  \/ Tick
  \/ \E packet \in Packets : ReceivePacket(packet)
  \/ OtherUsbWork
  \/ RestOfHandlers

Hardware == Out!Hardware /\ UNCHANGED ringVars

UsbInterrupt == Out!UsbInterrupt /\ UNCHANGED ringVars

Next == Handlers \/ Hardware \/ UsbInterrupt

Spec == Init /\ [][Next]_vars /\ WF_vars(Handlers) /\ WF_vars(Hardware)

-----------------------------------------------------------------------------
TypeOK == Ring!TypeOK /\ Out!TypeOK

(***************************************************************************)
(* The whole implements the ring with its fairness: ticks never cease,     *)
(* however often the USB handler interrupts, so every accepted frame is    *)
(* passed.                                                                 *)
(***************************************************************************)
ImplementsRing == Ring!Spec

(***************************************************************************)
(* The whole implements the output path with its fairness: receiving       *)
(* packets does not disturb it.                                            *)
(***************************************************************************)
ImplementsOutput == Out!Spec

=============================================================================
