------------------------------ MODULE UsbAudio ------------------------------
(***************************************************************************)
(* The USB audio device from the bus to PeriodicTC: the device state of    *)
(* the USB core (usbd_core.c, usbd_ctlreq.c), the audio class with its     *)
(* receive buffer (usbd_audio.c), and the isochronous OUT endpoint as the  *)
(* HAL arms and aborts it (stm32h7xx_hal_pcd.c, stm32h7xx_ll_usb.c).       *)
(*                                                                         *)
(* Everything runs in OTG_FS_IRQHandler, so a step is one interrupt.  The  *)
(* host may reset, suspend, resume, configure and unplug at any time.  The *)
(* endpoint is armed for one packet at a time and only for frames of one   *)
(* parity; a packet it is not armed for is lost without a trace.  The host *)
(* sends packets of any size the endpoint takes.                           *)
(***************************************************************************)
EXTENDS Integers

CONSTANTS
  PacketSize,    (* AUDIO_OUT_PACKET                                       *)
  PacketNum,     (* AUDIO_OUT_PACKET_NUM                                   *)
  Sizes          (* sizes of the packets the host sends                    *)

(***************************************************************************)
(* The endpoint is armed for one packet of at most PacketSize bytes, and   *)
(* the core takes no longer one.                                           *)
(***************************************************************************)
ASSUME UsbAudioAssumption ==
  /\ PacketSize \in Nat \ {0}
  /\ PacketNum \in Nat \ {0}
  /\ Sizes \subseteq 0 .. PacketSize

TotalSize == PacketNum * PacketSize

VARIABLES
  devState, oldState,   (* dev_state, dev_old_state                        *)
  devConfig,            (* dev_config                                      *)
  asleep,               (* the bus is suspended                            *)
  class,                (* pClassDataCmsit is not NULL                     *)
  altSetting,           (* alt_setting                                     *)
  wrPtr,                (* wr_ptr                                          *)
  started,              (* offset left AUDIO_OFFSET_UNKNOWN: START was sent*)
  rdEnable,             (* rd_enable                                       *)
  ep,                   (* the endpoint: closed, open, or armed (EPENA)    *)
  target,               (* where in buffer the armed endpoint will write   *)
  parity,               (* parity of the frames it is armed for            *)
  frame,                (* parity of the current frame                     *)
  slot,                 (* this frame's audio packet so far                *)
  streaming,            (* history: the last frame's packet was received   *)
  lapWhole,             (* history: the packets since wr_ptr was last 0    *)
                        (* were whole ones or empty                        *)
  spilt                 (* history: a packet was stored past the buffer    *)

state == <<devState, oldState, devConfig, asleep>>
audio == <<class, altSetting, wrPtr, started, rdEnable, lapWhole>>
endpoint == <<ep, target, parity>>
frames == <<frame, slot, streaming>>

vars == <<state, audio, endpoint, frames, spilt>>

-----------------------------------------------------------------------------
(* USBD_LL_PrepareReceive: armed for the frame after this one. *)
NextParity_ThisFrame == frame                        \* mutant: the parities swapped
NextParity == 1 - frame

Arm(offset) ==
  /\ ep' = "armed"
  /\ target' = offset
  /\ parity' = NextParity

(* USBD_AUDIO_Init.  The handle is static memory: nothing else is cleared. *)
ClassInit ==
  /\ class' = TRUE
  /\ altSetting' = 0
  /\ wrPtr' = 0
  /\ started' = FALSE
  /\ rdEnable' = FALSE
  /\ lapWhole' = TRUE
  /\ Arm(0)
  /\ streaming' = FALSE

(* USBD_AUDIO_DeInit, harmless when there is nothing to take down. *)
ClassDeInit ==
  /\ class' = FALSE
  /\ ep' = "closed"
  /\ streaming' = FALSE
  /\ UNCHANGED <<altSetting, wrPtr, started, rdEnable, lapWhole, target, parity>>

(* Whatever interrupts the frames, they go on with any number. *)
NewFrame == frame' \in {0, 1} /\ slot' = "none"

-----------------------------------------------------------------------------
(* USB reset and enumeration done: USBD_LL_Reset. *)
Reset ==
  /\ devState' = "default"
  /\ devConfig' = 0
  /\ asleep' = FALSE
  /\ ClassDeInit
  /\ NewFrame
  /\ UNCHANGED oldState

(* USBD_LL_Suspend, after 3 ms without a frame. *)
Suspend ==
  /\ ~asleep
  /\ asleep' = TRUE
  /\ oldState' = devState
  /\ devState' = "suspended"
  /\ streaming' = FALSE
  /\ UNCHANGED <<devConfig, audio, endpoint, frame, slot>>

(* USBD_LL_Resume *)
Resume ==
  /\ asleep
  /\ asleep' = FALSE
  /\ devState' = IF devState = "suspended" THEN oldState ELSE devState
  /\ NewFrame
  /\ UNCHANGED <<oldState, devConfig, audio, endpoint, streaming>>

(* mutant: the class is left as it is when the cable is pulled *)
Disconnect_KeepsClass ==
  /\ devState' = "default"
  /\ asleep' = FALSE
  /\ NewFrame
  /\ UNCHANGED <<oldState, devConfig, audio, endpoint, streaming>>

(* USBD_LL_DevDisconnected: dev_config is kept until the next reset. *)
Disconnect ==
  /\ devState' = "default"
  /\ asleep' = FALSE
  /\ ClassDeInit
  /\ NewFrame
  /\ UNCHANGED <<oldState, devConfig>>

(***************************************************************************)
(* Requests on endpoint 0, which the host sends on a bus that is awake.    *)
(***************************************************************************)
(* USBD_SetAddress: refused with a stall once configured. *)
SetAddress(address) ==
  /\ ~asleep
  /\ devState # "configured"
  /\ devState' = IF address = 0 THEN "default" ELSE "addressed"
  /\ UNCHANGED <<oldState, devConfig, asleep, audio, endpoint, frames>>

(* USBD_SetConfig, by device state.  There is one configuration, number 1. *)
Configure ==
  /\ ~asleep
  /\ devState = "addressed"
  /\ devState' = "configured"
  /\ devConfig' = 1
  /\ ClassInit
  /\ UNCHANGED <<oldState, asleep, frame, slot>>

Deconfigure ==
  /\ ~asleep
  /\ devState = "configured"
  /\ devState' = "addressed"
  /\ devConfig' = 0
  /\ ClassDeInit
  /\ UNCHANGED <<oldState, asleep, frame, slot>>

ConfigureTooEarly ==
  /\ ~asleep
  /\ devState = "default"
  /\ ClassDeInit
  /\ UNCHANGED <<state, frame, slot>>

(* SET_INTERFACE only remembers the setting: the endpoint stays as it is. *)
SetInterface(alt) ==
  /\ ~asleep
  /\ class
  /\ devState = "configured"
  /\ altSetting' = alt
  /\ UNCHANGED <<state, class, wrPtr, started, rdEnable, lapWhole, endpoint, frames>>

-----------------------------------------------------------------------------
(***************************************************************************)
(* USBD_AUDIO_DataOut: PeriodicTC gets the bytes at wr_ptr, the pointer    *)
(* moves on and rolls back, and the endpoint is armed for the next packet. *)
(***************************************************************************)
(* mutants: the pointer rolls back one packet late, or not at all *)
Advanced_RollsBackLate(size) ==
  IF wrPtr + size > TotalSize THEN 0 ELSE wrPtr + size
Advanced_NeverRollsBack(size) == wrPtr + size

Advanced(size) == IF wrPtr + size = TotalSize THEN 0 ELSE wrPtr + size

(* mutant: the endpoint is armed before the pointer has moved *)
DataOut_ArmsFirst(size) ==
  /\ wrPtr' = Advanced(size)
  /\ started' = (started \/ wrPtr + size = TotalSize)
  /\ rdEnable' = (rdEnable \/ 2 * wrPtr' = TotalSize)
  /\ lapWhole' = (wrPtr' = 0 \/ (lapWhole /\ size \in {0, PacketSize}))
  /\ Arm(wrPtr)
  /\ UNCHANGED <<class, altSetting>>

DataOut(size) ==
  /\ wrPtr' = Advanced(size)
  /\ started' = (started \/ wrPtr + size = TotalSize)
  /\ rdEnable' = (rdEnable \/ 2 * wrPtr' = TotalSize)
  /\ lapWhole' = (wrPtr' = 0 \/ (lapWhole /\ size \in {0, PacketSize}))
  /\ Arm(wrPtr')
  /\ UNCHANGED <<class, altSetting>>

Listening == ep = "armed" /\ parity = frame

(* Room for a packet between where the endpoint was told to store it and  *)
(* the end of the buffer.                                                  *)
Fits(size) == target + size <= TotalSize

(* A good packet meets the armed endpoint. *)
ReceivePacket(size) ==
  /\ ~asleep
  /\ slot = "none"
  /\ Listening
  /\ Fits(size)
  /\ IF devState = "configured" THEN DataOut(size)
       ELSE ep' = "open" /\ UNCHANGED <<audio, target, parity>>
  /\ slot' = "received"
  /\ UNCHANGED <<state, frame, streaming>>

(***************************************************************************)
(* A good packet for which there is no room is stored all the same: over   *)
(* the class's own offset, rd_enable and wr_ptr, which follow the buffer,  *)
(* and over what follows them.  What the program does from then on is      *)
(* undefined, and the behaviour ends here.                                 *)
(***************************************************************************)
SpillPacket(size) ==
  /\ ~asleep
  /\ slot = "none"
  /\ Listening
  /\ ~Fits(size)
  /\ spilt' = TRUE
  /\ UNCHANGED <<state, audio, endpoint, frames>>

(* A good packet finds the endpoint closed, disabled or of the other parity. *)
LosePacket ==
  /\ ~asleep
  /\ slot = "none"
  /\ ~Listening
  /\ slot' = "lost"
  /\ UNCHANGED <<state, audio, endpoint, frame, streaming>>

(***************************************************************************)
(* End of the frame.  If the endpoint was armed for it and nothing good    *)
(* came, the HAL sees an incomplete isochronous transfer: it compares bit  *)
(* 16 of DOEPCTL with bit 0 of the frame number, which agree in even       *)
(* frames only, and then aborts the transfer and disables the endpoint.    *)
(* USBD_AUDIO_IsoOutIncomplete, called last, does nothing.  (The three     *)
(* interrupts of the abort follow each other at once and are one step.)    *)
(***************************************************************************)
Aborted == Listening /\ frame = 0

EndFrame ==
  /\ ~asleep
  /\ ep' = IF Aborted THEN "open" ELSE ep
  /\ frame' = 1 - frame
  /\ slot' = "none"
  /\ streaming' = (slot = "received" /\ ep # "closed")
  /\ UNCHANGED <<state, audio, target, parity>>

-----------------------------------------------------------------------------
Init ==
  /\ devState = "default"
  /\ oldState = "default"
  /\ devConfig = 0
  /\ asleep = FALSE
  /\ class = FALSE
  /\ altSetting = 0
  /\ wrPtr = 0
  /\ started = FALSE
  /\ rdEnable = FALSE
  /\ ep = "closed"
  /\ target = 0
  /\ parity = 0
  /\ frame \in {0, 1}
  /\ slot = "none"
  /\ streaming = FALSE
  /\ lapWhole = TRUE
  /\ spilt = FALSE

Bus == Reset \/ Suspend \/ Resume \/ Disconnect

Request ==
  \/ \E address \in {0, 1} : SetAddress(address)
  \/ Configure \/ Deconfigure \/ ConfigureTooEarly
  \/ \E alt \in {0, 1} : SetInterface(alt)

Audio == (\E size \in Sizes : ReceivePacket(size)) \/ LosePacket \/ EndFrame

Next ==
  \/ ~spilt /\ (Bus \/ Request \/ Audio) /\ UNCHANGED spilt
  \/ ~spilt /\ \E size \in Sizes : SpillPacket(size)
  \/ spilt /\ UNCHANGED vars

SafeSpec == Init /\ [][Next]_vars

-----------------------------------------------------------------------------
DeviceStates == {"default", "addressed", "configured"}

TypeOK ==
  /\ devState \in DeviceStates \cup {"suspended"}
  /\ oldState \in DeviceStates
  /\ devConfig \in {0, 1}
  /\ asleep \in BOOLEAN
  /\ class \in BOOLEAN
  /\ altSetting \in {0, 1}
  /\ wrPtr \in 0 .. TotalSize - 1
  /\ started \in BOOLEAN
  /\ rdEnable \in BOOLEAN
  /\ ep \in {"closed", "open", "armed"}
  /\ target \in 0 .. TotalSize - 1
  /\ parity \in {0, 1}
  /\ frame \in {0, 1}
  /\ slot \in {"none", "received", "lost"}
  /\ streaming \in BOOLEAN
  /\ lapWhole \in BOOLEAN
  /\ spilt \in BOOLEAN

(* The device state the host knows of: suspension only covers it up. *)
HostState == IF devState = "suspended" THEN oldState ELSE devState

(***************************************************************************)
(* Through resets, suspensions, unplugging and requests that come too      *)
(* early, the class has its data exactly while the host regards the device *)
(* as configured, and the endpoint is open exactly then.                   *)
(***************************************************************************)
ClassFollowsHost ==
  /\ class <=> HostState = "configured"
  /\ class <=> ep # "closed"

(***************************************************************************)
(* DataOut hands the bytes at wr_ptr to the DAC, and the bytes are where   *)
(* the endpoint was told to put them when it was armed: the two are the    *)
(* same place, whatever happened to the device in between.                 *)
(***************************************************************************)
ArmedAtWritePointer == ep = "armed" => target = wrPtr

(***************************************************************************)
(* DataOut finds the end of the buffer by equality.  A short packet may    *)
(* make wr_ptr miss it, but only in the lap the packet came in: as long as *)
(* the packets since wr_ptr was last 0 were whole or empty, nothing has    *)
(* been stored past the end, and the next packet, of any size, has room;   *)
(* resets, configurations and earlier laps with short packets do not       *)
(* matter.                                                                 *)
(***************************************************************************)
PacketInBuffer ==
  lapWhole => ~spilt /\ (ep = "armed" => target + PacketSize <= TotalSize)

(***************************************************************************)
(* The pointer is rolled back when the buffer is full, as usbd_audio.c     *)
(* says, so that no packet of any size is stored past its end.             *)
(***************************************************************************)
RolledBackWhenFull == ~spilt

(***************************************************************************)
(* In the middle of a stream no good packet is lost: the endpoint is armed *)
(* again for the parity of the very next frame.  Only the frame after a    *)
(* missing packet, a configuration or a resume may find it deaf.           *)
(***************************************************************************)
NothingLostInStream ==
  [][LosePacket => ~streaming]_vars

(***************************************************************************)
(* While the device is configured and awake the endpoint is prepared for   *)
(* the next audio packet, as usbd_audio.c says it does after every one.    *)
(***************************************************************************)
PreparedForNextPacket == devState = "configured" => ep = "armed"

=============================================================================
