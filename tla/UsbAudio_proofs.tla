-------------------------- MODULE UsbAudio_proofs ---------------------------
(***************************************************************************)
(* Proofs about UsbAudio, for every packet size and every buffer length.   *)
(*                                                                         *)
(* The invariants and the stream property rest on UsbInv, which adds what  *)
(* they leave out: that the bus sleeps exactly in the suspended state,     *)
(* that the write pointer stays inside the buffer, and on a packet         *)
(* boundary in a lap of whole packets (the test in DataOut is for          *)
(* equality), and for which frame the endpoint is armed after a packet has *)
(* come.                                                                   *)
(***************************************************************************)
EXTENDS UsbAudio, TLAPS

(* The packet boundaries of the buffer, its end excluded. *)
Boundaries == {k * PacketSize : k \in 0 .. PacketNum - 1}

BusInv ==
  /\ devState \in DeviceStates \cup {"suspended"}
  /\ oldState \in DeviceStates
  /\ asleep = (devState = "suspended")
  /\ asleep => ~streaming

BufferInv ==
  /\ wrPtr \in 0 .. TotalSize - 1
  /\ lapWhole \in BOOLEAN
  /\ lapWhole => wrPtr \in Boundaries
  /\ spilt => ~lapWhole
  /\ ArmedAtWritePointer

FrameInv ==
  /\ class \in BOOLEAN
  /\ ep \in {"closed", "open", "armed"}
  /\ frame \in {0, 1}
  /\ parity \in {0, 1}
  /\ streaming \in BOOLEAN
  /\ streaming /\ slot = "none" => Listening
  /\ slot = "received" /\ ep # "closed" => ep = "armed" /\ parity = 1 - frame

UsbInv == BusInv /\ ClassFollowsHost /\ BufferInv /\ FrameInv

(***************************************************************************)
(* A whole packet fits behind every boundary.                              *)
(***************************************************************************)
LEMMA BoundaryInside ==
  ASSUME NEW b \in Boundaries
  PROVE  b \in Nat /\ b + PacketSize <= TotalSize
<1>1. PICK k \in 0 .. PacketNum - 1 : b = k * PacketSize
  BY DEF Boundaries
<1>2. /\ k \in Nat /\ PacketNum \in Nat /\ PacketSize \in Nat
      /\ k + 1 =< PacketNum
  BY <1>1, UsbAudioAssumption
<1>3. (k + 1) * PacketSize =< PacketNum * PacketSize
  BY <1>2
<1>. QED  BY <1>1, <1>2, <1>3 DEF TotalSize

(* The start of the buffer is one of them, and the buffer is not empty. *)
LEMMA StartIsBoundary == 0 \in Boundaries /\ TotalSize \in Nat \ {0}
<1>1. 0 \in 0 .. PacketNum - 1 /\ 0 = 0 * PacketSize
  BY UsbAudioAssumption
<1>2. 0 \in Boundaries
  BY <1>1 DEF Boundaries
<1>. QED  BY <1>2, BoundaryInside, UsbAudioAssumption DEF TotalSize

(***************************************************************************)
(* A whole or empty packet moves the write pointer from boundary to        *)
(* boundary: it meets the end exactly.                                     *)
(***************************************************************************)
LEMMA AdvancedOnBoundary ==
  ASSUME wrPtr \in Boundaries, NEW size \in {0, PacketSize}
  PROVE  Advanced(size) \in Boundaries
<1>1. PICK k \in 0 .. PacketNum - 1 : wrPtr = k * PacketSize
  BY DEF Boundaries
<1>2. /\ k \in Nat /\ PacketNum \in Nat \ {0} /\ PacketSize \in Nat \ {0}
      /\ wrPtr \in Nat /\ wrPtr + PacketSize <= TotalSize
      /\ TotalSize = PacketNum * PacketSize
  BY <1>1, UsbAudioAssumption, BoundaryInside DEF TotalSize
<1>3. CASE size = 0
  BY <1>2, <1>3 DEF Advanced
<1>4. CASE size = PacketSize
  <2>1. wrPtr + size = (k + 1) * PacketSize
    BY <1>1, <1>2, <1>4
  <2>2. CASE k + 1 = PacketNum
    <3>1. Advanced(size) = 0
      BY <2>1, <2>2, <1>2 DEF Advanced
    <3>. QED  BY <3>1, StartIsBoundary
  <2>3. CASE k + 1 # PacketNum
    <3>1. k + 1 \in 0 .. PacketNum - 1
      BY <1>1, <1>2, <2>3
    <3>2. (k + 1) * PacketSize < PacketNum * PacketSize
      BY <1>2, <3>1
    <3>3. Advanced(size) = (k + 1) * PacketSize
      BY <2>1, <3>2, <1>2 DEF Advanced
    <3>. QED  BY <3>1, <3>3 DEF Boundaries
  <2>. QED  BY <2>2, <2>3
<1>. QED  BY <1>3, <1>4

(***************************************************************************)
(* Whatever its size, a packet that fits leaves the write pointer inside.  *)
(***************************************************************************)
LEMMA AdvancedInside ==
  ASSUME wrPtr \in 0 .. TotalSize - 1, NEW size \in Sizes, wrPtr + size <= TotalSize
  PROVE  Advanced(size) \in 0 .. TotalSize - 1
<1>1. size \in Nat /\ TotalSize \in Nat \ {0}
  BY StartIsBoundary, UsbAudioAssumption
<1>. QED  BY <1>1 DEF Advanced

-----------------------------------------------------------------------------
LEMMA InitInv == Init => UsbInv
<1>. SUFFICES ASSUME Init PROVE UsbInv
  OBVIOUS
<1>1. BusInv /\ ClassFollowsHost /\ FrameInv
  BY DEF Init, BusInv, ClassFollowsHost, HostState, FrameInv, DeviceStates, Listening
<1>2. BufferInv
  BY StartIsBoundary DEF Init, BufferInv, ArmedAtWritePointer
<1>. QED  BY <1>1, <1>2 DEF UsbInv

(***************************************************************************)
(* What the bus does to the device keeps the invariant.                    *)
(***************************************************************************)
LEMMA BusKeepsInv ==
  ASSUME UsbInv, ~spilt, Bus, UNCHANGED spilt PROVE UsbInv'
<1>. USE DEF UsbInv, BusInv, ClassFollowsHost, HostState, BufferInv, FrameInv,
             ArmedAtWritePointer, DeviceStates, Listening
<1>1. CASE Reset
  BY <1>1 DEF Reset, ClassDeInit, NewFrame
<1>2. CASE Suspend
  BY <1>2 DEF Suspend, audio, endpoint
<1>3. CASE Resume
  BY <1>3 DEF Resume, NewFrame, audio, endpoint
<1>4. CASE Disconnect
  BY <1>4 DEF Disconnect, ClassDeInit, NewFrame
<1>. QED  BY <1>1, <1>2, <1>3, <1>4 DEF Bus

(***************************************************************************)
(* So does every request on endpoint 0.                                    *)
(***************************************************************************)
LEMMA RequestKeepsInv ==
  ASSUME UsbInv, ~spilt, Request, UNCHANGED spilt PROVE UsbInv'
<1>. USE DEF UsbInv, BusInv, ClassFollowsHost, HostState, BufferInv, FrameInv,
             ArmedAtWritePointer, DeviceStates, Listening
<1>1. CASE \E address \in {0, 1} : SetAddress(address)
  BY <1>1 DEF SetAddress, audio, endpoint, frames
<1>2. CASE Configure
  <2>2. BufferInv'
    <3>1. /\ wrPtr' = 0 /\ lapWhole' = TRUE /\ spilt' = FALSE
          /\ ep' = "armed" /\ target' = 0
      BY <1>2 DEF Configure, ClassInit, Arm
    <3>2. TotalSize' = TotalSize /\ Boundaries' = Boundaries
      BY DEF TotalSize, Boundaries
    <3>. QED  BY <3>1, <3>2, StartIsBoundary
  <2>3. (BusInv /\ ClassFollowsHost)'
    BY <1>2 DEF Configure, ClassInit, Arm
  <2>4. FrameInv'
    <3>1. /\ class' = TRUE /\ streaming' = FALSE /\ frame' = frame
          /\ ep' = "armed" /\ parity' = 1 - frame
      BY <1>2 DEF Configure, ClassInit, Arm, NextParity
    <3>2. 1 - frame \in {0, 1}
      OBVIOUS
    <3>. QED  BY <3>1, <3>2
  <2>. QED  BY <2>2, <2>3, <2>4
<1>3. CASE Deconfigure
  BY <1>3 DEF Deconfigure, ClassDeInit
<1>4. CASE ConfigureTooEarly
  BY <1>4 DEF ConfigureTooEarly, ClassDeInit, state
<1>5. CASE \E alt \in {0, 1} : SetInterface(alt)
  BY <1>5 DEF SetInterface, state, endpoint, frames
<1>. QED  BY <1>1, <1>2, <1>3, <1>4, <1>5 DEF Request

(***************************************************************************)
(* And so does every frame, with its packet or without.                    *)
(***************************************************************************)
LEMMA AudioKeepsInv ==
  ASSUME UsbInv, ~spilt, Audio, UNCHANGED spilt PROVE UsbInv'
<1>. USE DEF UsbInv, BusInv, ClassFollowsHost, HostState, BufferInv, FrameInv,
             ArmedAtWritePointer, DeviceStates, Listening
<1>1. ASSUME NEW size \in Sizes, ReceivePacket(size) PROVE UsbInv'
  <2>1. devState = "configured" /\ DataOut(size)
    BY <1>1 DEF ReceivePacket
  <2>2. BufferInv'
    <3>1. /\ wrPtr' = Advanced(size) /\ ep' = "armed" /\ target' = wrPtr'
          /\ lapWhole' = (wrPtr' = 0 \/ (lapWhole /\ size \in {0, PacketSize}))
          /\ spilt' = FALSE
      BY <2>1 DEF DataOut, Arm
    <3>2. wrPtr' \in 0 .. TotalSize - 1
      <4>1. wrPtr + size <= TotalSize
        BY <1>1 DEF ReceivePacket, Fits
      <4>. QED  BY <3>1, <4>1, AdvancedInside
    <3>3. lapWhole' => wrPtr' \in Boundaries
      BY <3>1, AdvancedOnBoundary, StartIsBoundary
    <3>4. TotalSize' = TotalSize /\ Boundaries' = Boundaries
      BY DEF TotalSize, Boundaries
    <3>. QED  BY <3>1, <3>2, <3>3, <3>4
  <2>3. (BusInv /\ ClassFollowsHost)'
    BY <1>1, <2>1 DEF ReceivePacket, DataOut, Arm, state
  <2>4. FrameInv'
    BY <1>1, <2>1 DEF ReceivePacket, DataOut, Arm, NextParity
  <2>. QED  BY <2>2, <2>3, <2>4
<1>2. CASE LosePacket
  BY <1>2 DEF LosePacket, state, audio, endpoint
<1>3. CASE EndFrame
  BY <1>3 DEF EndFrame, Aborted, state, audio
<1>. QED  BY <1>1, <1>2, <1>3 DEF Audio

(***************************************************************************)
(* A packet is stored past the end only in a lap with a short packet: on a *)
(* boundary there is room for any.                                         *)
(***************************************************************************)
LEMMA SpillKeepsInv ==
  ASSUME UsbInv, NEW size \in Sizes, SpillPacket(size) PROVE UsbInv'
<1>1. UNCHANGED <<state, audio, endpoint, frames>>
  BY DEF SpillPacket
<1>2. ~lapWhole
  <2>1. SUFFICES ASSUME wrPtr \in Boundaries PROVE FALSE
    BY DEF UsbInv, BufferInv
  <2>2. wrPtr \in Nat /\ wrPtr + PacketSize <= TotalSize
    BY <2>1, BoundaryInside
  <2>3. ~(wrPtr + size <= TotalSize)
    BY DEF SpillPacket, Fits, Listening, UsbInv, BufferInv, ArmedAtWritePointer
  <2>. QED  BY <2>2, <2>3, UsbAudioAssumption DEF TotalSize
<1>. QED  BY <1>1, <1>2 DEF state, audio, endpoint, frames, UsbInv, BusInv, ClassFollowsHost,
     HostState, BufferInv, FrameInv, ArmedAtWritePointer, Listening, Boundaries, TotalSize

LEMMA NextInv == UsbInv /\ [Next]_vars => UsbInv'
<1>1. ASSUME UsbInv, UNCHANGED vars PROVE UsbInv'
  BY <1>1 DEF vars, state, audio, endpoint, frames, UsbInv, BusInv, ClassFollowsHost,
     HostState, BufferInv, FrameInv, ArmedAtWritePointer, Listening, Boundaries, TotalSize
<1>. QED  BY <1>1, BusKeepsInv, RequestKeepsInv, AudioKeepsInv, SpillKeepsInv DEF Next

-----------------------------------------------------------------------------
(***************************************************************************)
(* The other variables: what the endpoint is armed with lies in the buffer *)
(* because the write pointer does.                                         *)
(***************************************************************************)
LEMMA InitTypes == Init => TypeOK
<1>1. Init => wrPtr \in 0 .. TotalSize - 1 /\ target \in 0 .. TotalSize - 1
  BY StartIsBoundary DEF Init
<1>. QED  BY <1>1 DEF Init, TypeOK, DeviceStates

LEMMA TargetInBuffer ==
  ASSUME UsbInv', target \in 0 .. TotalSize - 1, [Next]_vars
  PROVE  target' \in 0 .. TotalSize - 1
<1>1. wrPtr' \in 0 .. TotalSize - 1
  BY DEF UsbInv, BufferInv, TotalSize
<1>2. target' \in {target, 0, wrPtr'}
  BY DEF Next, Bus, Request, Audio, Reset, Suspend, Resume, Disconnect, SetAddress, Configure,
     Deconfigure, ConfigureTooEarly, SetInterface, ReceivePacket, SpillPacket, LosePacket, EndFrame,
     DataOut, Arm, ClassInit, ClassDeInit, vars, audio, endpoint
<1>. QED  BY <1>1, <1>2, StartIsBoundary

LEMMA NextTypes == UsbInv' /\ TypeOK /\ [Next]_vars => TypeOK'
<1>. SUFFICES ASSUME UsbInv', TypeOK, [Next]_vars PROVE TypeOK'
  OBVIOUS
<1>1. target' \in 0 .. TotalSize - 1
  BY TargetInBuffer DEF TypeOK
<1>2. started' \in BOOLEAN /\ rdEnable' \in BOOLEAN /\ spilt' \in BOOLEAN
  BY DEF TypeOK, Next, Bus, Request, Audio, Reset, Suspend, Resume, Disconnect, SetAddress,
     Configure, Deconfigure, ConfigureTooEarly, SetInterface, ReceivePacket, SpillPacket,
     LosePacket, EndFrame, DataOut, ClassInit, ClassDeInit, vars, audio
<1>3. devConfig' \in {0, 1} /\ altSetting' \in {0, 1} /\ slot' \in {"none", "received", "lost"}
  BY DEF TypeOK, Next, Bus, Request, Audio, Reset, Suspend, Resume, Disconnect, SetAddress,
     Configure, Deconfigure, ConfigureTooEarly, SetInterface, ReceivePacket, SpillPacket,
     LosePacket, EndFrame, DataOut, ClassInit, ClassDeInit, NewFrame, vars, state, audio, frames
<1>. QED  BY <1>1, <1>2, <1>3 DEF TypeOK, UsbInv, BusInv, BufferInv, FrameInv, DeviceStates, TotalSize

(***************************************************************************)
(* Types, with the write pointer and the target of the endpoint at offsets *)
(* inside the buffer of usbd_audio.h, with packets of any size.            *)
(***************************************************************************)
THEOREM UsbAudioTyped == SafeSpec => []TypeOK
<1>. QED  BY InitInv, NextInv, InitTypes, NextTypes, PTL DEF SafeSpec

-----------------------------------------------------------------------------
(***************************************************************************)
(* Whatever the bus and the host do, in any order: the class has its data  *)
(* and its endpoint exactly while the host regards the device as           *)
(* configured.                                                             *)
(***************************************************************************)
THEOREM ClassCorrect == SafeSpec => []ClassFollowsHost
<1>1. UsbInv => ClassFollowsHost
  BY DEF UsbInv
<1>. QED  BY <1>1, InitInv, NextInv, PTL DEF SafeSpec

(***************************************************************************)
(* The endpoint writes where DataOut will read.                            *)
(***************************************************************************)
THEOREM ReceivesInPlace == SafeSpec => []ArmedAtWritePointer
<1>1. UsbInv => ArmedAtWritePointer
  BY DEF UsbInv, BufferInv
<1>. QED  BY <1>1, InitInv, NextInv, PTL DEF SafeSpec

(***************************************************************************)
(* With packets of any size in any order: while the lap consists of whole  *)
(* and empty packets, whatever came in the laps before it, nothing has     *)
(* been stored past the buffer and the next packet has room.               *)
(***************************************************************************)
THEOREM ReceivesInside == SafeSpec => []PacketInBuffer
<1>1. ASSUME UsbInv PROVE PacketInBuffer
  <2>. SUFFICES ASSUME lapWhole
               PROVE  ~spilt /\ (ep = "armed" => target + PacketSize <= TotalSize)
    BY DEF PacketInBuffer
  <2>1. wrPtr + PacketSize <= TotalSize
    BY <1>1, BoundaryInside DEF UsbInv, BufferInv
  <2>. QED  BY <1>1, <2>1 DEF UsbInv, BufferInv, ArmedAtWritePointer
<1>. QED  BY <1>1, InitInv, NextInv, PTL DEF SafeSpec

(***************************************************************************)
(* No good packet is lost in the frame after one that was received: arming *)
(* for one parity at a time never makes the endpoint deaf in a stream.     *)
(***************************************************************************)
THEOREM StreamLosesNothing == SafeSpec => NothingLostInStream
<1>1. UsbInv => (LosePacket => ~streaming)
  BY DEF UsbInv, FrameInv, LosePacket
<1>2. UsbInv /\ [Next]_vars => [LosePacket => ~streaming]_vars
  BY <1>1
<1>. QED  BY <1>2, InitInv, NextInv, PTL DEF SafeSpec, NothingLostInStream

=============================================================================
