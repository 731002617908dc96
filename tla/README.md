# A formal model of the STM32 audio device

The repository is the firmware of a USB sound card on an STM32H743: a host
streams 48 kHz stereo over isochronous USB, the samples go through a ring buffer,
and a timer sends one pair of 24-bit words per tick over two SPIs to two
converters. An Ethernet part (lwIP, a telnet and a binary command server, a UDP
responder) is in the tree and partly switched off.

This directory holds TLA+ specifications of the audio path, of the USB control
endpoint, and of the Ethernet part from the descriptor rings up to the two
servers; TLC configurations that check them on small instances; and TLAPS proofs
of the main safety properties for every value of the constants.

* [1. The system](#1-the-system)
* [2. The modules](#2-the-modules)
* [3. What is checked](#3-what-is-checked)
* [4. What is proved](#4-what-is-proved)
* [5. What the code does otherwise than it says](#5-what-the-code-does-otherwise-than-it-says)
* [6. Assumptions, and what is not modelled](#6-assumptions-and-what-is-not-modelled)
* [7. Plan](#7-plan)
* [8. Running it](#8-running-it)

## 1. The system

There is one core, no operating system and no heap of the program's own. `main`
(`Core/Src/main.c`) sets the peripherals up and then calls `System::process` for
ever. At this commit that loop calls `Dac::process`, a delay; `MX_LWIP_Process`,
the servers' `process` and the display are commented out of it, and of the
servers only `UdpServer::init` is called (`systems/system.cpp`). The audio path is
live: it runs in interrupt handlers, **all of them at priority 0**, so none
preempts another and of several pending ones the lowest interrupt number goes
first. The Ethernet part is complete but dormant. It is modelled as it would run
if the loop called it: everything in one thread (`NO_SYS`), beside the MAC's DMA.

```
 host --USB--> OTG_FS handler --DataOut--> PeriodicTC --> Dac::addData
    |            (UsbAudio)               (RateMeter)        |
    +- SETUP --> endpoint 0                             sample ring (DacRing)
                 (UsbControl)                                |
 TIM1 --------> TIM1_UP handler: LDAC pulse --> Dac::timer1 -+
                                                    | words, CS low, DMA, SPI
                 DMA1 handlers: CS high  <----------+----> converters
                                      (DacOutput)   ^
                                                    | setChannel (not modelled)
 wire --MAC/DMA--> EthRx --> lwIP --> callbacks of the two servers
      <-----------  EthTx <--  ^        slots (TcpServers)
                               |        BinaryConnection, TelnetConnection
        MX_LWIP_Process: timers and link (LwipTimers)      over Stream
```

| Part | State | Operations | What makes it right |
|---|---|---|---|
| Sample ring, `systems/dac/dac.cpp` | two arrays of 30000 samples, two indices, overflow count | `addData` (USB handler), `timer1` (timer handler), `bufferLevel` | an accepted frame keeps its slot until it is passed, frames are passed in order and all of them, an overflow is counted only when the ring is full |
| Output path, `dac.cpp`, `stm32h7xx_it.c` | transmit buffers, chip selects, four DMA streams, two SPIs, two converters | `TIM1_UP_IRQHandler`, `DMA1_Stream0..3_IRQHandler`, `setChannel` (main loop) | every word arrives whole, both channels of a tick appear together, in the tick after |
| USB audio device, `usbd_audio.c`, `usbd_core.c`, `usbd_ctlreq.c`, `hal_pcd.c` | device state and configuration, class data with write pointer, the isochronous endpoint | reset, suspend, resume, disconnect, requests, packet received, frame ended | class, endpoint and device state agree, the data handed on is the data received, no packet of a running stream is lost |
| Control endpoint, the same files and `usbd_ioreq.c` | `ep0_state`, lengths, what SET_CUR waits for | SETUP, DATA IN/OUT, STATUS stages | host and device agree on the stage, every request ends, data belong to the request that asked |
| `Stream`, `utils/stream/stream.h` | a ring with two volatile indices | `enqueue`, `getSpace`, `peekNonCopy`, `dequeue` | a lock-free queue for one writer and one reader |
| Binary and telnet server, `systems/binary_server`, `systems/telnet_server` | three slots each, with an input buffer and a `Stream` | accept, receive, error, close, `process`; parsing and replies | slots neither leaked nor shared, frames and lines found where they begin, each handled once, replies whole and to the client that asked |
| UDP responder, `systems/udp_server`, `utils/sha256.cpp` | none between packets | one callback | the hash is that of the payload, however it is cut into pieces |
| Ethernet glue, `LWIP/`, `hal_eth.c` | two descriptor rings, receive pool, `RxAllocStatus`, link state | read, build, allocate, free, transmit, link check | no buffer lost or shared, packets whole and in order, reception resumes after the pool ran dry, no descriptor left to memory given back |
| lwIP's timers and pcbs, `timeouts.c`, `tcp.c`, `tcp_in.c` | the timeout list, the pcbs with state, priority, age | `sys_check_timeouts`, `tcp_alloc`, `tcp_slowtmr`, `tcp_fasttmr`, input | each timer once and in time, room is made from the right connection, nothing half open stays |
| Rate meter, `usbd_audio_if.c` | `ps_last_dt`, two counts | `AUDIO_PeriodicTC_FS` | the count shown is that of about a second |
| System, elapsed timer, display | 64-bit tick counter that nobody increments | `process` | nothing at this commit |

The hard behaviours are those of the hazard list in `PROJECT.json`. They come in
these groups:

* **Two rates and no back pressure.** The host's packets and the timer's ticks
  are not synchronised. The ring overflows and underruns, and the reader does not
  look whether there is anything to read.
* **Nobody waits.** The LDAC pulse, the chip selects, the DMA streams and the SPI
  are driven by different interrupts, none of which asks whether the one before
  has done its part. That it works rests on interrupt order and on time.
* **The host may do anything at any time**: reset, suspend, unplug, send requests
  in the wrong state or withdraw them, leave out packets.
* **No lock** between the writer and the reader of a `Stream`, between `setChannel`
  and the timer (neither server, so no caller of it, is started), between the processor and the MAC's DMA.
* **Fixed pools.** Three slots, five pcbs, twelve receive buffers, four
  descriptors, as many timeouts as there are timers: every pool runs dry in normal
  use, and what was refused then must come back.
* **Clients and the wire do as they please**: TCP cuts and joins anywhere, clients
  vanish without a word, the link drops in the middle of a packet.
* **Counters that wrap** (`sys_now`, `HAL_GetTick`) compared by difference.

## 2. The modules

| Module | Models | Relation |
|---|---|---|
| `PlayoutQueue` | what the ring promises: a queue of frames with a *gap* of replayed old frames after an underrun | abstract |
| `DacRing` | `addData`, `bufferLevel`, the ring part of `timer1` | implements `PlayoutQueue` |
| `DacOutput` | the timer and DMA handlers, interrupt selection, DMA, SPI, converters, time | |
| `Dac` | the two together, driven by the same handlers | implements `DacRing` and `DacOutput` |
| `UsbAudio` | the USB device state, the audio class, the isochronous endpoint | |
| `ControlPipe` | what a host may expect of endpoint 0 | abstract |
| `UsbControl` | control transfers: host, endpoint, the stages of the core | implements `ControlPipe` |
| `RateMeter` | the counter in `AUDIO_PeriodicTC_FS` | |
| `StreamQueue` | what `Stream` promises: a bounded queue with atomic batches | abstract |
| `Stream` | `enqueue`, `getSpace`, `peekNonCopy`, `dequeue`, split at every access to shared state | implements `StreamQueue` |
| `TcpServers` | the slots of both servers and the pcbs of lwIP they share | |
| `CommandService` | what a binary connection promises its client | abstract |
| `BinaryConnection` | input buffer, frame parser, requests, replies, output of a slot | implements `CommandService` |
| `LineText`, `LineService` | lines and protocol commands as text, and the promise of a line editor | abstract |
| `TelnetConnection` | input buffer and line parser of a slot | implements `LineService` |
| `Sha256Chunks` | cutting and padding of a message | |
| `EthRx` | receive descriptors, `HAL_ETH_ReadData`, the buffer pool, the link | |
| `EthTx` | transmit descriptors, `low_level_output`, `HAL_ETH_Transmit` | |
| `LwipTimers` | `MX_LWIP_Process`: timeouts and the look at the link | |
| `Parts` | the six small modules, which share nothing, side by side | composition |
| `DacRing_proofs`, `DacOutput_proofs`, `UsbAudio_proofs`, `UsbControl_proofs`, `Stream_proofs`, `TcpServers_proofs`, `EthRx_proofs`, `Parts_proofs` | theorems and proofs | |
| `MCDacRing`, `MCDac`, `MCUsbAudio`, `MCUsbControl`, `MCTcpServers`, `MCBinaryConnection`, `MCParts` | values of the constants for TLC | |

An operator whose name ends in a suffix such as `_PreIncrement` and whose comment
says *mutant* stands just before the definition it alters: it is that definition
with a plausible programming error. Replacing the one by the other makes TLC find
a violation, which shows that the property in question is able to fail.

### DacRing

`inputIndex`, `outputIndex`, `channelA`, `channelB`, `counterOverflow` and
`lastBufferLevel` are the members of class `Dac` with the underscore left off.
`addData` masks interrupts around its loop and is called from a handler, so a
call is one action, `AddData(packet)`; `timer1`'s share, `AdvanceOutput`, masks
them too. The loop of `addData` is given in closed form (`Room`, `Ahead`,
`Store`): how many frames go in, and which slot takes which. `MCDacRing` writes
the loop out iteration by iteration, and `MatchesLoop` says that both agree.

The reader never stops. At line 293 `timer1` masks interrupts, takes a slot and
moves on, and the tests that used to hold it back (lines 260-289) are commented
out. So it can overtake the writer; from then on `bufferLevel` is the distance
the wrong way round and counts frames long since passed. The history variable
`fresh` keeps the number of frames that were accepted and not yet passed; it is
what the properties talk about and no action reads it in a guard.

At this commit the words sent are constants (lines 295-298 have the samples
commented out). The model says which slot a tick *passes*, not what is heard.

### DacOutput

The unit of time is one byte on the SPI. `Elapse` lets it pass when the processor
is idle or in the USB handler; the other handlers take no time. `Takes(irq)`
chooses among the pending interrupts as the NVIC does at equal priorities.
`TIM1_UP_IRQHandler` is cut into the steps other parts of the hardware can see:
LDAC pulse, words into the buffers, chip selects, streams armed, SPIs started.
DMA transfers and the shifting of bytes are actions of their own; two rules of
the hardware matter and are modelled: a stream that is enabled ignores a new
`NDTR`, and one whose flags are set does not start. A word is represented by the
tick that loaded it, a byte on its way carries the same number, and a converter
whose chip select rises after anything but three bytes of one tick holds `Torn`.

### Dac

`Tick` conjoins `DacOutput!LoadWords` with `DacRing!AdvanceOutput`, and
`ReceivePacket` conjoins the end of the USB handler with `DacRing!AddData`. The
composition is what justifies the fairness `DacRing` assumes: `WF(AdvanceOutput)`
follows from fairness of the processor and the hardware alone.

### UsbAudio

One interrupt is one step. The variables are the fields of `USBD_HandleTypeDef`
and `USBD_AUDIO_HandleTypeDef` that decide anything, plus the endpoint register:
`ep` (closed, open, armed), `target` (the address it was armed with) and `parity`.
`frame` and `slot` describe the bus: the parity of the current frame and whether
its packet was received or lost. `streaming` is history: the last frame's packet
was received. The class data lives in static memory (`USBD_static_malloc`,
`usbd_conf.c`), so it keeps its contents across `ClassDeInit`.

Packets have any size the endpoint takes, `0` to `PacketSize`. One that ends behind
the buffer (`SpillPacket`) is stored all the same, over `offset`, `rd_enable`, `wr_ptr`
and whatever follows; what the program does then is undefined, so the behaviour ends
with it, and the properties speak of what comes before. `lapWhole` is history: the
packets since `wr_ptr` was last 0 were whole ones or empty; `spilt` records the end.

### Stream

The writer's locals `output_index` and `input_index` are `wOutput` and `wInput`,
and the reader's block is `size` items from `outputIndex` on. `enqueue` is three
actions, `BeginEnqueue`, `StoreItem` and `EndEnqueue`; the reader's use of the
block, an item at a time, is `TakeItem`. `promised` is history: the batch was no
longer than what the last `getSpace` had reported. (`getSpace` has no caller but
`datasize`, which has none: that its answer holds is what a caller would rely on.)

### UsbControl

Host and device are both in the model. The host keeps its `stage` and knows by
the length of a packet when data end; the device keeps `ep0State` and knows by
`rem`, `total` and `ep0DataLen`. A request is a class (`get`, `set`, `setCur`,
`unknown`, `ignored`) with what is available and what was asked for; which
descriptor is meant does not matter. `SetupStage`, `DataOutStage` and
`DataInStage` are the handlers with everything they call. `ControlPipe` is the
promise: every request ends, in a way that fits it, with its own data whole, and
a mute is carried out exactly once, before it is acknowledged.
`UsbControlAssumption` says which request has data: a `get` or `setCur` asks for
some (`usbd_audio.c:858`, `usbd_ctlreq.c:656`), and a `set` for none.

### TcpServers

One step is one segment, one call of an lwIP timer, or one slot's turn in
`process`. `st`, `arg`, `nrtx` and so on are the fields of a `tcp_pcb`; `busy`,
`pcbOf` and `out` are `conns_busy`, `pcb_` and `streamOut`. A step contains all
that the code does in one go: a new connection request with no free pcb kills
another connection, whose error callback frees its slot, and takes the pcb
(`SynKills`); an acknowledgement can complete the handshake, claim a slot, carry
data and close again (`Accept` with `seg.fin`). Clients send any segment at any
time or none.

### BinaryConnection and CommandService

A byte knows the frame it belongs to and its place in it, so the model can say
what the code cannot: whether the parser reads a size where a frame begins
(`ReadsAtFrameStart`). `Receive` is TCP: the client's bytes in order, in one buffer
or a chain of two, cut anywhere. `Input`, `HandleFrame` and `EndParse` are the loops
of `callback_recv`, `input` and `parseInputBuffer`. In `CommandService` there are no
bytes: requests arrive, are handled in order and answered, and a reply may be lost
only while output of an earlier client is in front. What clients send and the sizes it meets
are chosen once, in `setup`.

### TelnetConnection, LineText and LineService

`LineText` says what a sequence of bytes means as a fold over single bytes, with
no buffer. `TelnetConnection` has the buffer, the search for a line end, the
move, and the rule that a protocol command is three bytes whatever is there.
`LineService` is stated over the former and lets the editor hang only where a
protocol command has come in part; the refinement thus shows that this is the only
way to hang.

### EthRx

The ring as the DMA sees it (`desc`, `dmaIdx`) and as the driver goes over it with
three indices and two counts (`rxIdx`, `buildIdx`, `buildCnt`, `chain`,
`dataLength`). One round of each loop is a step, so the DMA fills descriptors
while they are read and built. A link that goes down and up is `HAL_ETH_Stop`
and `HAL_ETH_Start`: all descriptors are built again, those with packets too, and
the DMA goes on where it stood. `arrived` is history: the packets complete and not
yet given to lwIP.

`EthRxAssumption` has what the proof needs and the code fixes: there are at least
as many buffers as descriptors (`ethernetif.c:70`; 12 and 4), and a packet takes at
most two buffers, since the receive watchdog cuts it at 2 KB
(`stm32h7xx_hal_eth.c:2928-2929`) and a buffer has 1536 bytes (`ethernetif.c:176`). `TotLenIsRest`
is the rule `pbuf.h:197-198` gives for `tot_len`.

### EthTx

A descriptor is the processor's or the DMA's, and in the latter case its memory is
in use (`live`) or has been given back to lwIP (`dead`). `TimedOut` clears OWN of
the last descriptor, as `HAL_ETH_Transmit` does, while the DMA may be at work on
it; its late write-back is `DmaWriteBack`.

### LwipTimers

`now` wraps at `Word`; each entry has its wrapped time, which the code compares,
and its true time left, which the properties speak of. A round of the loop takes
up to `MaxRound`, and time passes inside handlers as well.

### Sha256Chunks, RateMeter

`Sha256Chunks` keeps what was passed to `consume_chunk`, in order; the property
compares it with the padded message of FIPS 180-4 written down directly.
`RateMeter` has the tick as the `int` the code keeps it in, and packets of any sizes;
`bytes` and `lastSize` are history.

### Parts

`EthTx`, `Stream`, `LwipTimers`, `TelnetConnection`, `Sha256Chunks` and `RateMeter`
share no variable. `Parts` has them side by side; `part` says which of them runs, the
others rest. Since no part can see another, a behaviour of the
whole is a behaviour of one part with the rest standing still, and each is under
its own fairness. It adds nothing to the model; it makes one run of six, and is
where theorems about them are stated, those of `Stream` excepted, which needs no
other. `MCParts` has the values a cfg cannot write.

## 3. What is checked

| Run | Instance | Distinct states | Shows |
|---|---|---|---|
| `dac_ring` | ring of 4 slots, 8 packets of 0 to 4 frames, at most 2 overflows | 6096 | accepted frames keep their slots, leave in order one a tick, and are all passed; an overflow leaves the ring full; the closed form is the loop; the ring implements `PlayoutQueue` |
| `dac_ring_frames` | the same | until violated | `addData` stores half of a packet (section 5) |
| `dac_output` | period 7, USB handler up to 4 byte times, counter modulo 3 | 7644 | no word torn, both channels together, each tick latches the word of the one before, streams idle when armed, no update lost, every word put out |
| `dac` | ring of 3, period 5, USB handler up to 2, counter modulo 2 | 136304 | the composition implements `DacRing` and `DacOutput`, fairness included |
| `usb_audio` | buffer of 4 packets of 3 bytes, packets of 0 to 3 | 18612 | class, endpoint and host agree; the packet is where `DataOut` looks for it; while a lap has whole packets only it is inside the buffer; a running stream loses nothing |
| `usb_audio_missed` | the same | until violated | a missing packet disables the endpoint (section 5) |
| `usb_audio_short` | the same | until violated | short packets take `wr_ptr` over the end of the buffer (section 5) |
| `usb_control` | packets of 2, up to 3 requests of 32 kinds | 13864 | host and device agree on the stage at every length; `UsbControl` implements `ControlPipe` |
| `tcp_servers` | 3 pcbs, both servers with one slot, one retransmission, time-out of a tick | 165562 | slots and open connections belong to each other at all times; room is made from the right connection; nothing half open or half closed stays |
| `binary_connection` | `int` of 2 bytes, header of 4, two replies awaited, output of 10; input buffer of 10 with segments of up to 6, or 6 with 2 | 562169 | the parser stays in step, handles each frame at once, cuts no reply of its own; a size of zero or a frame too long ends the service; implements `CommandService` |
| `eth_rx` | 2 descriptors, 4 buffers of 2, packets of up to 2 buffers, the link down once | 482886 | every buffer in one place; until the link drops packets come whole and in order and reception resumes |
| `parts` | see below | 375646 | `EthTx`, `Stream` (which implements `StreamQueue`; the block in use stays intact, reported space holds), `LwipTimers`, `TelnetConnection`, `Sha256Chunks`, `RateMeter` |

Some properties are conjunctions of named parts, stated together because they are
one question: `FramesInStep`, `SlotsFollowPcbs`, `BuffersSafe`, `ControlInvariant`
and those of `Parts`. A type invariant is among them where it bounds something
(`Len(buf) <= InputSize`). The type invariants of `DacRing`, `DacOutput` and `Stream` are proved
and not checked again; that of `Dac` is in the module and holds, but is in no run.

The bounds, and why they are enough:

* **Ring sizes 3 and 4** have a writer behind, at and ahead of the reader, wrap
  of either index inside a packet, full and empty, and underruns in each; packets
  reach twice the ring. `MaxOverflow` bounds only the overflow count, which guards
  nothing else. For the safety properties every size is covered by proof.
* **Sample values**: a frame is `<<k, -k>>` with two values of `k`, so swapped
  channels, mixed frames and a wrong order all show. No packet is another one
  reversed.
* **Period and UsbTime**: TIM1 divides PLL1's VCO so that a period is 4000 cycles
  and a word takes 384 (`main.c:205-207, 342, 500-502`), a little more than 31
  byte times with the USB handler allowed 28. The properties depend on
  `UsbTime + 3 =< Period` only, which is assumed by name (`ScheduleAssumption`):
  instances at the boundary (7,4), (6,3) and (12,9) hold, and with (7,5) and (6,4)
  `LatchesPreviousWord` fails. `dac` uses a smaller one, (5,2).
* **CounterModulus**: 3 tells a tick's word from the previous and the one before
  that. It is 16777216 in the code.
* **Buffer of 4 packets** (80 in the code) separates the half-full from the full
  mark and from single packets. Packets of 0 to 3 bytes leave `wrPtr` at every
  distance from a boundary, and laps of them end at, before and behind the end.
* **Stream of 4 slots** wraps both indices within a batch, and the batch of 5
  overflows it from every state.
* **`usb_control`**: lengths 1 to 5 available and 1, 2, 4, 5 and 6 asked for are
  below, at and above one and two packets of 2 in either. Three requests follow
  each other in every combination, which is one more than a leftover of one
  request needs to show.
* **`tcp_servers`**: with 3 pcbs and 2 slots the pool of lwIP runs dry while
  each server has a client, is in a handshake, or is closing; the code has 5 pcbs
  and 6 slots, so there too pcbs are what runs out first. One slot for each server
  makes the refusal for want of a slot happen beside the refusal for want of a pcb.
  Pcbs are alike in all actions, so liveness is checked for one of them.
* **`binary_connection`**: a frame of 5 and buffers of up to 6 fill the 10 bytes
  exactly in the worst case, as the code's sizes allow (frames of up to 489 bytes
  with segments of 536 in 1024). Frames are cut at every byte, the size field
  included, and up to two begin in one chain. Four sets of frames: requests with
  a reply, with an error and without; a request and a size of zero; sizes of
  zero alone, until the buffer refuses; and, with a buffer of 6, a request and a
  frame of 7.
* **`eth_rx`**: two descriptors and packets of two buffers put a packet across the
  ring's end; four buffers are what one such packet in the ring and one with lwIP
  take, so the pool runs dry in every phase. The code has 4, 12 and 1536
  bytes. After one link change the invariants hold through everything that can
  follow; the link is kept down to once because nothing else bounds it.
* **`parts`**: 4 transmit descriptors, packets of one or two buffers; a clock of 16
  values, intervals 2, 2 and 3, a look at the link every 3, rounds up to 2, which
  are as long as the shortest interval; lines of 2 characters in a buffer of 5 and
  pieces of up to 3 bytes, with one letter and the space (the run also passes with two
  letters); chunks of 6 with a length field of 2, base 16, messages up to 20, which
  is three chunks and the fourth that padding may take; a tick of 32 values with a
  second of 5 and pauses up to 6, through the sign change and the wrap, and
  packets of 1 and of 2 bytes, so that a sum is no count.

Deadlock is checked in every run but `usb_control`, where the bound on the number
of requests stops it. No run uses a state constraint or symmetry.

**Fairness.** `DacRing!Spec` has weak fairness of `AdvanceOutput`: the timer runs
on. `DacOutput!Spec` and `Dac!Spec` have weak fairness of the handlers taken
together and of the hardware taken together: a processor executes something that
is pending, and time passes when nothing is. The host is never assumed to do
anything: packets and USB interrupts have no fairness. `UsbControl` assumes that
a host goes on with a request it has begun, as every host does, by retrying tokens
or giving up, and that the interrupt is served. `TcpServers` assumes of the whole world only that lwIP's two timers are
called and that memory for a FIN is there at one of the attempts; that the timers
are called is what `LwipTimers` shows, from nothing but a loop that goes on and a
clock that runs. `EthRx` assumes the loop, and that lwIP frees each buffer some
day (strong fairness, since a buffer is freed between rounds of the loop).
`EthTx` assumes the wait, which a clock ends, and the DMA; `TelnetConnection` that
the parser's loop is executed. Everything else is safety only: nothing there
promises progress.

## 4. What is proved

The theorems hold for every value of the constants that satisfies the named
assumptions:

| Assumption | Says |
|---|---|
| `RingAssumption`, `UsbAudioAssumption` | a ring of at least one slot, any samples and packets; packets of any size up to `PacketSize` |
| `ScheduleAssumption` | the longest USB handler and a word fit into a timer period |
| `StreamAssumption`, `TcpServersAssumption` | a buffer of at least one slot, any batches; at least one slot, one item of output and one retransmission |
| `UsbControlAssumption`, `Prompt` | which requests have data; the last IN packet is served before the next SETUP |
| `EthRxAssumption` | as many buffers as descriptors, packets of at most two buffers |
| `EthTxAssumption`, `OneDescriptor` | chains of at most two buffers, which are what this program sends |
| `PartsAssumption` | those of the instantiated parts; for the hash, 8 times the longest message fits its length field, and `^` is the power (`PowersOf`: the provers know nothing of `^`) |

| Theorem | Statement |
|---|---|
| `DacRing_proofs!RingCorrect` | `[](TypeOK /\ FreshWithinLevel)` |
| `DacRing_proofs!FreshKept` | `FreshSlotsKept` |
| `DacRing_proofs!OverflowMeansFull` | `OverflowOnlyWhenFull` |
| `DacRing_proofs!RingImplementsQueue` | `SafeSpec => PlayoutQueue!SafeSpec` under the refinement |
| `DacOutput_proofs!TypeCorrect` | `[]TypeOK` |
| `DacOutput_proofs!WordsWhole` | `[]NoTornWord` |
| `DacOutput_proofs!BothChannels` | `[]ChannelsTogether` |
| `DacOutput_proofs!ArmedWhenFree` | `[]StreamsReadyToArm` |
| `DacOutput_proofs!PreviousWord` | `LatchesPreviousWord` |
| `DacOutput_proofs!UpdateServed` | `NoUpdateLost` |
| `UsbAudio_proofs!UsbAudioTyped` | `[]TypeOK` |
| `UsbAudio_proofs!ClassCorrect` | `[]ClassFollowsHost` |
| `UsbAudio_proofs!ReceivesInPlace` | `[]ArmedAtWritePointer` |
| `UsbAudio_proofs!ReceivesInside` | `[]PacketInBuffer` |
| `UsbAudio_proofs!StreamLosesNothing` | `NothingLostInStream` |
| `UsbControl_proofs!ControlCorrect` | `[]ControlInvariant`, under `Prompt` |
| `UsbControl_proofs!ControlImplementsPipe` | `Spec` implements the safety part of `ControlPipe`, under `Prompt` |
| `Stream_proofs!StreamCorrect` | `[](StreamTypeOK /\ BlockIntact)` |
| `Stream_proofs!SpaceHolds` | `[]ReportedSpaceHolds` |
| `Stream_proofs!StreamImplementsQueue` | `ImplementsQueue` |
| `TcpServers_proofs!SlotsCorrect` | `SlotsFollowPcbs` |
| `TcpServers_proofs!RoomMadeInOrder` | `KillsInOrder` |
| `EthRx_proofs!BuffersStaySafe` | `[]BuffersSafe` |
| `EthRx_proofs!ReceivedInOrder` | `PacketsAsReceived` |
| `Parts_proofs!TransmitCorrect` | `TransmissionHolds`, under `OneDescriptor` |
| `Parts_proofs!TimersCorrect` | `TimersKeepTime` |
| `Parts_proofs!MeterCorrect` | `RateIsPerSecond` |
| `Parts_proofs!HashCorrect` | `[]HashesPaddedMessage` |

**The ring.** The inductive invariant is `RingInv == TypeOK /\ FreshWithinLevel`:
the frames nobody has passed lie inside the distance the two indices show. It is
needed because the writer's test knows only the indices. If the pending frames
could reach beyond that distance, a packet could overwrite them without meeting
`outputIndex`. `StoreKeepsInv` shows that storing no more than `Room` frames
keeps it; a tick either leaves the oldest pending slot, which lies exactly at the
level, or leaves an old one. `FreshKept` and the refinement follow from what
storing (`StoreKeepsFresh`, `StoreAppends`) and advancing (`AdvanceKeepsFresh`,
`AdvanceTicks`) do to the pending slots.

**The output path.** None of the five properties is inductive, as each rests on how
far the transfer of a tick has got when the next one comes. `Ind` says it chip by
chip: a chip is `Deselected` with its last word taken over, `Selected` and still, or
`Sending`, and then the bytes at the stream, in the FIFO and shifted out make one
word (`Sending`), of which one has moved in every byte time since the handler began,
at most `UsbTime - 1` late (`InTime`). With `ScheduleAssumption` the word is out,
and its interrupts are served, when the timer's update comes: `LatchReady` is that
argument, and every property follows from it. There is one lemma for each handler
and each step of the hardware.

**USB audio.** `UsbInv` strengthens the three invariants by what they leave out: the bus
sleeps exactly in the suspended state (so `oldState` speaks for the host); the
write pointer is below the end of the buffer, and as long as the lap has had whole
and empty packets only it is a multiple of the packet size, which is what makes the
equality test of `DataOut` catch the end (`BoundaryInside`); and after a packet has
come in a frame the endpoint is armed for the other parity. There is one lemma
for each group of actions, bus events, requests and audio traffic.

**Control transfers.** That host and device agree on the stage is not inductive:
they decide separately where the data end, the host by a short packet or the length
it asked for, the device by `rem`, `total` and `ep0DataLen`. `Ind` lists the eight
phases a request can be in, from `Asked` to `Answered`, and what both endpoints,
both stages and all counts are in each. `PacketReady` and `PacketTaken` carry the
arithmetic: what the host has and what the device has left make up `Length`, and an
empty packet follows exactly when the host cannot know the end otherwise. `Once`
says of a mute that it is carried out before it is acknowledged and not again. The
refinement takes the same phases, one action of `ControlPipe` or none for each.

**Stream.** The writer goes by an `outputIndex_` that may be old, the reader by an
`inputIndex_` that may be old. `StreamInv` says what keeps this harmless.
`IndicesInOrder`: going round from the output index the writer read, one meets the
reader, `inputIndex_` and the writer's next slot in this order, so the slot it
fills is neither published nor stored (`FreeSlot`). `BlockHeld`: the reader's block
lies inside the published items and does not wrap. `BatchInHand`: the items stored
and those left make up the batch, which is what `EndEnqueue` appends in one step
(`EndAppends`). `SpaceKept`: the space reported does not shrink while only the
reader moves. Storing is a stutter of the queue (`StoreHidden`), releasing takes
items off its front (`DequeueDrops`).

**The servers' slots.** `Ind == TypeOK /\ SlotsMatchPcbs /\ ListenerKnown`. The
invariant is inductive once one knows that a pcb in use came from a listener, for
which the accept callback then looks for a slot. All steps come down to three:
connections end and exactly their slots are given back (`ReleaseKeeps`, for a close,
a reset, a timer, a pcb taken for a new client), a free slot is claimed for a
connection that opens (`ClaimKeeps`, with `FirstFree`: the first free slot is a slot,
and free), or neither slots nor open connections are touched (`UntouchedKeeps`). The
two directions of `SlotsMatchPcbs` need each other: that the slots given back are no
other connection's follows from what the slots say of their pcbs, and the converse.
`RoomMadeInOrder` needs no more of the past than this: a pcb without a slot loses none
(`KillSpares`), one with a slot belongs to the slot's server, and as there are only three
priorities, those below the new pcb's are exactly the connections past their handshake
that are not the binary server's (`DispensableAre`).

**Reception.** `BuffersSafe` says that every buffer is in one place; `Ind` adds why
the code keeps it so. A descriptor's buffer pointer and the chain, the pool and lwIP
never share a buffer (`Apart`, `Somewhere`). Until the link first goes down, `rxIdx`
is `RxBuildDescCnt` ahead of `RxBuildDescIdx`, and every descriptor outside that
stretch has a buffer (`Ring`): so `HAL_ETH_ReadData` never links a null pointer.
At the start, all descriptors are loaded before any is read, which needs as many
buffers as descriptors (`FirstBuild`). The bound of two buffers is needed beyond the
first drop of the link: there `dataLength` may be older than the packet it is
subtracted for, and with chains of three nothing relates the two.

`ReceivedInOrder` needs a second invariant, `Flow`, of what lies between the processor
and the DMA. Going on from `rxIdx` one meets first what is left of the first packet
(the rest is in the chain, `Chained`), then the other packets that have arrived, then
what has come of the next one, then the DMA and as many descriptors as it has been
given (`Placed`), and each descriptor says which part of which packet it holds
(`Describes`). `WellFormed` says that all parts of a packet but the last fill a buffer,
so the length the driver assumes for them and the one it gets for the last by
subtracting are right. Reading moves `rxIdx` on by one and every packet closer by one
(`ReadDescFlow`), the DMA adds a part (`DmaFillFlow`), building adds a descriptor
behind (`BuildDescFlow`), and with a delivery the first packet goes (`BuildEndFlow`).
That the descriptor at `rxIdx` can be read while a packet waits (`FlowReadable`), and
that the chain given to lwIP is the first packet (`FlowDelivers`), follow. It all ends
when the link goes down: the DMA goes on where it was, and `Placed` is lost.

**Transmission.** What the DMA owns is at most the one descriptor that the call under
way waits for (`OwnedIsAwaited`). That `NoDeadDescriptor` holds does not follow from
itself, since clearing one descriptor helps only if there is no other. `OkMeansRead`
is harder: the DMA may have fetched a descriptor that a timeout then clears, and
write it back when the processor has come round to it, which looks like the end of
another packet. `FetchedKnown` bounds this: each timeout moves the processor on by one
and adds one to the stall, so before the write-back can be taken for another's the
DMA has stood still for the whole ring (`BehindNext`).

**Timers.** `TimersInd` says of each entry that its time and the true time left differ by
whole turns of the counter, that it is no further off than its interval and no later
than the rounds can make it (`EntryHolds`). No two entries are then half a turn apart,
so `TIME_LESS_THAN` compares true times (`Comparison`), wherever the counter stands.
`EnteredKeeps` follows an entry into the list: it stays sorted, and the pool has room,
because the timers in the list and the one that is entered are different ones
(`RoomInPool`, a pigeonhole argument). How late an entry can be depends on where the
loop is (`Late`): nothing expired is left when `sys_check_timeouts` ends, and a round
is at most `MaxRound`. `OverloadIs` and `LinkDueIs` are the other two comparisons.

**Rate meter, hash.** `MeterInv` says that the tick and `psLastDt` differ by
the true time and whole turns of the counter; since the true time stays below half
a turn, a signed difference is that time (`SignedIs`, `DueWhenSecond`). `ShaInv` says
of each byte consumed, or waiting in the chunk, which byte of the padded message it
is (`SoFar`, `PaddedSoFar`), and that what is consumed is whole chunks; so the zeros
written at the close are as many as the standard asks for (`PaddingIs`), and the
length, written as `len << 3`, `len >> 5` and `>> 8`, is the number of bits
(`LengthIsDigits`).

**Checked by TLC only**:

* Liveness, which is out of the prover's reach: `EveryFreshSlotPassed`,
  `EveryWordPutOut`, `ConnectionsEnd`, `ReceptionGoesOn`, and what is liveness of
  `ImplementsQueue` of the ring, `ImplementsPipe` and `ImplementsService`, and
  `PartsGoOn`.
* `MatchesLoop`, because the loop it compares with is recursive, and the properties
  of `BinaryConnection` and `TelnetConnection`, which interpret sequences of bytes by
  folds: what a fold yields on every sequence takes induction over data.
* The two refinements of `Dac`: that its steps are steps of the ring and of the output
  path is how it is composed; what they say beyond this is that either gets the fairness it
  relies on, which is liveness.

## 5. What the code does otherwise than it says

Shown by a run:

* **Half of every packet is dropped** (`dac_ring_frames`, `dac.cpp:124`).
  `shortsCount` is `size / 4`, the number of frames; the loop steps over shorts
  by two and stops at `shortsCount`. For the 16-bit stereo stream that
  `usbd_audio.c:40-43` describes, the second half of each packet is not stored.
* **One missing packet can end the stream** (`usb_audio_missed`,
  `usbd_audio.c:743`). The endpoint is re-armed only when a packet arrives. If
  none comes in a frame the endpoint is armed for, the HAL reports an incomplete
  transfer; the comparison at `stm32h7xx_hal_pcd.c:1461` (bit 16 of a register
  with bit 0 of the frame number) matches in even frames only, and there the
  transfer is aborted and the endpoint disabled. `USBD_AUDIO_IsoOutIncomplete`
  then does nothing, and the device stays deaf until it is configured again. In
  odd frames the endpoint just stays armed.
* **Short packets take the write pointer over the end** (`usb_audio_short`,
  `usbd_audio.c:786`). `DataOut` adds whatever size came and rolls `wr_ptr` back only
  when it equals the size of the buffer. Once a packet shorter than 192 bytes has
  moved it off the packet boundaries, it can pass the end, and a packet is stored
  over `offset`, `rd_enable` and `wr_ptr` itself. `PacketInBuffer` says when
  this cannot be: while every packet since the last roll-back was whole or empty.

In the models, and named by the properties as the exception they make:

* **A telnet protocol command cut by TCP hangs the loop**
  (`telnet_connection.cpp:101-104, 89`). `parseFrame` answers 3 whether or not three
  bytes have come; the remaining length, unsigned, wraps around, and four billion
  bytes are moved. `TelnetServes` shows that nothing else hangs the parser.
* **A full telnet line buffer is deaf for good** (`telnet_connection.cpp:33`), and so
  is a binary connection with **a frame size of 0** at the front of its input
  (`binary_connection.cpp:109`); a size above the buffer's never completes. The
  connections stay open (`DeafWhenFull`, `StuckForGood`).
* **Refused input is acknowledged** (`binary_server.cpp:125`): `tcp_recved`, which is
  for data that was processed (`tcp.c:960-962`), is called for the whole chain whatever
  `input` returned. While frames are at most `INPUT_BUFFER_SIZE - TCP_MSS + 1` = 489
  bytes nothing is ever refused unless the parser is stuck (`AckedIsProcessed`);
  longer frames, joined by TCP across the end of the buffer, lose bytes.
* **Stale output** (`binary_connection.cpp:4`, `telnet_connection.cpp:13`, where
  `streamOut.reset()` is commented out): a new client gets what the last one of its
  slot had not been sent, and its first replies may be cut by it
  (`CutOnlyByLeftovers` allows exactly that).
* **The accept callback ignores its error** (`binary_server.cpp:57-62`): lwIP calls it
  with a null pcb and `ERR_MEM` when it has no pcb left (`tcp_in.c:664-668`), and it
  takes a slot that nothing frees (`SynRefused` in `TcpServers`). The same in the
  telnet server.
* **A link that drops and returns can mix up reception** (`stm32h7xx_hal_eth.c:716-719`):
  `HAL_ETH_Start` gives every descriptor to the DMA, those with unread packets too,
  while `RxDescIdx` stays and the DMA goes on where it stopped. lwIP may then get
  packets that never arrived, with the pool dry even a null buffer, and with a
  pool small against the ring reception stops for good. Hence `PacketsAsReceived`,
  `ReceptionGoesOn` and `NoNullBuffer` hold until the link first goes down; that no
  buffer is lost or shared holds beyond.
* **`low_level_output` always returns `ERR_OK`** (`ethernetif.c:294`, against
  `251-252`), whether or not a descriptor was free or the transmission timed out.

Seen while reading, and in no model:

* **The help promises channels 0 to 8** (`telnet_connection.cpp:149`); `setChannel`
  acts on 8 only (`dac.cpp:201`), and the next tick overwrites what it wrote. Its
  three stores run with interrupts enabled against the timer's to the same bytes
  (`dac.cpp:203-205, 308-310`), so the word put out can be a mixture of two. It is
  called by the two servers alone.
* Smaller ones: `currentDataSize` returns an uninitialised variable on one path;
  `setDirect` runs to 4 over an array of 3 (it is never called); the UDP callback uses
  the payload before it tests the pointer and hashes only the first buffer of a chain
  (`udp_server.cpp:17, 25`); a client that vanishes in silence keeps its slot, since no
  keepalive is set and `callback_poll` does nothing (`binary_server.cpp:156`).

## 6. Assumptions, and what is not modelled

Assumptions about hardware and environment:

* The converters end a word on the rising edge of chip select and take it over on
  LDAC; the DMA serves requests faster than a byte is shifted.
* Handlers other than OTG_FS are short compared with a byte time.
* The longest OTG_FS handler leaves time for a word in a timer period
  (`ScheduleAssumption`). Nothing in the code enforces it.
* The host waits after a resume before it sends (as it must), so the resume
  interrupt is served first. Reset and enumeration-done are one step, and so are
  the three interrupts of an aborted transfer, which follow each other at once.
* Audio packets have at most the 192 bytes the endpoint is armed for
  (`stm32h7xx_ll_usb.c:833-877`), and the handler serves each in its own frame: it reads
  the frame parity for the next arming when it runs.
* A `Stream` has static storage, so its indices start at 0, its constructor leaving
  them alone.
* Control transfers: the device is configured throughout; a SETUP discards packets
  that were armed; when the next SETUP comes the handler has served the last IN
  packet (`Prompt`). With `Prompt` false `StagesAgree` fails, but a host leaves
  milliseconds where the handler takes microseconds. The host always reads all its
  data, and does not ask for data of length 0. `control.len` is at most 64, so an
  OUT data stage of more than one packet is not received (`ControlPipe` says so).
* lwIP: asserts only print (`cc.h:82`); a segment is in order and acknowledges all
  or nothing; `TCP_LISTEN_BACKLOG` is 0, so there is no backlog; the servers never
  close first, so no pcb of theirs is in FIN_WAIT, CLOSING or TIME_WAIT.
* Binary clients send frames of their real size, be it too long for the buffer, or
  of size 0. Sizes from 1 to the header's are not among the inputs; that lengths are
  right is `validateDataSize`'s concern, which is modelled.
* Telnet protocol commands have three bytes. `char` is unsigned on this target, so
  the comparison with 0xFF works.
* Ethernet: no bus errors. A transmitted packet takes one descriptor, as the packets
  do that this program builds (at most two pbufs). lwIP may add to a segment that it
  has to send again (`tcp_out.c:527-529`); with a chain longer than that a timeout
  would clear the last descriptor alone.
* Timers: `Interval + 2 * MaxRound < Word / 2`, that is, no round of the loop takes
  more than twelve days.
* Rate meter: the subtraction of two `int`s wraps as it does on this target.

Not modelled:

* `setChannel` (its callers, the two servers, are not started); what telnet commands
  print, what `consume_chunk` computes, the contents of
  descriptors and of the wave table.
* Endpoint halt; `USBD_AUDIO_Sync`, whose callers (`usbd_audio_if.c:335-353`) nothing
  calls; DMA errors; the speed and duplex set on a link change.
* Of lwIP: sequence numbers, windows, retransmission queues, IP, ARP, UDP.
  `sys_untimeout`, `sys_restart_timeouts` and the sleep time have no caller.
* `Display`: all of it is commented out. The 64-bit tick counter and `ElapsedTimer`:
  nothing increments the one or uses the other.
* USB descriptor tables, the PHY driver, CMSIS, the rest of the vendor drivers and
  start-up code. The vendor's files make up nearly all lines of the repository; what
  of them this program calls is modelled where it decides anything.

## 7. Plan

Done: the audio path with its proofs; the queue under the servers with its proofs;
the control endpoint; the servers from their slots, with a proof, to the bytes of a
frame or a line; the Ethernet rings, timers and hash.

Since then the safety of the output path, the control endpoint, reception (with the
order of the packets), transmission, lwIP's timers, the hash and the rate meter has
been proved.

With this, every safety property the runs check is proved except those of
`BinaryConnection` and `TelnetConnection`, which interpret sequences of bytes by folds
and filters that the prover does not reach without induction over data, and
`MatchesLoop`; they stay with TLC, as liveness does.

## 8. Running it

```
tlc -workers 2 -config MCDacRing.cfg MCDacRing.tla
tlc -workers 2 -config DacOutput.cfg DacOutput.tla
tlc -workers 2 -config MCDac.cfg MCDac.tla
tlc -workers 2 -config MCUsbAudio.cfg MCUsbAudio.tla
tlc -workers 2 -config MCUsbControl.cfg MCUsbControl.tla
tlc -workers 2 -config MCTcpServers.cfg MCTcpServers.tla
tlc -workers 2 -config MCBinaryConnection.cfg MCBinaryConnection.tla
tlc -workers 2 -config EthRx.cfg EthRx.tla
tlc -workers 2 -config MCParts.cfg MCParts.tla
tlapm DacRing_proofs.tla
tlapm DacOutput_proofs.tla
tlapm UsbAudio_proofs.tla
tlapm UsbControl_proofs.tla
tlapm Stream_proofs.tla
tlapm TcpServers_proofs.tla
tlapm EthRx_proofs.tla
tlapm Parts_proofs.tla
```

`MCDacRing_frames.cfg`, `MCUsbAudio_missed.cfg` and `MCUsbAudio_short.cfg` are expected
to report a violation. The runs take from a second to three minutes. `PROJECT.json` lists
components, runs, mutants, findings, hazards and theorems, and maps each definition
to the lines it models.
