------------------------------ MODULE UsbControl ------------------------------
(***************************************************************************)
(* Control transfers on endpoint 0: the stages that usbd_core.c and        *)
(* usbd_ioreq.c keep in ep0_state, the requests as usbd_ctlreq.c and       *)
(* usbd_audio.c answer them, the endpoint as the HAL starts its transfers, *)
(* and the host.                                                           *)
(*                                                                         *)
(* The hardware answers tokens while interrupts wait for the handler; of   *)
(* the flags it finds the handler serves OUT and SETUP before IN, unless   *)
(* they come while it is at work.  The device is configured throughout;    *)
(* UsbAudio has the changes of its state.                                  *)
(***************************************************************************)
EXTENDS Naturals, SequencesExt

CONSTANTS
  Requests,      (* what the host may ask: see MCUsbControl                 *)
  MaxRequests,   (* bound of the model                                      *)
  MaxPacket,     (* USB_MAX_EP0_SIZE                                        *)
  Prompt         (* the handler has run when the next SETUP comes           *)

(* A request with no bytes of data is answered as "set", or not at all. *)
ASSUME UsbControlAssumption ==
  /\ {MaxPacket, MaxRequests} \subseteq Nat \ {0}
  /\ Prompt \in BOOLEAN
  /\ \A r \in Requests :
       /\ r.kind \in {"get", "set", "setCur", "unknown", "ignored"}
       /\ {r.len, r.wLength} \subseteq Nat /\ r.streaming \in BOOLEAN
       /\ r.kind \in {"get", "setCur"} => r.wLength > 0
       /\ r.kind = "set" => r.wLength = 0

Nothing == [number |-> 0, from |-> 0, size |-> 0]

VARIABLES
  stage,                (* the host's: idle, dataIn, dataOut, statusIn, statusOut *)
  number, req,          (* how many requests it has begun, and the last one *)
  got, intact,          (* bytes received; all were the ones to come next   *)
  sent,                 (* bytes sent                                       *)
  result,               (* how the last request ended                       *)
  inEp, packet,         (* IN endpoint: nak, armed with a packet, or stall  *)
  outEp,                (* OUT endpoint: nak, armed or stall                *)
  setupIrq, inIrq, outIrq,      (* STUP, and XFRC of the two                *)
  ep0State,             (* ep0_state                                        *)
  ep0DataLen,           (* ep0_data_len                                     *)
  total, rem, pos,      (* ep_in[0].total_length, rem_length; xfer_buff     *)
  cmd, streaming,       (* control.cmd = SET_CUR, control.unit              *)
  data,                 (* control.data: the number of the request it is of *)
  mutes                 (* history: requests MuteCtl was called for         *)

host == <<stage, number, req, got, intact, sent, result>>
hardware == <<inEp, packet, outEp>>
irqs == <<setupIrq, inIrq, outIrq>>
core == <<ep0State, ep0DataLen, total, rem, pos>>
control == <<cmd, streaming, data, mutes>>
vars == <<host, hardware, irqs, core, control>>

Smaller(a, b) == IF a < b THEN a ELSE b

-----------------------------------------------------------------------------
(* The host and the endpoint.  A SETUP is always taken; it ends stalls, *)
(* and leaves both directions answering NAK.                           *)
HostSetup(r) ==
  /\ stage = "idle"
  /\ number < MaxRequests
  /\ Prompt => ~inIrq
  /\ stage' = CASE r.wLength = 0 -> "statusIn"
                [] r.wLength > 0 /\ r.kind = "setCur" -> "dataOut"
                [] OTHER -> "dataIn"
  /\ number' = number + 1
  /\ req' = r
  /\ got' = 0 /\ intact' = TRUE /\ sent' = 0 /\ result' = "open"
  /\ inEp' = "nak" /\ outEp' = "nak" /\ packet' = Nothing
  /\ setupIrq' = TRUE
  /\ UNCHANGED <<inIrq, outIrq, core, control>>

End(how) == stage' = "idle" /\ result' = how

(* IN tokens of the data stage, until a short packet or all it asked for. *)
HostInData ==
  /\ stage = "dataIn"
  /\ inEp = "armed"
  /\ got' = got + packet.size
  /\ intact' = (intact /\ packet.number = number /\ packet.from = got)
  /\ stage' = IF packet.size < MaxPacket \/ got' >= req.wLength THEN "statusOut" ELSE stage
  /\ inEp' = "nak"
  /\ inIrq' = TRUE
  /\ UNCHANGED <<number, req, sent, result, packet, outEp, setupIrq, outIrq, core, control>>

HostOutData ==
  /\ stage = "dataOut"
  /\ outEp = "armed"
  /\ sent' = Smaller(sent + MaxPacket, req.wLength)
  /\ stage' = IF sent' = req.wLength THEN "statusIn" ELSE stage
  /\ outEp' = "nak"
  /\ outIrq' = TRUE
  /\ UNCHANGED <<number, req, got, intact, result, inEp, packet, setupIrq, inIrq, core, control>>

HostStatusIn ==
  /\ stage = "statusIn"
  /\ inEp = "armed"
  /\ End(IF packet.size = 0 THEN "done" ELSE "broken")
  /\ inEp' = "nak"
  /\ inIrq' = TRUE
  /\ UNCHANGED <<number, req, got, intact, sent, packet, outEp, setupIrq, outIrq, core, control>>

HostStatusOut ==
  /\ stage = "statusOut"
  /\ outEp = "armed"
  /\ End("data")
  /\ outEp' = "nak"
  /\ outIrq' = TRUE
  /\ UNCHANGED <<number, req, got, intact, sent, inEp, packet, setupIrq, inIrq, core, control>>

InStage == stage \in {"dataIn", "statusIn"}
OutStage == stage \in {"dataOut", "statusOut"}

HostSeesStall ==
  /\ \/ InStage /\ inEp = "stall"
     \/ OutStage /\ outEp = "stall"
  /\ End("stalled")
  /\ UNCHANGED <<number, req, got, intact, sent, hardware, irqs, core, control>>

(* After seconds of NAK, when the device has long done all it will do. *)
HostGivesUp ==
  /\ ~setupIrq /\ ~inIrq /\ ~outIrq
  /\ \/ InStage /\ inEp = "nak"
     \/ OutStage /\ outEp = "nak"
  /\ End("none")
  /\ UNCHANGED <<number, req, got, intact, sent, hardware, irqs, core, control>>

(* The request is withdrawn before its data have been sent. *)
HostCancels ==
  /\ stage = "dataOut"
  /\ req.kind = "setCur"
  /\ sent = 0
  /\ End("cancelled")
  /\ UNCHANGED <<number, req, got, intact, sent, hardware, irqs, core, control>>

-----------------------------------------------------------------------------
(* Steps of the handlers. *)
(* USBD_LL_Transmit of what is left of len from position p. *)
Transmit(p, len) ==
  /\ inEp' = "armed"
  /\ packet' = [number |-> number, from |-> p, size |-> Smaller(len, MaxPacket)]
  /\ pos' = p + Smaller(len, MaxPacket)

PrepareReceive == outEp' = "armed"

(* USBD_CtlSendStatus *)
SendStatus ==
  /\ ep0State' = "STATUS_IN"
  /\ Transmit(0, 0)

(* AUDIO_REQ_SetCurrent *)
SetCur ==
  /\ cmd' = TRUE
  /\ streaming' = req.streaming
  /\ ep0State' = "DATA_OUT"
  /\ PrepareReceive
  /\ UNCHANGED <<total, rem, pos, data, mutes, inEp, packet>>

Length == Smaller(req.len, req.wLength)

(* USBD_CtlSendData *)
SendData ==
  /\ ep0State' = "DATA_IN"
  /\ total' = Length
  /\ rem' = Length
  /\ Transmit(0, Length)
  /\ UNCHANGED <<outEp, control>>

(* USBD_CtlError *)
CtlError ==
  /\ ep0State' = "SETUP"
  /\ inEp' = "stall"
  /\ outEp' = "stall"
  /\ UNCHANGED <<packet, total, rem, pos, control>>

(***************************************************************************)
(* USBD_LL_SetupStage.  Some requests are answered in no way: feature      *)
(* selectors that are not known, and what the audio class returns USBD_OK  *)
(* or USBD_FAIL for without a word to the host.                            *)
(***************************************************************************)
SetupStage ==
  /\ setupIrq /\ ~outIrq
  /\ setupIrq' = FALSE
  /\ ep0DataLen' = req.wLength
  /\ \/ req.kind = "get" /\ SendData
     \/ req.kind = "set" /\ SendStatus /\ UNCHANGED <<outEp, total, rem, control>>
     \/ req.kind = "setCur" /\ SetCur
     \/ req.kind = "unknown" /\ CtlError
     \/ /\ req.kind = "ignored"
        /\ ep0State' = "SETUP"
        /\ UNCHANGED <<hardware, total, rem, pos, control>>
  /\ UNCHANGED <<host, inIrq, outIrq>>

(* USBD_AUDIO_EP0_RxReady: data of the request are in control.data. *)
RxReady ==
  /\ data' = number
  /\ IF cmd /\ streaming
       THEN mutes' = Append(mutes, data') /\ cmd' = FALSE
       ELSE UNCHANGED <<mutes, cmd>>
  /\ UNCHANGED streaming

(* mutant: the stage is not asked for *)
DataOutStage_AnyStage ==
  /\ outIrq
  /\ outIrq' = FALSE
  /\ RxReady /\ SendStatus
  /\ UNCHANGED <<host, outEp, setupIrq, inIrq, ep0DataLen, total, rem>>

(* USBD_LL_DataOutStage.  No more than one packet is ever asked for. *)
DataOutStage ==
  /\ outIrq
  /\ outIrq' = FALSE
  /\ IF ep0State = "DATA_OUT"
       THEN RxReady /\ SendStatus
       ELSE UNCHANGED <<control, ep0State, inEp, packet, pos>>
  /\ UNCHANGED <<host, outEp, setupIrq, inIrq, ep0DataLen, total, rem>>

(* mutant: an empty packet follows only data shorter than the endpoint's *)
NeedsZlp_Never == FALSE
NeedsZlp == rem = MaxPacket /\ total >= MaxPacket /\ total < ep0DataLen

(* USBD_LL_DataInStage *)
MoreData ==
  /\ rem > MaxPacket
  /\ rem' = rem - MaxPacket
  /\ Transmit(pos, rem - MaxPacket)
  /\ PrepareReceive
  /\ UNCHANGED <<ep0State, ep0DataLen, total>>

LastIsFull ==
  /\ rem <= MaxPacket
  /\ NeedsZlp
  /\ Transmit(pos, 0)
  /\ ep0DataLen' = 0
  /\ PrepareReceive
  /\ UNCHANGED <<ep0State, total, rem>>

DataSent ==
  /\ rem <= MaxPacket
  /\ ~NeedsZlp
  /\ inEp' = "stall"
  /\ ep0State' = "STATUS_OUT"
  /\ PrepareReceive
  /\ UNCHANGED <<packet, ep0DataLen, total, rem, pos>>

DataInStage ==
  /\ inIrq
  /\ inIrq' = FALSE
  /\ \/ ep0State = "DATA_IN" /\ (MoreData \/ LastIsFull \/ DataSent)
     \/ ep0State # "DATA_IN" /\ UNCHANGED <<hardware, core>>
  /\ UNCHANGED <<host, setupIrq, outIrq, control>>

Init ==
  /\ stage = "idle" /\ number = 0 /\ req \in Requests
  /\ got = 0 /\ intact = TRUE /\ sent = 0 /\ result = "none"
  /\ inEp = "nak" /\ packet = Nothing /\ outEp = "nak"
  /\ setupIrq = FALSE /\ inIrq = FALSE /\ outIrq = FALSE
  /\ ep0State = "SETUP" /\ ep0DataLen = 0 /\ total = 0 /\ rem = 0 /\ pos = 0
  /\ cmd = FALSE /\ streaming = FALSE /\ data = 0 /\ mutes = <<>>

HostStep ==
  \/ HostInData \/ HostOutData \/ HostStatusIn \/ HostStatusOut
  \/ HostSeesStall \/ HostGivesUp

Handler == DataOutStage \/ SetupStage \/ DataInStage

Next == (\E r \in Requests : HostSetup(r)) \/ HostCancels \/ HostStep \/ Handler

(* The host goes on with a request it has begun; the interrupt is served. *)
Spec == Init /\ [][Next]_vars /\ WF_vars(HostStep) /\ WF_vars(Handler)

-----------------------------------------------------------------------------
TypeOK ==
  /\ stage \in {"idle", "dataIn", "dataOut", "statusIn", "statusOut"}
  /\ number \in 0..MaxRequests /\ req \in Requests
  /\ result \in {"open", "data", "done", "stalled", "none", "cancelled", "broken"}
  /\ {inEp, outEp} \subseteq {"nak", "armed", "stall"}
  /\ {setupIrq, inIrq, outIrq, intact, cmd, streaming} \subseteq BOOLEAN
  /\ ep0State \in {"SETUP", "DATA_IN", "DATA_OUT", "STATUS_IN", "STATUS_OUT"}
  /\ rem <= total /\ pos <= total /\ packet.size <= MaxPacket
  /\ got <= req.wLength /\ sent <= req.wLength

(***************************************************************************)
(* The device is never in the status stage while the host still waits for  *)
(* data, nor in the data stage when the host waits for its status: they    *)
(* agree on where the data end, at every length asked for and available.   *)
(***************************************************************************)
StagesAgree ==
  ~setupIrq /\ ~inIrq /\ ~outIrq =>
    /\ ep0State = "STATUS_OUT" => stage \in {"statusOut", "idle"}
    /\ stage = "statusOut" => ep0State = "STATUS_OUT"

(* What the states of the model satisfy, as one invariant to check. *)
ControlInvariant == TypeOK /\ StagesAgree

(***************************************************************************)
(* The pipe is what a host may expect: every request ends, in a way that   *)
(* fits it, its data whole and its own, and a mute is carried out once.    *)
(***************************************************************************)
Outcome ==
  IF result = "data" /\ ~(intact /\ got = Smaller(req.len, req.wLength)) THEN "broken" ELSE result

Pipe == INSTANCE ControlPipe WITH outcome <- Outcome
ImplementsPipe == Pipe!Spec
=============================================================================
