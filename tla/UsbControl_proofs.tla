-------------------------- MODULE UsbControl_proofs --------------------------
(***************************************************************************)
(* Whatever the requests and the size of a packet: when the handler has    *)
(* run before the next SETUP, device and host agree on where the data end, *)
(* and each step of theirs is one that ControlPipe allows.                 *)
(*                                                                         *)
(* The invariant says in which of eight phases a request is, and what the  *)
(* two endpoints, the stage of the host and ep0_state are in each.         *)
(***************************************************************************)
EXTENDS UsbControl, TLAPS

FirstStage ==
  IF req.wLength = 0 THEN "statusIn" ELSE IF req.kind = "setCur" THEN "dataOut" ELSE "dataIn"

Flags ==
  /\ setupIrq \in BOOLEAN /\ inIrq \in BOOLEAN /\ outIrq \in BOOLEAN
  /\ intact \in BOOLEAN /\ cmd \in BOOLEAN /\ streaming \in BOOLEAN

Typed ==
  /\ Flags
  /\ stage \in {"idle", "dataIn", "dataOut", "statusIn", "statusOut"}
  /\ number \in 0 .. MaxRequests /\ req \in Requests
  /\ result \in {"open", "data", "done", "stalled", "none", "cancelled"}
  /\ inEp \in {"nak", "armed", "stall"} /\ outEp \in {"nak", "armed", "stall"}
  /\ ep0State \in {"SETUP", "DATA_IN", "DATA_OUT", "STATUS_IN", "STATUS_OUT"}
  /\ packet \in [number : Nat, from : Nat, size : 0 .. MaxPacket]
  /\ got \in 0 .. req.wLength /\ sent \in 0 .. req.wLength
  /\ ep0DataLen \in Nat /\ total \in Nat /\ rem \in 0 .. total /\ pos \in 0 .. total
  /\ mutes \in Seq(Nat)

(* USBD_LL_SetupStage is still to come; the completion before it may be, too. *)
Asked ==
  /\ setupIrq /\ ~inIrq
  /\ inEp = "nak" /\ outEp = "nak"
  /\ stage = FirstStage \/ (stage = "idle" /\ req.kind = "setCur")
  /\ got = 0 /\ intact /\ sent = 0
  /\ outIrq => ep0State # "DATA_OUT"
  /\ number > 0

Unanswered ==
  /\ ~setupIrq /\ ~inIrq /\ ~outIrq
  /\ ep0State = "SETUP"
  /\ inEp = "nak" /\ outEp = "nak"
  /\ \/ req.kind = "ignored" /\ stage \in {FirstStage, "idle"}
     \/ number = 0 /\ stage = "idle"

Refused ==
  /\ req.kind = "unknown"
  /\ ~setupIrq /\ ~inIrq /\ ~outIrq
  /\ ep0State = "SETUP"
  /\ inEp = "stall" /\ outEp = "stall"
  /\ stage \in {FirstStage, "idle"}

(* At most one packet of the data is taken. *)
Taken == Smaller(MaxPacket, req.wLength)

Receiving ==
  /\ req.kind = "setCur"
  /\ ~setupIrq /\ ~inIrq
  /\ ep0State = "DATA_OUT" /\ cmd /\ streaming = req.streaming
  /\ inEp = "nak"
  /\ \/ ~outIrq /\ outEp = "armed" /\ sent = 0 /\ stage \in {"dataOut", "idle"}
     \/ /\ outIrq /\ outEp = "nak" /\ sent = Taken
        /\ stage = IF sent = req.wLength THEN "statusIn" ELSE "dataOut"

Acknowledged ==
  /\ req.kind = "set" \/ (req.kind = "setCur" /\ sent = Taken)
  /\ ~setupIrq /\ ~outIrq
  /\ ep0State = "STATUS_IN"
  /\ outEp = "nak"
  /\ \/ /\ inEp = "armed" /\ ~inIrq /\ packet.size = 0
        /\ IF req.wLength <= MaxPacket THEN stage = "statusIn" ELSE stage \in {"dataOut", "idle"}
     \/ inEp = "nak" /\ stage = "idle"

Answering ==
  /\ req.kind = "get"
  /\ ~setupIrq
  /\ ep0State = "DATA_IN"
  /\ total = Length /\ intact

(* A packet waits for the host: part of the data, or the empty one after them. *)
PacketReady ==
  /\ Answering
  /\ ~inIrq /\ ~outIrq
  /\ inEp = "armed" /\ outEp \in {"nak", "armed"}
  /\ stage = "dataIn"
  /\ packet.number = number /\ packet.from = got /\ pos = got + packet.size
  /\ \/ ep0DataLen = req.wLength /\ packet.size = Smaller(rem, MaxPacket) /\ got + rem = total
     \/ ep0DataLen = 0 /\ packet.size = 0 /\ got = total /\ rem <= MaxPacket

(* The host has it, and USBD_LL_DataInStage is still to come. *)
PacketTaken ==
  /\ Answering
  /\ inIrq /\ inEp = "nak" /\ outEp \in {"nak", "armed"}
  /\ pos = got
  /\ outIrq => stage = "idle"
  /\ stage = "idle" => outEp = "nak"
  /\ \/ /\ ep0DataLen = req.wLength
        /\ got + rem = total + Smaller(rem, MaxPacket)
        /\ IF rem >= MaxPacket /\ got < req.wLength
             THEN stage = "dataIn" ELSE stage \in {"statusOut", "idle"}
     \/ /\ ep0DataLen = 0 /\ got = total /\ rem <= MaxPacket
        /\ stage \in {"statusOut", "idle"}

Answered ==
  /\ req.kind = "get"
  /\ ~setupIrq /\ ~inIrq
  /\ ep0State = "STATUS_OUT"
  /\ got = Length /\ intact
  /\ inEp = "stall"
  /\ \/ stage = "statusOut" /\ outEp = "armed" /\ ~outIrq
     \/ stage = "idle" /\ outEp \in {"nak", "armed"}

Phase ==
  \/ Asked \/ Unanswered \/ Refused \/ Receiving \/ Acknowledged
  \/ PacketReady \/ PacketTaken \/ Answered

(* A request is open until the host ends it; data it reports are whole. *)
Results ==
  /\ stage # "idle" <=> result = "open"
  /\ number = 0 => stage = "idle"
  /\ result = "data" => intact /\ got = Length

(* A mute has been carried out when and only when its data are acknowledged. *)
Once ==
  /\ \A i \in DOMAIN mutes : mutes[i] <= number
  /\ Pipe!Applied <=> ~setupIrq /\ Pipe!Mutes(req) /\ ep0State = "STATUS_IN"
  /\ number = 0 => mutes = <<>>

Ind == Typed /\ Phase /\ Results /\ Once

-----------------------------------------------------------------------------
LEMMA RequestFacts ==
  ASSUME NEW r \in Requests
  PROVE  /\ r.kind \in {"get", "set", "setCur", "unknown", "ignored"}
         /\ r.len \in Nat /\ r.wLength \in Nat /\ r.streaming \in BOOLEAN
         /\ r.kind \in {"get", "setCur"} => r.wLength > 0
         /\ r.kind = "set" => r.wLength = 0
         /\ MaxPacket \in Nat /\ MaxPacket > 0 /\ MaxRequests \in Nat
BY UsbControlAssumption

LEMMA SmallerOf ==
  ASSUME NEW a \in Nat, NEW b \in Nat
  PROVE  /\ Smaller(a, b) \in Nat /\ Smaller(a, b) <= a /\ Smaller(a, b) <= b
         /\ Smaller(a, b) = a \/ Smaller(a, b) = b
BY DEF Smaller

(* The invariant says what the properties ask for. *)
LEMMA InvControls == Ind => ControlInvariant
<1> SUFFICES ASSUME Ind PROVE ControlInvariant
  OBVIOUS
<1> USE DEF Ind, Typed
<1>1. req \in Requests /\ MaxPacket \in Nat
  BY RequestFacts
<1>2. TypeOK
  BY <1>1, RequestFacts DEF TypeOK, Flags
<1>3. StagesAgree
  BY <1>1, RequestFacts DEF StagesAgree, Phase, Asked, Unanswered, Refused, Receiving, Acknowledged,
    PacketReady, PacketTaken, Answering, Answered, FirstStage
<1> QED BY <1>2, <1>3 DEF ControlInvariant

LEMMA InitInv == Init => Ind
<1> SUFFICES ASSUME Init PROVE Ind
  OBVIOUS
<1> USE DEF Init
<1>1. req \in Requests /\ req.wLength \in Nat /\ MaxPacket \in Nat /\ MaxRequests \in Nat
  BY RequestFacts
<1>2. Nothing \in [number : Nat, from : Nat, size : 0 .. MaxPacket]
  BY <1>1 DEF Nothing
<1>3. mutes \in Seq(Nat) /\ DOMAIN mutes = {}
  OBVIOUS
<1>4. Typed
  <2>1. got \in 0 .. req.wLength /\ sent \in 0 .. req.wLength /\ number \in 0 .. MaxRequests
    BY <1>1
  <2>2. rem \in 0 .. total /\ pos \in 0 .. total
    OBVIOUS
  <2> QED BY <1>1, <1>2, <1>3, <2>1, <2>2 DEF Typed, Flags
<1>5. Phase /\ Results
  BY DEF Phase, Unanswered, Results
<1>6. ~Pipe!Applied
  BY <1>3 DEF Pipe!Applied, Pipe!ToSet
<1>7. Once
  BY <1>3, <1>6 DEF Once
<1> QED BY <1>4, <1>5, <1>7 DEF Ind

(* What the history says is left as it is by a step that changes neither *)
(* the mutes nor what tells whether the request's own is among them.     *)
LEMMA OnceKept ==
  ASSUME Once, number' = number, req' = req, mutes' = mutes,
         setupIrq' = setupIrq, ep0State' = ep0State
  PROVE  Once'
BY DEF Once, Pipe!Applied, Pipe!Mutes

LEMMA OnceOfOthers ==
  ASSUME Once, number' = number, req' = req, mutes' = mutes,
         setupIrq \/ ~Pipe!Mutes(req) \/ ep0State # "STATUS_IN",
         setupIrq' \/ ~Pipe!Mutes(req) \/ ep0State' # "STATUS_IN"
  PROVE  Once'
BY DEF Once, Pipe!Applied, Pipe!Mutes

-----------------------------------------------------------------------------
(* The steps of the host. *)
LEMMA SetupKeepsInv == ASSUME Prompt, Ind, NEW r \in Requests, HostSetup(r) PROVE Ind'
<1> USE DEF Ind, HostSetup
<1>1. /\ r.wLength \in Nat /\ MaxPacket \in Nat /\ MaxRequests \in Nat
      /\ r.kind \in {"get", "set", "setCur", "unknown", "ignored"}
      /\ r.kind = "setCur" => r.wLength > 0
  BY RequestFacts
<1>2. ~inIrq /\ stage = "idle"
  OBVIOUS
<1>3. stage' = FirstStage'
  BY <1>1 DEF FirstStage
<1>4. Nothing \in [number : Nat, from : Nat, size : 0 .. MaxPacket]
  BY <1>1 DEF Nothing
<1>5. number' \in 0 .. MaxRequests /\ number' = number + 1 /\ number \in Nat
  BY <1>1 DEF Typed
<1>6. Typed'
  <2>1. stage' \in {"dataIn", "dataOut", "statusIn"}
    BY <1>1, <1>3 DEF FirstStage
  <2>2. Flags'
    BY DEF Typed, Flags, core, control
  <2>3. /\ req' \in Requests /\ req'.wLength \in Nat /\ got' = 0 /\ sent' = 0
        /\ packet' \in [number : Nat, from : Nat, size : 0 .. MaxPacket]
    BY <1>1, <1>4 DEF Typed
  <2>4. /\ result' \in {"open", "data", "done", "stalled", "none", "cancelled"}
        /\ inEp' \in {"nak", "armed", "stall"} /\ outEp' \in {"nak", "armed", "stall"}
    BY DEF Typed
  <2>5. /\ ep0State' \in {"SETUP", "DATA_IN", "DATA_OUT", "STATUS_IN", "STATUS_OUT"}
        /\ ep0DataLen' \in Nat /\ total' \in Nat /\ rem' \in 0 .. total' /\ pos' \in 0 .. total'
        /\ mutes' \in Seq(Nat)
    BY DEF Typed, core, control
  <2> HIDE DEF Ind, HostSetup
  <2> QED BY <1>5, <2>1, <2>2, <2>3, <2>4, <2>5 DEF Typed
<1>7. outIrq' => ep0State' # "DATA_OUT"
  BY <1>2 DEF core, Phase, Asked, Unanswered, Refused, Receiving, Acknowledged, FirstStage,
    PacketReady, PacketTaken, Answering, Answered
<1>8. Asked'
  BY <1>2, <1>3, <1>5, <1>7 DEF Asked, Typed
<1>9. Results'
  BY <1>3, <1>5, <1>8 DEF Results, FirstStage
<1>10. Once'
  <2>1. \A i \in DOMAIN mutes : mutes[i] \in Nat /\ mutes[i] <= number
    BY DEF Once, Typed
  <2>2. \A i \in DOMAIN mutes : mutes[i] <= number + 1 /\ mutes[i] # number + 1
    BY <1>5, <2>1
  <2>3. ~Pipe!Applied'
    BY <1>5, <2>2 DEF Pipe!Applied, Pipe!ToSet, control
  <2> QED BY <1>5, <2>2, <2>3 DEF Once, control
<1> QED BY <1>6, <1>8, <1>9, <1>10 DEF Phase

LEMMA InDataKeepsInv == ASSUME Ind, HostInData PROVE Ind'
<1> USE DEF Ind, HostInData
<1>1. /\ req.wLength \in Nat /\ req.len \in Nat /\ MaxPacket \in Nat /\ MaxPacket > 0
  BY RequestFacts DEF Typed
<1>2. PacketReady
  BY DEF Phase, Asked, Unanswered, Refused, Receiving, Acknowledged, PacketTaken, Answered
<1>3. Length \in Nat /\ Length <= req.wLength
  BY <1>1, SmallerOf DEF Length
<1>4. got + packet.size <= total /\ got' = got + packet.size
  BY <1>1, <1>2, SmallerOf DEF PacketReady, Typed
<1>5. Typed'
  BY <1>1, <1>2, <1>3, <1>4 DEF Typed, Flags, core, control, PacketReady, Answering
<1>6. PacketTaken'
  <2>1. pos' = got' /\ stage' \in {"dataIn", "statusOut"}
    BY <1>2, <1>4 DEF PacketReady, core
  <2>2. intact' = TRUE
    BY <1>2 DEF PacketReady, Answering
  <2>3. Answering'
    BY <1>2, <2>1, <2>2 DEF PacketReady, Answering, Length, core
  <2>4. CASE ep0DataLen = req.wLength /\ packet.size = Smaller(rem, MaxPacket) /\ got + rem = total
    <3>1. got' + rem' = total' + Smaller(rem', MaxPacket)
      <4>1. rem \in Nat /\ total \in Nat /\ got \in Nat /\ rem' = rem /\ total' = total
        BY <1>1 DEF Typed, core
      <4>2. got' = got + Smaller(rem, MaxPacket) /\ Smaller(rem, MaxPacket) \in Nat
        BY <1>1, <1>4, <2>4, <4>1, SmallerOf
      <4> QED BY <2>4, <4>1, <4>2
    <3>2. packet.size < MaxPacket <=> ~(rem >= MaxPacket)
      BY <1>1, <2>4 DEF Typed, Smaller
    <3>3. IF rem' >= MaxPacket /\ got' < req.wLength
            THEN stage' = "dataIn" ELSE stage' \in {"statusOut", "idle"}
      BY <1>1, <1>4, <3>2 DEF Typed, core
    <3> QED BY <1>2, <2>1, <2>3, <2>4, <3>1, <3>3 DEF PacketReady, PacketTaken, core
  <2>5. CASE ep0DataLen = 0 /\ packet.size = 0 /\ got = total /\ rem <= MaxPacket
    BY <1>1, <1>2, <1>4, <2>1, <2>3, <2>5 DEF PacketReady, PacketTaken, Typed, core
  <2> QED BY <1>2, <2>4, <2>5 DEF PacketReady
<1>7. Results'
  BY DEF Results
<1>8. Once'
  BY OnceKept DEF core, control
<1> QED BY <1>5, <1>6, <1>7, <1>8 DEF Phase

LEMMA OutDataKeepsInv == ASSUME Ind, HostOutData PROVE Ind'
<1> USE DEF Ind, HostOutData
<1>1. /\ req.wLength \in Nat /\ MaxPacket \in Nat /\ MaxPacket > 0
  BY RequestFacts DEF Typed
<1>2. Receiving /\ ~outIrq /\ sent = 0
  BY DEF Phase, Asked, Unanswered, Refused, Receiving, Acknowledged, PacketReady, PacketTaken,
    Answered
<1>3. sent' = Taken /\ sent' \in 0 .. req.wLength
  BY <1>1, <1>2 DEF Taken, Smaller
<1>4. Typed'
  BY <1>3 DEF Typed, Flags, core, control
<1>5. Receiving'
  BY <1>2, <1>3 DEF Receiving, Taken, core, control
<1>6. Results'
  BY DEF Results, Length
<1>7. Once'
  BY OnceKept DEF core, control
<1> QED BY <1>4, <1>5, <1>6, <1>7 DEF Phase

LEMMA StatusInKeepsInv == ASSUME Ind, HostStatusIn PROVE Ind'
<1> USE DEF Ind, HostStatusIn, End
<1>1. Acknowledged /\ packet.size = 0
  BY DEF Phase, Asked, Unanswered, Refused, Receiving, Acknowledged, PacketReady, PacketTaken,
    Answered
<1>2. Typed'
  BY <1>1 DEF Typed, Flags, core, control
<1>3. Acknowledged'
  BY <1>1 DEF Acknowledged, Taken, core
<1>4. Results'
  BY <1>1 DEF Results
<1>5. Once'
  BY OnceKept DEF core, control
<1> QED BY <1>2, <1>3, <1>4, <1>5 DEF Phase

LEMMA StatusOutKeepsInv == ASSUME Ind, HostStatusOut PROVE Ind'
<1> USE DEF Ind, HostStatusOut, End
<1>1. /\ req.wLength \in Nat /\ req.len \in Nat /\ MaxPacket \in Nat /\ MaxPacket > 0
  BY RequestFacts DEF Typed
<1>2. PacketTaken \/ Answered
  BY DEF Phase, Asked, Unanswered, Refused, Receiving, Acknowledged, PacketReady, Answered
<1>3. got = Length /\ intact
  BY <1>1, <1>2 DEF PacketTaken, Answering, Answered, Typed, Length, Smaller
<1>4. Typed'
  BY DEF Typed, Flags, core, control
<1>5. PacketTaken' \/ Answered'
  BY <1>2 DEF PacketTaken, Answering, Answered, Length, core
<1>6. Results'
  BY <1>3 DEF Results, Length
<1>7. Once'
  BY OnceKept DEF core, control
<1> QED BY <1>4, <1>5, <1>6, <1>7 DEF Phase

(* The host ends a request without a token the device answers. *)
LEMMA EndingKeepsInv ==
  ASSUME Ind, stage # "idle", NEW how \in {"stalled", "none", "cancelled"}, End(how),
         UNCHANGED <<number, req, got, intact, sent, hardware, irqs, core, control>>,
         \/ (Asked \/ Receiving) /\ req.kind = "setCur" /\ stage = "dataOut" /\ sent = 0
         \/ Unanswered \/ Refused
         \/ Acknowledged /\ stage = "dataOut"
  PROVE  Ind'
<1> USE DEF Ind, End
<1>1. Typed'
  BY DEF Typed, Flags, hardware, irqs, core, control
<1>2. Phase'
  BY RequestFacts DEF Typed, Phase, Asked, Unanswered, Refused, Receiving, Acknowledged, Taken, Smaller, FirstStage,
    hardware, irqs, core, control
<1>3. Results'
  BY DEF Results
<1>4. Once'
  BY OnceKept DEF irqs, core, control
<1> QED BY <1>1, <1>2, <1>3, <1>4

LEMMA SeesStallKeepsInv == ASSUME Ind, HostSeesStall PROVE Ind'
<1>1. Refused /\ stage # "idle"
  BY DEF Ind, HostSeesStall, InStage, OutStage, Phase, Asked, Unanswered, Receiving, Acknowledged,
    PacketReady, PacketTaken, Answered
<1> QED BY <1>1, EndingKeepsInv DEF HostSeesStall

LEMMA GivesUpKeepsInv == ASSUME Ind, HostGivesUp PROVE Ind'
<1>1. Unanswered \/ (Acknowledged /\ stage = "dataOut")
  BY DEF Ind, HostGivesUp, InStage, OutStage, Phase, Asked, Refused, Receiving, Acknowledged,
    PacketReady, PacketTaken, Answered
<1>2. stage # "idle"
  BY DEF HostGivesUp, InStage, OutStage
<1> QED BY <1>1, <1>2, EndingKeepsInv DEF HostGivesUp

LEMMA CancelsKeepsInv == ASSUME Ind, HostCancels PROVE Ind'
<1>1. Asked \/ Receiving \/ Unanswered \/ Refused \/ Acknowledged
  BY DEF Ind, HostCancels, Phase, PacketReady, PacketTaken, Answering, Answered
<1> QED BY <1>1, EndingKeepsInv DEF HostCancels

-----------------------------------------------------------------------------
(* The steps of the handler. *)
LEMMA SetupStageKeepsInv == ASSUME Ind, SetupStage PROVE Ind'
<1> USE DEF Ind, SetupStage
<1>1. /\ req.wLength \in Nat /\ req.len \in Nat /\ MaxPacket \in Nat /\ MaxPacket > 0
      /\ req.kind \in {"get", "set", "setCur", "unknown", "ignored"} /\ req.streaming \in BOOLEAN
      /\ req.kind \in {"get", "setCur"} => req.wLength > 0
      /\ req.kind = "set" => req.wLength = 0
  BY RequestFacts DEF Typed
<1>2. Asked /\ ~outIrq
  BY DEF Phase, Unanswered, Refused, Receiving, Acknowledged, PacketReady, PacketTaken, Answering,
    Answered
<1>3. UNCHANGED <<stage, number, req, got, intact, sent, result, inIrq, outIrq>>
  BY DEF host
<1>4. Results'
  BY <1>3 DEF Results, Length
<1>5. Length \in Nat /\ Length <= req.wLength
  BY <1>1, SmallerOf DEF Length
<1>6. Smaller(0, MaxPacket) = 0 /\ Smaller(Length, MaxPacket) \in 0 .. MaxPacket
      /\ Smaller(Length, MaxPacket) <= Length
  BY <1>1, <1>5, SmallerOf DEF Smaller
<1>7. CASE req.kind = "get" /\ SendData
  <2>1. packet' \in [number : Nat, from : Nat, size : 0 .. MaxPacket]
    BY <1>1, <1>6, <1>7 DEF SendData, Transmit, Typed
  <2>2. Flags'
    BY <1>3, <1>7, Zenon DEF Typed, Flags, SendData, control
  <2>3. total' \in Nat /\ rem' \in 0 .. total' /\ pos' \in 0 .. total'
    BY <1>5, <1>6, <1>7 DEF SendData, Transmit
  <2>4. Typed'
    BY <1>1, <1>3, <1>7, <2>1, <2>2, <2>3 DEF Typed, SendData, Transmit, control
  <2>5. stage' = "dataIn"
    BY <1>1, <1>2, <1>3, <1>7 DEF Asked, FirstStage
  <2>6. Answering'
    BY <1>2, <1>3, <1>7 DEF Asked, Answering, SendData, Length
  <2>7. packet'.number = number' /\ packet'.from = 0 /\ packet'.size = Smaller(Length, MaxPacket)
    BY <1>3, <1>7 DEF SendData, Transmit
  <2>8. PacketReady'
    BY <1>1, <1>2, <1>3, <1>5, <1>6, <1>7, <2>5, <2>6, <2>7 DEF Asked, PacketReady, SendData, Transmit
  <2>9. Once'
    BY <1>2, <1>3, <1>7, OnceOfOthers DEF Asked, SendData, Pipe!Mutes, control
  <2> QED BY <1>4, <2>4, <2>8, <2>9 DEF Phase
<1>8. CASE req.kind = "set" /\ SendStatus /\ UNCHANGED <<outEp, total, rem, control>>
  <2>1. packet' \in [number : Nat, from : Nat, size : 0 .. MaxPacket] /\ packet'.size = 0
    BY <1>1, <1>6, <1>8 DEF SendStatus, Transmit, Typed
  <2>2. pos' = 0
    BY <1>6, <1>8 DEF SendStatus, Transmit
  <2>3. Flags'
    <3>1. cmd' = cmd /\ streaming' = streaming
      BY <1>8 DEF control
    <3> QED BY <1>3, <3>1, Zenon DEF Typed, Flags
  <2>4. Typed'
    <3>1. /\ outEp' = outEp /\ total' = total /\ rem' = rem /\ mutes' = mutes
          /\ inEp' = "armed" /\ ep0State' = "STATUS_IN" /\ ep0DataLen' = req.wLength
      BY <1>8 DEF SendStatus, Transmit, control
    <3> QED BY <1>1, <1>3, <2>1, <2>2, <2>3, <3>1 DEF Typed
  <2>5. stage' = "statusIn"
    BY <1>1, <1>2, <1>3, <1>8 DEF Asked, FirstStage
  <2>6. Acknowledged'
    BY <1>1, <1>2, <1>3, <1>8, <2>1, <2>5 DEF Asked, Acknowledged, SendStatus, Transmit
  <2>7. Once'
    BY <1>2, <1>3, <1>8, OnceOfOthers DEF Asked, Pipe!Mutes, control
  <2> QED BY <1>4, <2>4, <2>6, <2>7 DEF Phase
<1>9. CASE req.kind = "setCur" /\ SetCur
  <2>1. Flags'
    BY <1>1, <1>3, <1>9, Zenon DEF Typed, Flags, SetCur
  <2>2. Typed'
    BY <1>1, <1>3, <1>9, <2>1 DEF Typed, SetCur, PrepareReceive
  <2>3. stage' \in {"dataOut", "idle"}
    BY <1>1, <1>2, <1>3, <1>9 DEF Asked, FirstStage
  <2>4. Receiving'
    BY <1>2, <1>3, <1>9, <2>3 DEF Asked, Receiving, SetCur, PrepareReceive
  <2>5. Once'
    BY <1>2, <1>3, <1>9, OnceOfOthers DEF Asked, SetCur
  <2> QED BY <1>4, <2>2, <2>4, <2>5 DEF Phase
<1>10. CASE req.kind = "unknown" /\ CtlError
  <2>1. Typed'
    BY <1>1, <1>3, <1>10 DEF Typed, Flags, CtlError, control
  <2>2. Refused'
    BY <1>2, <1>3, <1>10 DEF Asked, Refused, CtlError, FirstStage
  <2>3. Once'
    BY <1>2, <1>3, <1>10, OnceOfOthers DEF Asked, CtlError, control
  <2> QED BY <1>4, <2>1, <2>2, <2>3 DEF Phase
<1>11. CASE /\ req.kind = "ignored"
            /\ ep0State' = "SETUP"
            /\ UNCHANGED <<hardware, total, rem, pos, control>>
  <2>1. Typed'
    <3>1. Flags'
      BY <1>3, <1>11, Zenon DEF Typed, Flags, control
    <3> QED BY <1>1, <1>3, <1>11, <3>1 DEF Typed, hardware, control
  <2>2. Unanswered'
    BY <1>2, <1>3, <1>11 DEF Asked, Unanswered, FirstStage, hardware
  <2>3. Once'
    BY <1>2, <1>3, <1>11, OnceOfOthers DEF Asked, control
  <2> QED BY <1>4, <2>1, <2>2, <2>3 DEF Phase
<1> QED BY <1>7, <1>8, <1>9, <1>10, <1>11

(* Data of a request that asks for a mute: it is the first time. *)
LEMMA DataOutStageKeepsInv == ASSUME Ind, DataOutStage PROVE Ind'
<1> USE DEF Ind, DataOutStage
<1>1. /\ req.wLength \in Nat /\ req.len \in Nat /\ MaxPacket \in Nat /\ MaxPacket > 0
      /\ req.kind \in {"get", "set", "setCur", "unknown", "ignored"}
  BY RequestFacts DEF Typed
<1>2. UNCHANGED <<stage, number, req, got, intact, sent, result, outEp, setupIrq, inIrq,
                  ep0DataLen, total, rem>>
  BY DEF host
<1>3. Results'
  BY <1>2 DEF Results, Length
<1>4. CASE ep0State = "DATA_OUT"
  <2> USE <1>4
  <2>1. Receiving
    BY DEF Phase, Asked, Unanswered, Refused, Acknowledged, PacketReady, PacketTaken, Answering, Answered
  <2>2. Smaller(0, MaxPacket) = 0
    BY <1>1 DEF Smaller
  <2>3. packet' \in [number : Nat, from : Nat, size : 0 .. MaxPacket] /\ packet'.size = 0
        /\ pos' = 0 /\ inEp' = "armed" /\ ep0State' = "STATUS_IN"
    BY <1>1, <2>2 DEF SendStatus, Transmit, Typed
  <2>4. data' = number /\ number \in Nat
    BY DEF RxReady, Typed
  <2>5. mutes' \in Seq(Nat)
    <3>1. mutes' = mutes \/ mutes' = Append(mutes, number)
      BY <2>4 DEF RxReady
    <3>2. mutes \in Seq(Nat)
      BY DEF Typed
    <3> QED BY <2>4, <3>1, <3>2
  <2>6. Flags'
    <3>1. cmd' \in BOOLEAN
      BY DEF RxReady, Typed, Flags
    <3> QED BY <1>2, <3>1, Zenon DEF RxReady, Typed, Flags
  <2>7. Typed'
    BY <1>1, <1>2, <2>3, <2>5, <2>6 DEF Typed
  <2>8. Acknowledged'
    BY <1>1, <1>2, <2>1, <2>3 DEF Receiving, Acknowledged, Taken, Smaller
  <2>9. Once'
    <3>1. CASE req.streaming
      <4>1. mutes' = Append(mutes, number)
        BY <2>1, <2>4, <3>1 DEF Receiving, RxReady
      <4>2. /\ DOMAIN mutes' = 1 .. Len(mutes) + 1 /\ mutes'[Len(mutes) + 1] = number
            /\ \A i \in DOMAIN mutes : mutes'[i] = mutes[i]
            /\ DOMAIN mutes = 1 .. Len(mutes) /\ Len(mutes) \in Nat
        BY <2>4, <4>1 DEF Typed
      <4>3. Pipe!Applied'
        BY <1>2, <4>2 DEF Pipe!Applied, Pipe!ToSet
      <4>4. Pipe!Mutes(req)' /\ ~setupIrq' /\ number' # 0
        BY <1>2, <2>1, <3>1 DEF Receiving, Pipe!Mutes, Results
      <4>5. \A i \in DOMAIN mutes' : mutes'[i] <= number'
        BY <1>2, <2>4, <4>2 DEF Once
      <4> QED BY <2>3, <4>3, <4>4, <4>5 DEF Once
    <3>2. CASE ~req.streaming
      <4>1. mutes' = mutes
        BY <2>1, <3>2 DEF Receiving, RxReady
      <4> QED BY <1>2, <3>2, <4>1, OnceOfOthers DEF Pipe!Mutes
    <3> QED BY <3>1, <3>2
  <2> QED BY <1>3, <2>7, <2>8, <2>9 DEF Phase
<1>5. CASE ep0State # "DATA_OUT"
  <2>1. UNCHANGED <<cmd, streaming, data, mutes, ep0State, inEp, packet, pos>>
    BY <1>5 DEF control
  <2>2. Flags'
    BY <1>2, <2>1, Zenon DEF Typed, Flags
  <2>3. Typed'
    BY <1>2, <2>1, <2>2 DEF Typed
  <2>4. Asked \/ PacketTaken \/ Answered
    BY <1>5 DEF Phase, Unanswered, Refused, Receiving, Acknowledged, PacketReady
  <2>5. Asked' \/ PacketTaken' \/ Answered'
    BY <1>2, <2>1, <2>4 DEF Asked, FirstStage, PacketTaken, Answering, Answered, Length
  <2>6. Once'
    BY <1>2, <2>1, OnceKept
  <2> QED BY <1>3, <2>3, <2>5, <2>6 DEF Phase
<1> QED BY <1>4, <1>5

LEMMA DataInStageKeepsInv == ASSUME Ind, DataInStage PROVE Ind'
<1> USE DEF Ind, DataInStage
<1>1. /\ req.wLength \in Nat /\ req.len \in Nat /\ MaxPacket \in Nat /\ MaxPacket > 0
  BY RequestFacts DEF Typed
<1>2. UNCHANGED <<stage, number, req, got, intact, sent, result, setupIrq, outIrq,
                  cmd, streaming, data, mutes>>
  BY DEF host, control
<1>3. Results'
  BY <1>2 DEF Results, Length
<1>4. Flags'
  BY <1>2, Zenon DEF Typed, Flags
<1>5. CASE ep0State = "DATA_IN" /\ (MoreData \/ LastIsFull \/ DataSent)
  <2>1. PacketTaken
    BY <1>5 DEF Phase, Asked, Unanswered, Refused, Receiving, Acknowledged, PacketReady, Answered
  <2>2. Length \in Nat /\ Length <= req.wLength
    BY <1>1, SmallerOf DEF Length
  <2>3. /\ rem \in Nat /\ total \in Nat /\ got \in Nat /\ number \in Nat /\ ep0DataLen \in Nat
        /\ rem <= total /\ total = Length /\ pos = got /\ intact = TRUE
    BY <2>1 DEF PacketTaken, Answering, Typed
  <2>4. outEp' = "armed" /\ total' = total
    BY <1>5 DEF MoreData, LastIsFull, DataSent, PrepareReceive
  <2>5. Smaller(0, MaxPacket) = 0
    BY <1>1 DEF Smaller
  <2>6. Once'
    BY <1>2, <1>5, <2>1, OnceOfOthers DEF PacketTaken, Answering, Pipe!Mutes
  <2>7. CASE MoreData
    <3>1. /\ rem' = rem - MaxPacket /\ rem' \in Nat /\ Smaller(rem, MaxPacket) = MaxPacket
          /\ UNCHANGED <<ep0State, ep0DataLen>>
      BY <1>1, <2>3, <2>7 DEF MoreData, Smaller
    <3>2. /\ ep0DataLen = req.wLength /\ got + rem = total + MaxPacket /\ got + rem' = total
          /\ stage = "dataIn"
      BY <1>1, <2>1, <2>2, <2>3, <2>7, <3>1 DEF MoreData, PacketTaken
    <3>3. /\ Smaller(rem', MaxPacket) \in 0 .. MaxPacket /\ Smaller(rem', MaxPacket) <= rem'
      BY <1>1, <3>1, SmallerOf
    <3>4. /\ packet' = [number |-> number, from |-> got, size |-> Smaller(rem', MaxPacket)]
          /\ pos' = got + Smaller(rem', MaxPacket) /\ inEp' = "armed"
      BY <2>3, <2>7, <3>1 DEF MoreData, Transmit
    <3>5. packet' \in [number : Nat, from : Nat, size : 0 .. MaxPacket]
      BY <2>3, <3>3, <3>4
    <3>6. pos' \in 0 .. total' /\ rem' \in 0 .. total'
      BY <2>3, <2>4, <3>1, <3>2, <3>3, <3>4
    <3>7. Typed'
      BY <1>2, <1>4, <2>4, <3>1, <3>4, <3>5, <3>6 DEF Typed
    <3>8. PacketReady'
      BY <1>2, <2>1, <2>4, <3>1, <3>2, <3>4 DEF PacketTaken, PacketReady, Answering, Length
    <3> QED BY <1>3, <2>6, <3>7, <3>8 DEF Phase
  <2>8. CASE LastIsFull
    <3>1. rem = MaxPacket /\ total >= MaxPacket /\ total < ep0DataLen /\ ep0DataLen' = 0
          /\ UNCHANGED <<ep0State, rem>>
      BY <2>8 DEF LastIsFull, NeedsZlp
    <3>2. Smaller(rem, MaxPacket) = rem
      BY <3>1 DEF Smaller
    <3>3. got = total /\ stage = "dataIn"
      BY <1>1, <2>1, <2>3, <3>1, <3>2 DEF PacketTaken
    <3>4. /\ packet' = [number |-> number, from |-> got, size |-> 0]
          /\ pos' = got /\ inEp' = "armed"
      BY <2>3, <2>5, <2>8 DEF LastIsFull, Transmit
    <3>5. packet' \in [number : Nat, from : Nat, size : 0 .. MaxPacket]
      BY <1>1, <2>3, <3>4
    <3>6. pos' \in 0 .. total' /\ rem' \in 0 .. total'
      BY <2>3, <2>4, <3>1, <3>3, <3>4
    <3>7. Typed'
      BY <1>2, <1>4, <2>4, <3>1, <3>4, <3>5, <3>6 DEF Typed
    <3>8. packet'.number = number' /\ packet'.from = got' /\ packet'.size = 0 /\ pos' = got' + 0
      BY <1>2, <2>3, <3>4
    <3>9. stage' = "dataIn" /\ got' = total' /\ rem' <= MaxPacket /\ ep0DataLen' = 0
      BY <1>1, <1>2, <2>4, <3>1, <3>3
    <3>10. PacketReady'
      BY <1>2, <2>1, <2>4, <3>1, <3>4, <3>8, <3>9 DEF PacketTaken, PacketReady, Answering, Length
    <3> QED BY <1>3, <2>6, <3>7, <3>10 DEF Phase
  <2>9. CASE DataSent
    <3>1. /\ rem <= MaxPacket /\ Smaller(rem, MaxPacket) = rem
          /\ UNCHANGED <<packet, ep0DataLen, rem, pos>>
      BY <1>1, <2>3, <2>9 DEF DataSent, Smaller
    <3>2. got = total
      BY <1>1, <2>1, <2>3, <3>1 DEF PacketTaken
    <3>3. rem = MaxPacket => ep0DataLen = 0 \/ total >= ep0DataLen
      BY <2>3, <2>9, <3>1 DEF DataSent, NeedsZlp
    <3>4. stage # "dataIn"
      BY <1>1, <2>1, <2>3, <3>1, <3>2, <3>3 DEF PacketTaken
    <3>5. Answered'
      BY <1>2, <2>1, <2>3, <2>4, <2>9, <3>2, <3>4 DEF PacketTaken, Answering, Answered, DataSent, Length
    <3>6. Typed'
      BY <1>2, <1>4, <2>4, <2>9, <3>1 DEF Typed, DataSent
    <3> QED BY <1>3, <2>6, <3>5, <3>6 DEF Phase
  <2> QED BY <1>5, <2>7, <2>8, <2>9
<1>6. CASE ep0State # "DATA_IN" /\ UNCHANGED <<hardware, core>>
  <2>1. UNCHANGED <<inEp, packet, outEp, ep0State, ep0DataLen, total, rem, pos>>
    BY <1>6 DEF hardware, core
  <2>2. Typed'
    BY <1>2, <1>4, <2>1 DEF Typed
  <2>3. Acknowledged
    BY <1>6 DEF Phase, Asked, Unanswered, Refused, Receiving, PacketReady, PacketTaken, Answering, Answered
  <2>4. Acknowledged'
    BY <1>2, <2>1, <2>3 DEF Acknowledged, Taken
  <2>5. Once'
    BY <1>2, <2>1, OnceKept
  <2> QED BY <1>3, <2>2, <2>4, <2>5 DEF Phase
<1> QED BY <1>5, <1>6

LEMMA NextInv == ASSUME Prompt, Ind, [Next]_vars PROVE Ind'
<1>1. CASE UNCHANGED vars
  BY <1>1 DEF vars, host, hardware, irqs, core, control, Ind, Typed, Flags, Phase, Results, Once,
    Asked, Unanswered, Refused, Receiving, Acknowledged, PacketReady, PacketTaken, Answering,
    Answered, Taken, Length, FirstStage, Pipe!Applied, Pipe!Mutes
<1> QED
  BY <1>1, SetupKeepsInv, InDataKeepsInv, OutDataKeepsInv, StatusInKeepsInv, StatusOutKeepsInv,
    SeesStallKeepsInv, GivesUpKeepsInv, CancelsKeepsInv, SetupStageKeepsInv, DataOutStageKeepsInv,
    DataInStageKeepsInv DEF Next, HostStep, Handler

-----------------------------------------------------------------------------
(***************************************************************************)
(* The pipe.  What the host is told is never broken, so the outcome of the *)
(* abstract specification is the result as it stands.                      *)
(***************************************************************************)
LEMMA PipeInit == Init => Pipe!Init
BY DEF Init, Pipe!Init, Outcome

LEMMA SetupBegins == ASSUME Ind, Ind', NEW r \in Requests, HostSetup(r) PROVE Pipe!Begin
<1>1. Outcome = result /\ Outcome' = result'
  BY DEF Ind, Results, Outcome, Length
<1> QED BY <1>1 DEF HostSetup, Pipe!Begin, Ind, Results, control

(* What ends a request is an answer that fits it. *)
LEMMA EndFinishes ==
  ASSUME Ind, Ind', stage # "idle", NEW how, End(how), UNCHANGED <<number, req, mutes>>,
         how \in Pipe!Answers(req),
         how = "done" /\ Pipe!Mutes(req) => Pipe!Applied,
         how = "cancelled" => ~Pipe!Applied
  PROVE  Pipe!Finish
<1>1. Outcome = "open" /\ Outcome' = how
  BY DEF Ind, Results, Outcome, Length, End
<1> QED BY <1>1 DEF Pipe!Finish

LEMMA StatusInFinishes == ASSUME Ind, Ind', HostStatusIn PROVE Pipe!Finish
<1>1. Acknowledged /\ packet.size = 0 /\ req.wLength <= MaxPacket /\ stage # "idle"
  BY DEF HostStatusIn, Ind, Phase, Asked, Unanswered, Refused, Receiving, Acknowledged,
    PacketReady, PacketTaken, Answered
<1>2. End("done") /\ UNCHANGED <<number, req, mutes>>
  BY <1>1 DEF HostStatusIn, control
<1>3. req.kind = "set" \/ (req.kind = "setCur" /\ req.wLength <= MaxPacket)
  BY <1>1 DEF Acknowledged
<1>4. req.wLength \in Nat /\ MaxPacket \in Nat
  BY RequestFacts DEF Ind, Typed
<1>5. "done" \in Pipe!Answers(req)
  BY <1>3, <1>4 DEF Pipe!Answers
<1>6. Pipe!Mutes(req) => Pipe!Applied
  BY <1>1 DEF Ind, Once, Acknowledged
<1> QED BY <1>1, <1>2, <1>5, <1>6, EndFinishes

LEMMA StatusOutFinishes == ASSUME Ind, Ind', HostStatusOut PROVE Pipe!Finish
<1>1. PacketTaken \/ Answered
  BY DEF HostStatusOut, Ind, Phase, Asked, Unanswered, Refused, Receiving, Acknowledged,
    PacketReady, Answered
<1>2. End("data") /\ stage # "idle" /\ UNCHANGED <<number, req, mutes>>
  BY DEF HostStatusOut, control
<1>3. "data" \in Pipe!Answers(req)
  BY <1>1 DEF PacketTaken, Answering, Answered, Pipe!Answers
<1> QED BY <1>2, <1>3, EndFinishes

LEMMA SeesStallFinishes == ASSUME Ind, Ind', HostSeesStall PROVE Pipe!Finish
<1>1. Refused /\ stage # "idle"
  BY DEF Ind, HostSeesStall, InStage, OutStage, Phase, Asked, Unanswered, Receiving, Acknowledged,
    PacketReady, PacketTaken, Answered
<1>2. End("stalled") /\ UNCHANGED <<number, req, mutes>>
  BY DEF HostSeesStall, control
<1>3. "stalled" \in Pipe!Answers(req)
  BY <1>1 DEF Refused, Pipe!Answers
<1> QED BY <1>1, <1>2, <1>3, EndFinishes

LEMMA GivesUpFinishes == ASSUME Ind, Ind', HostGivesUp PROVE Pipe!Finish
<1>1. Unanswered \/ (Acknowledged /\ stage = "dataOut")
  BY DEF Ind, HostGivesUp, InStage, OutStage, Phase, Asked, Refused, Receiving, Acknowledged,
    PacketReady, PacketTaken, Answered
<1>2. End("none") /\ UNCHANGED <<number, req, mutes>> /\ stage # "idle"
  BY DEF HostGivesUp, InStage, OutStage, control
<1>3. /\ req.wLength \in Nat /\ MaxPacket \in Nat
      /\ req.kind = "set" => req.wLength <= MaxPacket
  <2>1. req \in Requests
    BY DEF Ind, Typed
  <2>2. /\ req.wLength \in Nat
        /\ MaxPacket \in Nat
        /\ req.kind = "set" => req.wLength = 0
    BY <2>1, RequestFacts
  <2> QED BY <2>2
<1>4. req.kind = "ignored" \/ (req.kind = "setCur" /\ req.wLength > MaxPacket)
  <2>1. CASE Unanswered
    BY <1>2, <2>1 DEF Unanswered
  <2>2. CASE Acknowledged /\ stage = "dataOut"
    BY <1>3, <2>2 DEF Acknowledged
  <2> QED BY <1>1, <2>1, <2>2
<1>5. "none" \in Pipe!Answers(req)
  BY <1>3, <1>4 DEF Pipe!Answers
<1> QED BY <1>2, <1>5, EndFinishes

(* A request whose data have not been sent has not been carried out. *)
LEMMA CancelsFinishes == ASSUME Ind, Ind', HostCancels PROVE Pipe!Finish
<1>1. End("cancelled") /\ UNCHANGED <<number, req, mutes>> /\ stage # "idle"
  BY DEF HostCancels, control
<1>2. "cancelled" \in Pipe!Answers(req)
  <2>1. req \in Requests
    BY DEF Ind, Typed
  <2> QED BY <2>1, RequestFacts DEF HostCancels, Pipe!Answers
<1>3. ~Pipe!Applied
  <2> SUFFICES ASSUME Pipe!Applied PROVE FALSE
    OBVIOUS
  <2>1. ~setupIrq /\ ep0State = "STATUS_IN"
    BY DEF Ind, Once
  <2>2. req \in Requests /\ req.kind = "setCur" /\ sent = 0
    BY DEF HostCancels, Ind, Typed
  <2>3. Acknowledged
    BY <2>1, <2>2 DEF Ind, Phase, Asked, Unanswered, Refused, Receiving, PacketReady,
      PacketTaken, Answering, Answered
  <2>4. Taken > 0
    BY <2>2, RequestFacts DEF Taken, Smaller
  <2> QED BY <2>2, <2>3, <2>4 DEF Acknowledged
<1> QED BY <1>1, <1>2, <1>3, EndFinishes

LEMMA DataOutApplies ==
  ASSUME Ind, Ind', DataOutStage
  PROVE  Pipe!Apply \/ UNCHANGED Pipe!vars
<1>1. UNCHANGED <<stage, number, req, got, intact, result>>
  BY DEF DataOutStage, host
<1>2. Outcome = result /\ Outcome' = result' /\ result' = result
  BY <1>1 DEF Ind, Results, Outcome, Length
<1>3. CASE ep0State = "DATA_OUT" /\ req.streaming
  <2>1. Receiving /\ outIrq
    BY <1>3 DEF DataOutStage, Ind, Phase, Asked, Unanswered, Refused, Acknowledged, PacketReady,
      PacketTaken, Answering, Answered
  <2>2. mutes' = Append(mutes, number)
    BY <1>3, <2>1 DEF DataOutStage, Receiving, RxReady
  <2>3. result = "open"
    BY <2>1 DEF Ind, Results, Receiving
  <2>4. Pipe!Mutes(req) /\ ~Pipe!Applied
    BY <1>3, <2>1 DEF Ind, Once, Receiving, Pipe!Mutes
  <2> QED BY <1>1, <1>2, <2>2, <2>3, <2>4 DEF Pipe!Apply
<1>4. CASE ~(ep0State = "DATA_OUT" /\ req.streaming)
  <2>1. mutes' = mutes
    <3>1. CASE ep0State = "DATA_OUT"
      <4>1. streaming = req.streaming
        BY <3>1 DEF DataOutStage, Ind, Phase, Asked, Unanswered, Refused, Receiving, Acknowledged,
          PacketReady, PacketTaken, Answering, Answered
      <4> QED BY <1>4, <3>1, <4>1 DEF DataOutStage, RxReady
    <3>2. CASE ep0State # "DATA_OUT"
      BY <3>2 DEF DataOutStage, control
    <3> QED BY <3>1, <3>2
  <2> QED BY <1>1, <1>2, <2>1 DEF Pipe!vars
<1> QED BY <1>3, <1>4

LEMMA OtherStepsStutter ==
  ASSUME Ind, Ind', UNCHANGED <<number, req, result, mutes>>
  PROVE  UNCHANGED Pipe!vars
BY DEF Ind, Results, Outcome, Length, Pipe!vars

LEMMA PipeStep ==
  ASSUME Prompt, Ind, Ind', [Next]_vars
  PROVE  [Pipe!Next]_(Pipe!vars)
<1>1. CASE \/ HostInData \/ HostOutData \/ SetupStage \/ DataInStage \/ UNCHANGED vars
  <2>1. UNCHANGED <<number, req, result, mutes>>
    BY <1>1 DEF HostInData, HostOutData, SetupStage, SendData, SendStatus, SetCur, CtlError,
      DataInStage, vars, host, control
  <2> QED BY <2>1, OtherStepsStutter
<1>2. CASE \E r \in Requests : HostSetup(r)
  BY <1>2, SetupBegins DEF Pipe!Next
<1>3. CASE HostStatusIn \/ HostStatusOut \/ HostSeesStall \/ HostGivesUp \/ HostCancels
  BY <1>3, StatusInFinishes, StatusOutFinishes, SeesStallFinishes, GivesUpFinishes, CancelsFinishes
    DEF Pipe!Next
<1>4. CASE DataOutStage
  BY <1>4, DataOutApplies DEF Pipe!Next
<1> QED BY <1>1, <1>2, <1>3, <1>4 DEF Next, HostStep, Handler

-----------------------------------------------------------------------------
(***************************************************************************)
(* However long the data asked for and available are, the device is in the *)
(* status stage exactly when the host is: USBD_LL_DataInStage sends its    *)
(* empty packet when it must, and never when it must not.                  *)
(***************************************************************************)
THEOREM ControlCorrect == ASSUME Prompt PROVE Spec => []ControlInvariant
<1>1. Init => Ind
  BY InitInv
<1>2. Ind /\ [Next]_vars => Ind'
  BY NextInv
<1>3. Ind => ControlInvariant
  BY InvControls
<1> QED BY <1>1, <1>2, <1>3, PTL DEF Spec

(***************************************************************************)
(* Every step of endpoint 0 is one of the abstract pipe: requests are      *)
(* served one at a time, data come whole and of the request they were      *)
(* asked with, and MuteCtl is called once for a request that asks for it,  *)
(* before it is acknowledged, and for no other (USBD_AUDIO_EP0_RxReady).   *)
(* The other part of ImplementsPipe, that all requests end, is TLC's.      *)
(***************************************************************************)
PipeIsSafe == Pipe!Init /\ [][Pipe!Next]_(Pipe!vars)

THEOREM ControlImplementsPipe == ASSUME Prompt PROVE Spec => PipeIsSafe
<1>1. Init => Ind /\ Pipe!Init
  BY InitInv, PipeInit
<1>2. Ind /\ [Next]_vars => Ind'
  BY NextInv
<1>3. Ind /\ Ind' /\ [Next]_vars => [Pipe!Next]_(Pipe!vars)
  BY PipeStep
<1> QED BY <1>1, <1>2, <1>3, PTL DEF Spec, PipeIsSafe
=============================================================================
