-------------------------------- MODULE Parts --------------------------------
(***************************************************************************)
(* The small parts side by side: EthTx, Stream, LwipTimers,                *)
(* TelnetConnection, Sha256Chunks and RateMeter share no state, so what    *)
(* each may do is what it may do while the others rest.  part says which   *)
(* one is running.                                                         *)
(***************************************************************************)
EXTENDS EthTx, Stream

CONSTANTS
  Word, Cyclic, Interval, LinkPeriod, MaxRound,        (* of LwipTimers        *)
  Letters, MaxLine, InputSize, MaxSegment,             (* of TelnetConnection  *)
  ChunkSize, LenLen, Base, MaxTotal,                   (* of Sha256Chunks      *)
  MeterWord, Second, MaxPause, MeterSizes              (* of RateMeter         *)

VARIABLES
  part,
  now, timeouts, pcbs, tcpActive, pc, checkNow, due, dueLeft, linkTimer, linkAge, round,
  connected, unsent, buf, data, ran, faulted,
  hash, total, left, chunk, spaceLeft, hashed, shaPc,
  halTick, pause, psLastDt, psCount, psPerSecond, window, bytes, lastSize

Timers == INSTANCE LwipTimers
Telnet == INSTANCE TelnetConnection
Sha256 == INSTANCE Sha256Chunks WITH pc <- shaPc
Meter == INSTANCE RateMeter WITH Word <- MeterWord, Sizes <- MeterSizes, tick <- halTick

ASSUME PartsAssumption ==
  /\ Timers!LwipTimersAssumption
  /\ Telnet!TelnetAssumption
  /\ Sha256!Sha256Assumption
  /\ Meter!RateMeterAssumption

-----------------------------------------------------------------------------
timersVars ==
  <<now, timeouts, pcbs, tcpActive, pc, checkNow, due, dueLeft, linkTimer, linkAge, round>>
telnetVars == <<connected, unsent, buf, data, ran, faulted>>
sha256Vars == <<hash, total, left, chunk, spaceLeft, hashed, shaPc>>
meterVars == <<halTick, pause, psLastDt, psCount, psPerSecond, window, bytes, lastSize>>
partsVars == <<part, vars, streamVars, timersVars, telnetVars, sha256Vars, meterVars>>

(* What rests while one part is running. *)
BesideTx == <<part, streamVars, timersVars, telnetVars, sha256Vars, meterVars>>
BesideStream == <<part, vars, timersVars, telnetVars, sha256Vars, meterVars>>
BesideTimers == <<part, vars, streamVars, telnetVars, sha256Vars, meterVars>>
BesideTelnet == <<part, vars, streamVars, timersVars, sha256Vars, meterVars>>
BesideSha256 == <<part, vars, streamVars, timersVars, telnetVars, meterVars>>
BesideMeter == <<part, vars, streamVars, timersVars, telnetVars, sha256Vars>>

PartsInit ==
  /\ part \in {"tx", "stream", "timers", "telnet", "sha256", "meter"}
  /\ Init /\ StreamInit /\ Timers!Init /\ Telnet!Init /\ Sha256!Init /\ Meter!Init
  /\ part # "timers" => now = 0
  /\ part # "stream" => buffer = CHOOSE filling \in [Slots -> Values] : TRUE

PartsNext ==
  \/ part = "tx" /\ Next /\ UNCHANGED BesideTx
  \/ part = "stream" /\ StreamNext /\ UNCHANGED BesideStream
  \/ part = "timers" /\ Timers!Next /\ UNCHANGED BesideTimers
  \/ part = "telnet" /\ Telnet!Next /\ UNCHANGED BesideTelnet
  \/ part = "sha256" /\ Sha256!Next /\ UNCHANGED BesideSha256
  \/ part = "meter" /\ Meter!Next /\ UNCHANGED BesideMeter

(* Each part under its own fairness. *)
PartsSpec ==
  /\ PartsInit /\ [][PartsNext]_partsVars
  /\ WF_partsVars(part = "tx" /\ (Sent \/ TimedOut) /\ UNCHANGED BesideTx)
  /\ WF_partsVars(part = "tx" /\ DmaFetch /\ UNCHANGED BesideTx)
  /\ WF_partsVars(part = "tx" /\ DmaWriteBack /\ UNCHANGED BesideTx)
  /\ WF_partsVars(part = "timers" /\ Timers!Loop /\ UNCHANGED BesideTimers)
  /\ WF_partsVars(part = "timers" /\ Timers!Elapse /\ UNCHANGED BesideTimers)
  /\ WF_partsVars(part = "telnet" /\ Telnet!Parse /\ UNCHANGED BesideTelnet)

-----------------------------------------------------------------------------
(***************************************************************************)
(* Transmission after any number of timeouts and changes of the link: the  *)
(* DMA is left nothing that points to memory given back, and HAL_OK means  *)
(* what it says.                                                           *)
(***************************************************************************)
TransmissionHolds == [](TypeOK /\ NoDeadDescriptor) /\ OkMeansRead

(***************************************************************************)
(* The timers of lwIP and the look at the link, wherever the millisecond   *)
(* counter stands: sorted by true time, none early, lost or entered twice, *)
(* and in rhythm.                                                          *)
(***************************************************************************)
TimersKeepTime ==
  /\ [](Timers!TypeOK /\ Timers!SortedByTrueTime /\ Timers!NeverEarly /\ Timers!EachTimerOnce)
  /\ Timers!KeepsRhythm
  /\ Timers!LinkEveryPeriod

(***************************************************************************)
(* What must never stop: on a link that stays up packets get through again *)
(* after timeouts, and all timers of lwIP run for ever.                    *)
(***************************************************************************)
PartsGoOn ==
  /\ part = "tx" => TransmissionRecovers
  /\ part = "timers" => Timers!TimersRun

(***************************************************************************)
(* The telnet server's lines, however TCP cuts them, are what a line       *)
(* editor promises; a line that fills the buffer is the last one.          *)
(***************************************************************************)
TelnetServes ==
  /\ []Telnet!TypeOK
  /\ Telnet!DeafWhenFull
  /\ Telnet!ImplementsService

(***************************************************************************)
(* SHA-256 consumes the padded message of FIPS 180-4, in whatever pieces   *)
(* it was written, and never meets a full chunk.                           *)
(***************************************************************************)
HashesPaddedMessage ==
  Sha256!TypeOK /\ Sha256!ChunkNotFull /\ Sha256!MessageSoFar /\ Sha256!HashedIsPadded

(* The bytes per second shown are those of about a second, across every wrap of the tick. *)
RateIsPerSecond == []Meter!TypeOK /\ Meter!PublishesSecond
=============================================================================
