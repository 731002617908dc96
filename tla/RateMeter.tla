------------------------------ MODULE RateMeter ------------------------------
(***************************************************************************)
(* The meter of AUDIO_PeriodicTC_FS (usbd_audio_if.c): the bytes of the    *)
(* packets are added up, and about every Second milliseconds the sum is    *)
(* published as ps_count_per_second.  HAL_GetTick wraps, its value is kept *)
(* in an int, and the difference of two is compared as an int: it is right *)
(* while no more than half the counter's range goes by between packets.    *)
(***************************************************************************)
EXTENDS Integers

CONSTANTS
  Word,          (* 2^32                                                    *)
  Second,        (* 1000                                                    *)
  MaxPause,      (* the longest pause between two packets of a stream       *)
  Sizes          (* sizes of packets                                        *)

RateMeterAssumption ==
  /\ Word \in Nat /\ Word % 2 = 0
  /\ {Second, MaxPause} \subseteq Nat \ {0}
  /\ Second + MaxPause <= Word \div 2
  /\ Sizes \subseteq Nat

VARIABLES
  tick,          (* HAL_GetTick()                                           *)
  pause,         (* time since the last packet                              *)
  psLastDt,      (* ps_last_dt                                              *)
  psCount,       (* ps_count                                                *)
  psPerSecond,   (* ps_count_per_second                                     *)
  window,        (* history: true time since the sum was cleared            *)
  bytes,         (* history: bytes received in it                           *)
  lastSize       (* history: size of the last packet                        *)

vars == <<tick, pause, psLastDt, psCount, psPerSecond, window, bytes, lastSize>>

(* A word as an int. *)
Signed(n) == LET w == n % Word IN IF w >= Word \div 2 THEN w - Word ELSE w

(* mutant: the deadline is computed and compared *)
Due_Deadline == Signed(tick) >= Signed(psLastDt + Second)
Due == Signed(Signed(tick) - psLastDt) >= Second

Elapse ==
  /\ pause < MaxPause
  /\ tick' = (tick + 1) % Word
  /\ pause' = pause + 1
  /\ window' = window + 1
  /\ UNCHANGED <<psLastDt, psCount, psPerSecond, bytes, lastSize>>

(* AUDIO_PeriodicTC_FS *)
PeriodicTC(size) ==
  /\ pause > 0
  /\ IF Due
       THEN /\ psLastDt' = Signed(tick)
            /\ psPerSecond' = psCount + size
            /\ psCount' = 0
            /\ window' = 0 /\ bytes' = 0
       ELSE /\ psCount' = psCount + size
            /\ bytes' = bytes + size
            /\ UNCHANGED <<psLastDt, psPerSecond, window>>
  /\ pause' = 0
  /\ lastSize' = size
  /\ UNCHANGED tick

Init ==
  /\ tick = 0 /\ pause = 0 /\ window = 0 /\ bytes = 0 /\ lastSize = 0
  /\ psLastDt = 0 /\ psCount = 0 /\ psPerSecond = 0

Next == Elapse \/ \E size \in Sizes : PeriodicTC(size)

Spec == Init /\ [][Next]_vars

-----------------------------------------------------------------------------
TypeOK ==
  /\ tick \in 0..Word - 1 /\ pause \in 0..MaxPause
  /\ psLastDt \in -(Word \div 2)..Word \div 2 - 1
  /\ {psCount, psPerSecond, lastSize} \subseteq Nat

(***************************************************************************)
(* The first packet after a second publishes, and none before: what is     *)
(* published is the bytes of a second and less than a pause more, with no  *)
(* packet left out or counted twice, also while the counter passes the     *)
(* largest int and when it starts over.                                    *)
(***************************************************************************)
PublishesSecond ==
  /\ [][pause' = 0 => window' < Second]_vars
  /\ [][psLastDt' # psLastDt =>
         /\ window \in Second..Second + MaxPause - 1
         /\ psPerSecond' = bytes + lastSize']_vars
=============================================================================
