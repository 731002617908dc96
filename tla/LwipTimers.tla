------------------------------ MODULE LwipTimers ------------------------------
(***************************************************************************)
(* Time in the Ethernet loop: MX_LWIP_Process (lwip.c) takes in a packet,  *)
(* runs the timers of lwIP that are due (timeouts.c) and looks at the link *)
(* every so often.  The list of timeouts is sorted by a time that wraps;   *)
(* a cyclic timer enters itself again after each run, and the timer of TCP *)
(* (fast and slow, see TcpServers) runs only while there are connections.  *)
(*                                                                         *)
(* Milliseconds pass at any moment, also inside a handler, but one round   *)
(* of the loop takes no more than MaxRound of them.  Each entry of the     *)
(* list has besides its wrapped time the true time left, as history.       *)
(***************************************************************************)
EXTENDS Integers, SequencesExt

CONSTANTS
  Word,          (* 2^32, the values of sys_now                             *)
  Cyclic,        (* the cyclic timers but TCP's: reassembly and ARP         *)
  Interval,      (* the interval of each and of "tcp"                       *)
  LinkPeriod,    (* 100 ms between two looks at the link                    *)
  MaxRound       (* the longest round of the loop                           *)

Timers == Cyclic \cup {"tcp"}

LwipTimersAssumption ==
  /\ {"tcp", "input", "check", "link"} \cap Cyclic = {} /\ IsFiniteSet(Cyclic)
  /\ Word \in Nat /\ Word % 2 = 0
  /\ Interval \in [Timers -> Nat \ {0}]
  /\ MaxRound \in Nat \ {0}
  /\ \A t \in Timers : Interval[t] + 2 * MaxRound < Word \div 2
  /\ LinkPeriod \in Nat \ {0} /\ LinkPeriod + 2 * MaxRound < Word

VARIABLES
  now,           (* HAL_GetTick(), what sys_now returns                     *)
  timeouts,      (* the list from next_timeout: handler, time, true time left *)
  pcbs,          (* tcp_active_pcbs or tcp_tw_pcbs is not empty             *)
  tcpActive,     (* tcpip_tcp_timer_active                                  *)
  pc,            (* where the loop is: "input", "check", "link", or the     *)
                 (* timer whose handler runs                                *)
  checkNow,      (* now of sys_check_timeouts                               *)
  due, dueLeft,  (* current_timeout_due_time, and the true time to it       *)
  linkTimer,     (* EthernetLinkTimer                                       *)
  linkAge,       (* history: true time since it was set                     *)
  round          (* history: how long this round has taken                  *)

vars == <<now, timeouts, pcbs, tcpActive, pc, checkNow, due, dueLeft, linkTimer, linkAge, round>>

-----------------------------------------------------------------------------

(* TIME_LESS_THAN *)
LessThan(t, u) == (t - u) % Word > Word \div 2 - 1

(* Where sys_timeout_abs puts a timeout: before the first that is later. *)
Before(t, u) == LessThan(t, u.time)

PoolSize == Cardinality(Timers)        \* MEMP_NUM_SYS_TIMEOUT

(* sys_timeout_abs; with the pool empty the timer is lost. *)
Entered(list, timer, time, left) ==
  LET later == {i \in DOMAIN list : Before(time, list[i])}
      place == Min(later \cup {Len(list) + 1})
  IN  IF Len(list) < PoolSize
        THEN InsertAt(list, place, [timer |-> timer, time |-> time, left |-> left])
        ELSE list

(* sys_timeout *)
After(list, timer) == Entered(list, timer, (now + Interval[timer]) % Word, Interval[timer])

-----------------------------------------------------------------------------
(* The SysTick handler: a millisecond has passed. *)
Elapse ==
  /\ round < MaxRound
  /\ now' = (now + 1) % Word
  /\ timeouts' = [i \in DOMAIN timeouts |-> [timeouts[i] EXCEPT !.left = @ - 1]]
  /\ dueLeft' = IF pc \in Timers THEN dueLeft - 1 ELSE dueLeft
  /\ linkAge' = linkAge + 1
  /\ round' = round + 1
  /\ UNCHANGED <<pcbs, tcpActive, pc, checkNow, due, linkTimer>>

(* tcp_timer_needed, called from TCP_REG when a connection is entered. *)
Needed == pcbs' /\ ~tcpActive

(***************************************************************************)
(* ethernetif_input: connections may come or go; then sys_check_timeouts   *)
(* is called and reads the time once.                                      *)
(***************************************************************************)
EthernetInput ==
  /\ pc = "input"
  /\ pcbs' \in BOOLEAN
  /\ tcpActive' = (tcpActive \/ Needed)
  /\ timeouts' = IF Needed THEN After(timeouts, "tcp") ELSE timeouts
  /\ pc' = "check"
  /\ checkNow' = now
  /\ UNCHANGED <<now, due, dueLeft, linkTimer, linkAge, round>>

Expired == timeouts # <<>> /\ ~LessThan(checkNow, Head(timeouts).time)

(* The head has expired: it leaves the list and its handler is called. *)
Fire ==
  /\ pc = "check"
  /\ Expired
  /\ timeouts' = Tail(timeouts)
  /\ due' = Head(timeouts).time
  /\ dueLeft' = Head(timeouts).left
  /\ pc' = Head(timeouts).timer
  /\ UNCHANGED <<now, pcbs, tcpActive, checkNow, linkTimer, linkAge, round>>

(* mutant: the interval always counts from the time it was due *)
Overload_Never(timer) == FALSE
Overload(timer) == LessThan((due + Interval[timer]) % Word, now)

(* lwip_cyclic_timer, when the handler has returned. *)
CyclicTimer ==
  /\ pc \in Cyclic
  /\ timeouts' = IF Overload(pc) THEN After(timeouts, pc)
                 ELSE Entered(timeouts, pc, (due + Interval[pc]) % Word, dueLeft + Interval[pc])
  /\ pc' = "check"
  /\ due' = 0 /\ dueLeft' = 0
  /\ UNCHANGED <<now, pcbs, tcpActive, checkNow, linkTimer, linkAge, round>>

(* tcpip_tcp_timer: tcp_tmr may have closed the last connection. *)
TcpTimer ==
  /\ pc = "tcp"
  /\ pcbs' \in {FALSE, pcbs}
  /\ tcpActive' = pcbs'
  /\ timeouts' = IF pcbs' THEN After(timeouts, "tcp") ELSE timeouts
  /\ pc' = "check"
  /\ due' = 0 /\ dueLeft' = 0
  /\ UNCHANGED <<now, checkNow, linkTimer, linkAge, round>>

CheckEnd ==
  /\ pc = "check"
  /\ ~Expired
  /\ pc' = "link"
  /\ checkNow' = 0
  /\ UNCHANGED <<now, timeouts, pcbs, tcpActive, due, dueLeft, linkTimer, linkAge, round>>

LinkDue == (now - linkTimer) % Word >= LinkPeriod

(* Ethernet_Link_Periodic_Handle, and the loop starts again. *)
CheckLink ==
  /\ pc = "link"
  /\ \/ LinkDue /\ linkTimer' = now /\ linkAge' = 0
     \/ ~LinkDue /\ UNCHANGED <<linkTimer, linkAge>>
  /\ pc' = "input"
  /\ round' = 0
  /\ UNCHANGED <<now, timeouts, pcbs, tcpActive, checkNow, due, dueLeft>>

(* sys_timeouts_init has entered the cyclic timers, the shortest interval first. *)
Init ==
  /\ now \in {0, Word - 1}
  /\ \E order \in SetToSeqs(Cyclic) :
       /\ \A i, j \in DOMAIN order : i < j => Interval[order[i]] <= Interval[order[j]]
       /\ timeouts = [i \in DOMAIN order |->
                        [timer |-> order[i], time |-> (now + Interval[order[i]]) % Word,
                         left |-> Interval[order[i]]]]
  /\ pcbs = FALSE /\ tcpActive = FALSE
  /\ pc = "input" /\ checkNow = 0 /\ due = 0 /\ dueLeft = 0
  /\ linkTimer = now /\ linkAge = 0 /\ round = 0

Loop == EthernetInput \/ Fire \/ CyclicTimer \/ TcpTimer \/ CheckEnd \/ CheckLink
Next == Elapse \/ Loop

Spec == Init /\ [][Next]_vars /\ WF_vars(Loop) /\ WF_vars(Elapse)

-----------------------------------------------------------------------------
Lefts == -Word..Word

TypeOK ==
  /\ {now, checkNow, due, linkTimer} \subseteq 0..Word - 1
  /\ timeouts \in Seq([timer : Timers, time : 0..Word - 1, left : Lefts])
  /\ {pcbs, tcpActive} \subseteq BOOLEAN
  /\ pc \in Timers \cup {"input", "check", "link"}
  /\ dueLeft \in Lefts /\ linkAge \in Nat /\ round \in 0..MaxRound

(***************************************************************************)
(* The list is in the order of the true times, wherever the counter stands *)
(* and however late the loop is: the head is the next that is due.         *)
(***************************************************************************)
SortedByTrueTime ==
  \A i, j \in DOMAIN timeouts : i < j => timeouts[i].left <= timeouts[j].left

(* No handler is called before its time, across the wrap of the counter. *)
NeverEarly == pc \in Timers => dueLeft <= 0

(***************************************************************************)
(* The pool has an entry for each timer and no more.  No timer is ever     *)
(* lost for want of one, nor entered twice; the TCP timer is there while   *)
(* it is wanted.                                                           *)
(***************************************************************************)
EachTimerOnce ==
  /\ pcbs => tcpActive
  /\ \A t \in Timers :
       Cardinality({i \in DOMAIN timeouts : timeouts[i].timer = t}) + (IF pc = t THEN 1 ELSE 0)
         = IF t = "tcp" /\ ~tcpActive THEN 0 ELSE 1

(* A cyclic timer keeps its rhythm, unless a whole interval has gone by. *)
KeepsRhythm ==
  [][\A t \in Cyclic : pc = t /\ pc' = "check" =>
       \E i \in DOMAIN timeouts' :
         /\ timeouts'[i].timer = t
         /\ timeouts'[i].left = IF dueLeft + Interval[t] >= 0
                                  THEN dueLeft + Interval[t] ELSE Interval[t]]_vars

(***************************************************************************)
(* `Ethernet Link every 100ms': never sooner, and later by less than a     *)
(* round of the loop.                                                      *)
(***************************************************************************)
LinkEveryPeriod ==
  /\ [](linkAge < LinkPeriod + MaxRound)
  /\ [][linkAge' < linkAge => linkAge >= LinkPeriod]_vars

(***************************************************************************)
(* Every cyclic timer runs again and again, and TCP's as long as there are *)
(* connections, though handlers take longer than the shortest interval.    *)
(***************************************************************************)
TimersRun ==
  /\ \A t \in Cyclic : []<>(pc = t)
  /\ pcbs ~> (pc = "tcp" \/ ~pcbs)
=============================================================================
