----------------------------- MODULE TcpServers -----------------------------
(***************************************************************************)
(* The binary and the telnet server (binary_server.cpp, telnet_server.cpp: *)
(* the same code twice) on the lwIP connections they share (tcp.c,         *)
(* tcp_in.c).  Each server has a table of slots; a slot is claimed when    *)
(* lwIP accepts a connection and given back by the receive callback (the   *)
(* client closed) or the error callback (lwIP dropped the connection).     *)
(*                                                                         *)
(* NO_SYS: servers, lwIP and its timers run in one loop, so a step is one  *)
(* segment, one timer call or one slot's turn in process().  The clients   *)
(* do as they please, and nothing at all.  lwIP has a fixed number of      *)
(* connection blocks (pcbs) and makes room for a new client by taking one  *)
(* from an older.  A tick is the expiry of a retransmission timer.         *)
(***************************************************************************)
EXTENDS Integers, FiniteSetsExt

CONSTANTS
  Pcbs,          (* MEMP_NUM_TCP_PCB connection blocks                      *)
  NoPcb,         (* the null pointer                                        *)
  Servers,       (* which of the two servers are started                    *)
  SlotCount,     (* COUNT_OF_ALLOWED_CONNECTIONS                            *)
  OutSize,       (* what a slot's streamOut can hold                        *)
  MaxRtx,        (* TCP_MAXRTX                                              *)
  Timeout        (* TCP_SYN_RCVD_TIMEOUT and 2 * TCP_MSL, in ticks          *)

ASSUME TcpServersAssumption ==
  /\ NoPcb \notin Pcbs
  /\ Servers \subseteq {"binary", "telnet"}
  /\ {SlotCount, OutSize, MaxRtx} \subseteq Nat \ {0}
  /\ Timeout \in Nat

Slots == Servers \X (1..SlotCount)
NoSlot == <<"none", 0>>

VARIABLES
  (* lwIP's side *)
  st,            (* the state of each pcb                                   *)
  srv,           (* the listener it came from                               *)
  arg,           (* its callback_arg: NoSlot without the server's callbacks *)
  unacked,       (* data sent that the client has not acknowledged          *)
  nrtx, idle,    (* retransmissions; ticks since tmr was set                *)
  (* the servers' side *)
  busy,          (* conns_busy                                              *)
  pcbOf,         (* pcb_                                                    *)
  out            (* items in streamOut                                      *)

tcp == <<st, srv, arg, unacked, nrtx, idle>>
slots == <<busy, pcbOf, out>>
vars == <<tcp, slots>>

-----------------------------------------------------------------------------
States == {"FREE", "SYN_RCVD", "ESTABLISHED", "CLOSE_WAIT", "LAST_ACK"}

InState(S) == {p \in Pcbs : st[p] \in S}

(* TF_CLOSEPEND: closed by the server, but no memory for the FIN yet. *)
ClosePending == InState({"CLOSE_WAIT"})

(* Priorities: the listener's until the accept callback sets its own. *)
TCP_PRIO_MIN == 1
TCP_PRIO_NORMAL == 64
TCP_PRIO_MAX == 127

AcceptPrio(v) == IF v = "binary" THEN TCP_PRIO_MAX ELSE TCP_PRIO_MIN

Prio(p) == IF st[p] = "SYN_RCVD" THEN TCP_PRIO_NORMAL ELSE AcceptPrio(srv[p])

(* tcp_kill_prio: of the pcbs below the new one's priority, the lowest. *)
Dispensable ==
  LET below == {p \in InState(States \ {"FREE"}) : Prio(p) < TCP_PRIO_NORMAL}
  IN  {p \in below : \A q \in below : Prio(p) <= Prio(q)}

(***************************************************************************)
(* Whom tcp_alloc kills when the pool is empty, given the pcbs whose       *)
(* pending FIN went out first: the oldest in LAST_ACK, and only if there   *)
(* is none a connection of low priority.  Which one is the oldest is left  *)
(* open.  (No pcb of the servers gets to TIME_WAIT or CLOSING: they never  *)
(* close first.)                                                           *)
(***************************************************************************)
(* mutant: the closing connections are not looked at *)
Victims_PrioOnly(sent) == Dispensable
Victims(sent) ==
  LET closing == InState({"LAST_ACK"}) \cup sent
  IN  IF closing # {} THEN closing ELSE Dispensable

(* mutant: the slot stays busy *)
Release_KeepsBusy(S) == UNCHANGED <<busy, pcbOf>>

(* freeConnection.  pcb_ is kept in the code, but read by a busy slot only. *)
Release(S) ==
  /\ busy' = [s \in Slots |-> busy[s] /\ s \notin S]
  /\ pcbOf' = [s \in Slots |-> IF s \in S THEN NoPcb ELSE pcbOf[s]]

SlotsOf(P) == {arg[p] : p \in P} \ {NoSlot}

FreeSlots(v) == {i \in 1..SlotCount : ~busy[<<v, i>>]}

(* enqueue: what does not fit is dropped. *)
Enqueue(q, n) == Min({q + n, OutSize})

(* TelnetConnection::start prints a greeting and a prompt. *)
Greeting(v) == IF v = "telnet" THEN 2 ELSE 0

(***************************************************************************)
(* getConnection and start: the first free slot; pcb may be NULL.  What is *)
(* in streamOut stays there.                                               *)
(***************************************************************************)
Claim(v, p) ==
  LET s == <<v, Min(FreeSlots(v))>>
  IN  /\ busy' = [busy EXCEPT ![s] = TRUE]
      /\ pcbOf' = [pcbOf EXCEPT ![s] = p]

-----------------------------------------------------------------------------
(* tcp_listen_input: a pcb for the new client, in SYN_RCVD. *)
NewPcb(v, p, sent) ==
  /\ st' = [q \in Pcbs |-> IF q = p THEN "SYN_RCVD"
                           ELSE IF q \in sent THEN "LAST_ACK" ELSE st[q]]
  /\ srv' = [srv EXCEPT ![p] = v]
  /\ arg' = [arg EXCEPT ![p] = NoSlot]
  /\ unacked' = [unacked EXCEPT ![p] = FALSE]
  /\ nrtx' = [nrtx EXCEPT ![p] = 0]
  /\ idle' = [idle EXCEPT ![p] = 0]

Syn(v) ==
  \E p \in InState({"FREE"}) : NewPcb(v, p, {}) /\ UNCHANGED slots

(* The victim's error callback frees its slot. *)
SynKills(v) ==
  /\ InState({"FREE"}) = {}
  /\ \E sent \in SUBSET ClosePending : \E p \in Victims(sent) :
       /\ NewPcb(v, p, sent)
       /\ Release(SlotsOf({p}))
       /\ UNCHANGED out

(***************************************************************************)
(* tcp_alloc failed: the accept callback is called with newpcb NULL and    *)
(* ERR_MEM.  It looks at neither and claims a slot; the lwIP calls it      *)
(* makes then do nothing with a null pointer.                              *)
(***************************************************************************)
SynRefused(v) ==
  /\ InState({"FREE"}) = {}
  /\ Victims({}) = {}
  /\ FreeSlots(v) # {}
  /\ Claim(v, NoPcb)
  /\ LET s == <<v, Min(FreeSlots(v))>>
     IN  out' = [out EXCEPT ![s] = Enqueue(@, Greeting(v))]
  /\ UNCHANGED tcp

-----------------------------------------------------------------------------
(***************************************************************************)
(* What a segment after the connection request carries: an acknowledgement *)
(* of all that was sent, data, the FIN.                                    *)
(***************************************************************************)
Segments == [ack : BOOLEAN, data : BOOLEAN, fin : BOOLEAN]

(* Data is answered with at most one item: callback_recv, input, output. *)
Received(q, seg) == {Enqueue(q, n) : n \in 0..(IF seg.data THEN 1 ELSE 0)}

(***************************************************************************)
(* callback_recv with p NULL, by way of closeConnection: the callbacks are *)
(* taken off, the slot is freed, tcp_close sends the FIN if it has memory  *)
(* for it.                                                                 *)
(***************************************************************************)
Close(p) ==
  /\ st' \in {[st EXCEPT ![p] = x] : x \in {"LAST_ACK", "CLOSE_WAIT"}}
  /\ arg' = [arg EXCEPT ![p] = NoSlot]
  /\ Release(SlotsOf({p}))

(* The handshake completes: tcp_process in SYN_RCVD, callback_accept. *)
Accept(p, seg) ==
  /\ st[p] = "SYN_RCVD"
  /\ seg.ack
  /\ FreeSlots(srv[p]) # {}
  /\ LET v == srv[p]
         s == <<v, Min(FreeSlots(v))>>
     IN  /\ \E q \in Received(Enqueue(out[s], Greeting(v)), seg) :
              out' = [out EXCEPT ![s] = q]
         /\ \/ /\ ~seg.fin
               /\ st' = [st EXCEPT ![p] = "ESTABLISHED"]
               /\ arg' = [arg EXCEPT ![p] = s]
               /\ Claim(v, p)
            \/ seg.fin /\ Close(p)      (* claimed and given back at once *)
  /\ nrtx' = [nrtx EXCEPT ![p] = 0]
  /\ idle' = [idle EXCEPT ![p] = 0]
  /\ UNCHANGED <<srv, unacked>>

(* The pcbs P are freed, and the error callbacks of those that had one ran. *)
Drop(P) ==
  /\ st' = [p \in Pcbs |-> IF p \in P THEN "FREE" ELSE st[p]]
  /\ srv' = [p \in Pcbs |-> IF p \in P THEN "none" ELSE srv[p]]
  /\ arg' = [p \in Pcbs |-> IF p \in P THEN NoSlot ELSE arg[p]]
  /\ unacked' = [p \in Pcbs |-> unacked[p] /\ p \notin P]
  /\ Release(SlotsOf(P))

(* No free slot: closed by the callback, then aborted by lwIP. *)
AcceptRefused(p, seg) ==
  /\ st[p] = "SYN_RCVD"
  /\ seg.ack
  /\ FreeSlots(srv[p]) = {}
  /\ Drop({p})
  /\ nrtx' = [nrtx EXCEPT ![p] = 0]
  /\ idle' = [idle EXCEPT ![p] = 0]
  /\ UNCHANGED out

(* nrtx stops at its width, here at MaxRtx: tcp_rexmit_rto_commit. *)
OneMore(n) == Min({n + 1, MaxRtx})

(* The client repeats its SYN: the SYN and ACK are sent again. *)
SynAgain(p) ==
  /\ st[p] = "SYN_RCVD"
  /\ nrtx' = [nrtx EXCEPT ![p] = OneMore(@)]
  /\ idle' = [idle EXCEPT ![p] = 0]
  /\ UNCHANGED <<st, srv, arg, unacked, slots>>

(* A segment for an open connection. *)
Segment(p, seg) ==
  /\ st[p] = "ESTABLISHED"
  /\ unacked' = [unacked EXCEPT ![p] = @ /\ ~seg.ack]
  /\ nrtx' = [nrtx EXCEPT ![p] = IF seg.ack \/ seg.fin THEN 0 ELSE @]
  /\ \E q \in Received(out[arg[p]], seg) : out' = [out EXCEPT ![arg[p]] = q]
  /\ \/ ~seg.fin /\ UNCHANGED <<st, arg, busy, pcbOf>>
     \/ seg.fin /\ Close(p)
  /\ UNCHANGED <<srv, idle>>

(* Only acknowledgements count once the client has sent its FIN. *)
AckClosePending(p) ==
  /\ st[p] = "CLOSE_WAIT"
  /\ unacked[p]
  /\ unacked' = [unacked EXCEPT ![p] = FALSE]
  /\ nrtx' = [nrtx EXCEPT ![p] = 0]
  /\ UNCHANGED <<st, srv, arg, idle, slots>>

(* The client acknowledges our FIN: TF_CLOSED, tcp_input_delayed_close. *)
LastAck(p) ==
  /\ st[p] = "LAST_ACK"
  /\ Drop({p})
  /\ nrtx' = [nrtx EXCEPT ![p] = 0]
  /\ idle' = [idle EXCEPT ![p] = 0]
  /\ UNCHANGED out

(* An acceptable RST. *)
Rst(p) ==
  /\ st[p] # "FREE"
  /\ Drop({p})
  /\ nrtx' = [nrtx EXCEPT ![p] = 0]
  /\ idle' = [idle EXCEPT ![p] = 0]
  /\ UNCHANGED out

-----------------------------------------------------------------------------
(* Something sent waits for its acknowledgement: SYN, data or FIN. *)
Outstanding(p) ==
  \/ st[p] \in {"SYN_RCVD", "LAST_ACK"}
  \/ st[p] \in {"ESTABLISHED", "CLOSE_WAIT"} /\ unacked[p]

(* tcp_slowtmr removes a pcb: too many retransmissions, or too long. *)
Retired(p) ==
  \/ Outstanding(p) /\ nrtx[p] >= MaxRtx
  \/ st[p] \in {"SYN_RCVD", "LAST_ACK"} /\ idle[p] >= Timeout

(* Bound of the model: tmr is not read in the other states. *)
Aged(p) == IF st[p] \in {"SYN_RCVD", "LAST_ACK"}
             THEN Min({idle[p] + 1, Timeout}) ELSE idle[p]

Retransmitted(p) == IF Outstanding(p) THEN OneMore(nrtx[p]) ELSE nrtx[p]

SlowTmr ==
  /\ Drop({p \in Pcbs : Retired(p)})
  /\ nrtx' = [p \in Pcbs |-> IF Retired(p) THEN 0 ELSE Retransmitted(p)]
  /\ idle' = [p \in Pcbs |-> IF Retired(p) THEN 0 ELSE Aged(p)]
  /\ UNCHANGED out

(* mutant: a FIN is sent only behind data *)
Sendable_BehindData == {p \in ClosePending : unacked[p]}
Sendable == ClosePending

(* tcp_fasttmr tries the pending FINs again; each may fail again. *)
FastTmr(sent) ==
  /\ sent \subseteq Sendable
  /\ st' = [p \in Pcbs |-> IF p \in sent THEN "LAST_ACK" ELSE st[p]]
  /\ UNCHANGED <<srv, arg, unacked, nrtx, idle, slots>>

(***************************************************************************)
(* process(), one slot: the output goes to tcp_write until there is none   *)
(* or lwIP has no room.  With a null pcb_ nothing is sent.                 *)
(***************************************************************************)
Process(s) ==
  /\ busy[s]
  /\ pcbOf[s] # NoPcb
  /\ \E n \in 1..out[s] : out' = [out EXCEPT ![s] = @ - n]
  /\ unacked' = [unacked EXCEPT ![pcbOf[s]] = TRUE]
  /\ UNCHANGED <<st, srv, arg, nrtx, idle, busy, pcbOf>>

-----------------------------------------------------------------------------
Init ==
  /\ st = [p \in Pcbs |-> "FREE"]
  /\ srv = [p \in Pcbs |-> "none"]
  /\ arg = [p \in Pcbs |-> NoSlot]
  /\ unacked = [p \in Pcbs |-> FALSE]
  /\ nrtx = [p \in Pcbs |-> 0]
  /\ idle = [p \in Pcbs |-> 0]
  /\ busy = [s \in Slots |-> FALSE]
  /\ pcbOf = [s \in Slots |-> NoPcb]
  /\ out = [s \in Slots |-> 0]

Next ==
  \/ \E v \in Servers : Syn(v) \/ SynKills(v) \/ SynRefused(v)
  \/ \E p \in Pcbs :
       \/ \E seg \in Segments :
            Accept(p, seg) \/ AcceptRefused(p, seg) \/ Segment(p, seg)
       \/ SynAgain(p) \/ AckClosePending(p) \/ LastAck(p) \/ Rst(p)
  \/ SlowTmr
  \/ \E sent \in SUBSET Pcbs : FastTmr(sent)
  \/ \E s \in Slots : Process(s)

(***************************************************************************)
(* Only the loop is fair: the timers are called again and again, and       *)
(* memory for a FIN is there at one of the attempts.                       *)
(***************************************************************************)
Spec == /\ Init /\ [][Next]_vars
        /\ WF_vars(SlowTmr)
        /\ WF_vars(FastTmr(Sendable) /\ Sendable # {})

-----------------------------------------------------------------------------
TypeOK ==
  /\ st \in [Pcbs -> States]
  /\ srv \in [Pcbs -> Servers \cup {"none"}]
  /\ arg \in [Pcbs -> Slots \cup {NoSlot}]
  /\ unacked \in [Pcbs -> BOOLEAN]
  /\ nrtx \in [Pcbs -> 0..MaxRtx]
  /\ idle \in [Pcbs -> 0..Timeout]
  /\ busy \in [Slots -> BOOLEAN]
  /\ pcbOf \in [Slots -> Pcbs \cup {NoPcb}]
  /\ out \in [Slots -> 0..OutSize]

(***************************************************************************)
(* A connection that is open has a busy slot of its own server, and a busy *)
(* slot that has a pcb at all has one that is open and calls back for that *)
(* very slot: no slot is leaked with its connection gone, none serves two, *)
(* none is used through a pcb lwIP has taken back or given to another.     *)
(***************************************************************************)
SlotsMatchPcbs ==
  /\ \A p \in Pcbs :
       IF st[p] = "ESTABLISHED"
         THEN /\ arg[p] \in Slots
              /\ arg[p][1] = srv[p]
              /\ busy[arg[p]]
              /\ pcbOf[arg[p]] = p
         ELSE arg[p] = NoSlot
  /\ \A s \in Slots :
       busy[s] /\ pcbOf[s] # NoPcb =>
         st[pcbOf[s]] = "ESTABLISHED" /\ arg[pcbOf[s]] = s

(***************************************************************************)
(* A slot is given back only in the step that ends its connection, and     *)
(* what it serves changes only through being given back.                   *)
(***************************************************************************)
SlotsHeldWhileOpen ==
  [][\A s \in Slots : busy[s] /\ pcbOf[s] # NoPcb =>
       \/ busy'[s] /\ pcbOf'[s] = pcbOf[s] /\ st'[pcbOf[s]] = "ESTABLISHED"
       \/ ~busy'[s] /\ st'[pcbOf[s]] # "ESTABLISHED"]_vars

SlotsFollowPcbs == [](TypeOK /\ SlotsMatchPcbs) /\ SlotsHeldWhileOpen

NewRequest == \E p \in Pcbs : st'[p] = "SYN_RCVD" /\ st[p] # "SYN_RCVD"

(***************************************************************************)
(* A request takes the pcb of an open connection only when none is closing *)
(* already, and never that of a client of the binary server (TCP_PRIO_MAX) *)
(* however few pcbs there are.  It fails only when every pcb is in a       *)
(* handshake or belongs to a client, past or present, of that server.      *)
(***************************************************************************)
KillsInOrder ==
  [][/\ NewRequest /\ busy' # busy => InState({"LAST_ACK", "FREE"}) = {}
     /\ NewRequest => \A s \in Slots : s[1] = "binary" /\ busy[s] => busy'[s]
     /\ (\E s \in Slots : ~busy[s] /\ busy'[s] /\ pcbOf'[s] = NoPcb) =>
          \A p \in Pcbs : \/ st[p] = "SYN_RCVD"
                          \/ st[p] # "FREE" /\ srv[p] = "binary"]_vars

(***************************************************************************)
(* No pcb is kept for ever by a handshake or a close that does not get     *)
(* on, nor by a client that has vanished while something was on the way to *)
(* it, whatever clients do or leave undone.  (One that vanishes in silence *)
(* keeps its slot: no keepalive is set and callback_poll does nothing.)    *)
(* The pcbs are alike: one stands for all.                                 *)
(***************************************************************************)
Settled(p) == st[p] = "FREE" \/ (st[p] = "ESTABLISHED" /\ ~unacked[p])
GetsOn(p) == []<>Settled(p) \/ []<><<st'[p] # st[p]>>_vars
ConnectionsEnd == GetsOn(CHOOSE p \in Pcbs : TRUE)
=============================================================================
