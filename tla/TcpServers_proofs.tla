------------------------- MODULE TcpServers_proofs -------------------------
(***************************************************************************)
(* Slots and open connections belong to each other for any number of pcbs  *)
(* and slots.  Every step that ends connections gives back exactly their   *)
(* slots (Release), and the one that opens a connection claims a slot that *)
(* nothing uses (Claim).  Whom a request may take a pcb from follows from  *)
(* the three priorities there are (DispensableAre).                        *)
(***************************************************************************)
EXTENDS TcpServers, WellFoundedInduction, TLAPS

(* A pcb in use came from one of the listeners. *)
ListenerKnown == \A p \in Pcbs : st[p] # "FREE" => srv[p] \in Servers

Ind == TypeOK /\ SlotsMatchPcbs /\ ListenerKnown

(* SlotsHeldWhileOpen, of one step. *)
Held ==
  \A s \in Slots : busy[s] /\ pcbOf[s] # NoPcb =>
    \/ busy'[s] /\ pcbOf'[s] = pcbOf[s] /\ st'[pcbOf[s]] = "ESTABLISHED"
    \/ ~busy'[s] /\ st'[pcbOf[s]] # "ESTABLISHED"

-----------------------------------------------------------------------------
LEMMA NoSlotIsNone == NoSlot \notin Slots
BY TcpServersAssumption DEF NoSlot, Slots

LEMMA LeastOfTwo ==
  ASSUME NEW a \in Nat, NEW b \in Nat
  PROVE  Min({a, b}) = IF a <= b THEN a ELSE b
<1>1. CASE a <= b
  <2>1. /\ a \in {a, b} /\ \A y \in {a, b} : a <= y
        /\ \A x \in {a, b} : (\A y \in {a, b} : x <= y) => x = a
    BY <1>1
  <2> QED BY <1>1, <2>1 DEF Min
<1>2. CASE ~(a <= b)
  <2>1. /\ b \in {a, b} /\ \A y \in {a, b} : b <= y
        /\ \A x \in {a, b} : (\A y \in {a, b} : x <= y) => x = b
    BY <1>2
  <2> QED BY <1>2, <2>1 DEF Min
<1> QED BY <1>1, <1>2

LEMMA LeastIsIn ==
  ASSUME NEW S \in SUBSET Nat, S # {}
  PROVE  Min(S) \in S
<1>1. \E x \in S : \A y \in S : ~(<<y, x>> \in OpToRel(<, Nat))
  BY WFMin, NatLessThanWellFounded, Zenon
<1>2. PICK x \in S : \A y \in S : ~(y < x)
  BY <1>1 DEF OpToRel
<1>3. \A y \in S : x <= y
  BY <1>2
<1> QED BY <1>3 DEF Min

LEMMA EnqueueFits ==
  ASSUME NEW q \in 0..OutSize, NEW n \in Nat
  PROVE  Enqueue(q, n) \in 0..OutSize
BY LeastOfTwo, TcpServersAssumption DEF Enqueue

LEMMA OneMoreFits ==
  ASSUME NEW n \in 0..MaxRtx
  PROVE  OneMore(n) \in 0..MaxRtx
BY LeastOfTwo, TcpServersAssumption DEF OneMore

(* The slot that is claimed is one of the server's, and free. *)
LEMMA FirstFree ==
  ASSUME TypeOK, NEW v \in Servers, FreeSlots(v) # {}
  PROVE  <<v, Min(FreeSlots(v))>> \in Slots /\ ~busy[<<v, Min(FreeSlots(v))>>]
<1>1. FreeSlots(v) \subseteq Nat
  BY TcpServersAssumption DEF FreeSlots
<1>2. Min(FreeSlots(v)) \in FreeSlots(v)
  BY <1>1, LeastIsIn
<1> QED BY <1>2 DEF FreeSlots, Slots

-----------------------------------------------------------------------------
(* Connections P end and their slots are given back. *)
LEMMA ReleaseKeeps ==
  ASSUME Ind, NEW P \in SUBSET Pcbs,
         Release(SlotsOf(P)),
         arg' = [p \in Pcbs |-> IF p \in P THEN NoSlot ELSE arg[p]],
         \A p \in P : st'[p] # "ESTABLISHED",
         \A p \in Pcbs \ P : /\ st'[p] = "ESTABLISHED" <=> st[p] = "ESTABLISHED"
                             /\ srv'[p] = srv[p]
  PROVE  /\ SlotsMatchPcbs' /\ Held
         /\ busy' \in [Slots -> BOOLEAN]
         /\ pcbOf' \in [Slots -> Pcbs \cup {NoPcb}]
         /\ arg' \in [Pcbs -> Slots \cup {NoSlot}]
<1>1. /\ busy' \in [Slots -> BOOLEAN]
      /\ pcbOf' \in [Slots -> Pcbs \cup {NoPcb}]
      /\ arg' \in [Pcbs -> Slots \cup {NoSlot}]
  BY DEF Release, Ind, TypeOK
<1>2. ASSUME NEW s \in Slots, busy[s], pcbOf[s] # NoPcb
      PROVE  /\ pcbOf[s] \in Pcbs /\ arg[pcbOf[s]] = s
             /\ st[pcbOf[s]] = "ESTABLISHED"
             /\ s \in SlotsOf(P) <=> pcbOf[s] \in P
  <2>1. pcbOf[s] \in Pcbs /\ arg[pcbOf[s]] = s /\ st[pcbOf[s]] = "ESTABLISHED"
    BY <1>2 DEF Ind, TypeOK, SlotsMatchPcbs
  <2>2. ASSUME s \in SlotsOf(P) PROVE pcbOf[s] \in P
    <3>1. PICK p \in P : arg[p] = s
      BY <2>2 DEF SlotsOf
    <3>2. st[p] = "ESTABLISHED" /\ pcbOf[s] = p
      BY <3>1, NoSlotIsNone DEF Ind, SlotsMatchPcbs
    <3> QED BY <3>2
  <2>3. ASSUME pcbOf[s] \in P PROVE s \in SlotsOf(P)
    BY <2>1, <2>3, NoSlotIsNone DEF SlotsOf
  <2> QED BY <2>1, <2>2, <2>3
<1>3. ASSUME NEW p \in Pcbs
      PROVE  IF st'[p] = "ESTABLISHED"
               THEN /\ arg'[p] \in Slots /\ arg'[p][1] = srv'[p]
                    /\ busy'[arg'[p]] /\ pcbOf'[arg'[p]] = p
               ELSE arg'[p] = NoSlot
  <2>1. CASE p \in P
    BY <2>1
  <2>2. CASE p \notin P /\ st[p] = "ESTABLISHED"
    <3>1. /\ arg[p] \in Slots /\ arg[p][1] = srv[p]
          /\ busy[arg[p]] /\ pcbOf[arg[p]] = p /\ pcbOf[arg[p]] # NoPcb
      BY <2>2, TcpServersAssumption DEF Ind, SlotsMatchPcbs
    <3>2. arg[p] \notin SlotsOf(P)
      BY <1>2, <2>2, <3>1
    <3> QED BY <2>2, <3>1, <3>2 DEF Release
  <2>3. CASE p \notin P /\ st[p] # "ESTABLISHED"
    BY <2>3 DEF Ind, SlotsMatchPcbs
  <2> QED BY <2>1, <2>2, <2>3
<1>4. ASSUME NEW s \in Slots, busy'[s], pcbOf'[s] # NoPcb
      PROVE  st'[pcbOf'[s]] = "ESTABLISHED" /\ arg'[pcbOf'[s]] = s
  <2>1. busy[s] /\ s \notin SlotsOf(P) /\ pcbOf'[s] = pcbOf[s]
    BY <1>4 DEF Release
  <2> QED BY <1>2, <1>4, <2>1
<1>5. Held
  <2>1. ASSUME NEW s \in Slots, busy[s], pcbOf[s] # NoPcb, s \in SlotsOf(P)
        PROVE  ~busy'[s] /\ st'[pcbOf[s]] # "ESTABLISHED"
    BY <1>2, <2>1 DEF Release
  <2>2. ASSUME NEW s \in Slots, busy[s], pcbOf[s] # NoPcb, s \notin SlotsOf(P)
        PROVE  busy'[s] /\ pcbOf'[s] = pcbOf[s] /\ st'[pcbOf[s]] = "ESTABLISHED"
    BY <1>2, <2>2 DEF Release
  <2> QED BY <2>1, <2>2 DEF Held
<1> QED BY <1>1, <1>3, <1>4, <1>5 DEF SlotsMatchPcbs

(* Nothing about slots and open connections changes. *)
LEMMA UntouchedKeeps ==
  ASSUME Ind, UNCHANGED <<arg, busy, pcbOf>>,
         \A p \in Pcbs : /\ st'[p] = "ESTABLISHED" <=> st[p] = "ESTABLISHED"
                         /\ st[p] = "ESTABLISHED" => srv'[p] = srv[p]
  PROVE  SlotsMatchPcbs' /\ Held
<1>1. SlotsMatchPcbs'
  BY DEF Ind, TypeOK, SlotsMatchPcbs
<1>2. Held
  BY DEF Ind, TypeOK, SlotsMatchPcbs, Held
<1> QED BY <1>1, <1>2

(* A free slot is claimed for a connection that opens. *)
LEMMA ClaimKeeps ==
  ASSUME Ind, NEW p \in Pcbs, srv[p] \in Servers, FreeSlots(srv[p]) # {},
         Claim(srv[p], p), st[p] # "ESTABLISHED",
         st' = [st EXCEPT ![p] = "ESTABLISHED"],
         arg' = [arg EXCEPT ![p] = <<srv[p], Min(FreeSlots(srv[p]))>>],
         srv' = srv
  PROVE  SlotsMatchPcbs' /\ Held
<1> DEFINE c == <<srv[p], Min(FreeSlots(srv[p]))>>
<1>1. c \in Slots /\ ~busy[c] /\ c[1] = srv[p]
  BY FirstFree DEF Ind
<1>2. /\ busy' = [busy EXCEPT ![c] = TRUE] /\ pcbOf' = [pcbOf EXCEPT ![c] = p]
      /\ arg' = [arg EXCEPT ![p] = c]
  BY DEF Claim
<1> HIDE DEF c
<1>3. ASSUME NEW q \in Pcbs
      PROVE  IF st'[q] = "ESTABLISHED"
               THEN /\ arg'[q] \in Slots /\ arg'[q][1] = srv'[q]
                    /\ busy'[arg'[q]] /\ pcbOf'[arg'[q]] = q
               ELSE arg'[q] = NoSlot
  BY <1>1, <1>2 DEF Ind, TypeOK, SlotsMatchPcbs
<1>4. ASSUME NEW s \in Slots, busy'[s], pcbOf'[s] # NoPcb
      PROVE  st'[pcbOf'[s]] = "ESTABLISHED" /\ arg'[pcbOf'[s]] = s
  BY <1>1, <1>2, <1>4 DEF Ind, TypeOK, SlotsMatchPcbs
<1>5. Held
  BY <1>1, <1>2 DEF Ind, TypeOK, SlotsMatchPcbs, Held
<1> QED BY <1>3, <1>4, <1>5 DEF SlotsMatchPcbs

-----------------------------------------------------------------------------
LEMMA Initial == Init => Ind
<1> SUFFICES ASSUME Init PROVE Ind
  OBVIOUS
<1>1. TypeOK
  BY TcpServersAssumption DEF Init, TypeOK, States
<1>2. SlotsMatchPcbs /\ ListenerKnown
  BY DEF Init, SlotsMatchPcbs, ListenerKnown
<1> QED BY <1>1, <1>2 DEF Ind

LEMMA SynStep ==
  ASSUME Ind, NEW v \in Servers, Syn(v)
  PROVE  Ind' /\ Held
<1>1. PICK p \in InState({"FREE"}) : NewPcb(v, p, {}) /\ UNCHANGED slots
  BY DEF Syn
<1>2. p \in Pcbs /\ st[p] = "FREE" /\ arg[p] = NoSlot
  BY <1>1 DEF InState, Ind, SlotsMatchPcbs
<1>3. TypeOK' /\ ListenerKnown'
  BY <1>1, <1>2, TcpServersAssumption
     DEF NewPcb, slots, Ind, TypeOK, ListenerKnown, States
<1>4. UNCHANGED <<arg, busy, pcbOf>>
  BY <1>1, <1>2 DEF NewPcb, slots, Ind, TypeOK
<1>5. \A q \in Pcbs : /\ st'[q] = "ESTABLISHED" <=> st[q] = "ESTABLISHED"
                      /\ st[q] = "ESTABLISHED" => srv'[q] = srv[q]
  BY <1>1, <1>2 DEF NewPcb, Ind, TypeOK
<1> QED BY <1>3, <1>4, <1>5, UntouchedKeeps DEF Ind

LEMMA SynKillsStep ==
  ASSUME Ind, NEW v \in Servers, SynKills(v)
  PROVE  Ind' /\ Held
<1>0. PICK sent \in SUBSET ClosePending : \E p \in Victims(sent) :
        NewPcb(v, p, sent) /\ Release(SlotsOf({p})) /\ UNCHANGED out
  BY DEF SynKills
<1>1. PICK p \in Victims(sent) :
        NewPcb(v, p, sent) /\ Release(SlotsOf({p})) /\ UNCHANGED out
  BY <1>0
<1>2. p \in Pcbs
  BY <1>1 DEF Victims, ClosePending, Dispensable, InState
<1>3. \A q \in sent : st[q] = "CLOSE_WAIT"
  BY <1>1 DEF ClosePending, InState
<1>4. arg' = [q \in Pcbs |-> IF q \in {p} THEN NoSlot ELSE arg[q]]
  BY <1>1 DEF NewPcb, Ind, TypeOK
<1>5. \A q \in {p} : st'[q] # "ESTABLISHED"
  BY <1>1, <1>2 DEF NewPcb
<1>6. \A q \in Pcbs \ {p} : /\ st'[q] = "ESTABLISHED" <=> st[q] = "ESTABLISHED"
                            /\ srv'[q] = srv[q]
  BY <1>1, <1>3 DEF NewPcb, Ind, TypeOK
<1>7. /\ SlotsMatchPcbs' /\ Held
      /\ busy' \in [Slots -> BOOLEAN]
      /\ pcbOf' \in [Slots -> Pcbs \cup {NoPcb}]
      /\ arg' \in [Pcbs -> Slots \cup {NoSlot}]
  BY <1>1, <1>2, <1>4, <1>5, <1>6, ReleaseKeeps
<1>8. TypeOK' /\ ListenerKnown'
  <2>1. st' \in [Pcbs -> States] /\ ListenerKnown'
    BY <1>1, <1>2, <1>3 DEF NewPcb, Ind, TypeOK, States, ListenerKnown
  <2>2. /\ srv' \in [Pcbs -> Servers \cup {"none"}]
        /\ unacked' \in [Pcbs -> BOOLEAN]
    BY <1>1 DEF NewPcb, Ind, TypeOK
  <2>3. 0 \in 0..MaxRtx /\ 0 \in 0..Timeout
    BY TcpServersAssumption
  <2>4. /\ nrtx' \in [Pcbs -> 0..MaxRtx]
        /\ idle' \in [Pcbs -> 0..Timeout]
        /\ out' \in [Slots -> 0..OutSize]
    BY <1>1, <2>3 DEF NewPcb, Ind, TypeOK
  <2> QED BY <1>7, <2>1, <2>2, <2>4 DEF TypeOK
<1> QED BY <1>7, <1>8 DEF Ind

LEMMA GreetingIsNat == ASSUME NEW v PROVE Greeting(v) \in Nat
BY DEF Greeting

(* The slot that is lost has no pcb. *)
LEMMA SynRefusedStep ==
  ASSUME Ind, NEW v \in Servers, SynRefused(v)
  PROVE  Ind' /\ Held
<1> DEFINE c == <<v, Min(FreeSlots(v))>>
<1>1. c \in Slots /\ ~busy[c]
  BY FirstFree DEF Ind, SynRefused
<1>2. /\ busy' = [busy EXCEPT ![c] = TRUE] /\ pcbOf' = [pcbOf EXCEPT ![c] = NoPcb]
      /\ out' = [out EXCEPT ![c] = Enqueue(@, Greeting(v))]
      /\ UNCHANGED tcp
  BY DEF SynRefused, Claim
<1> HIDE DEF c
<1>3. Enqueue(out[c], Greeting(v)) \in 0..OutSize
  BY <1>1, EnqueueFits, GreetingIsNat DEF Ind, TypeOK
<1>4. TypeOK' /\ ListenerKnown'
  BY <1>1, <1>2, <1>3 DEF tcp, Ind, TypeOK, ListenerKnown
<1>5. SlotsMatchPcbs'
  BY <1>1, <1>2 DEF tcp, Ind, TypeOK, SlotsMatchPcbs
<1>6. Held
  BY <1>1, <1>2 DEF tcp, Ind, TypeOK, SlotsMatchPcbs, Held
<1> QED BY <1>4, <1>5, <1>6 DEF Ind

-----------------------------------------------------------------------------
LEMMA ReceivedFits ==
  ASSUME NEW q \in 0..OutSize, NEW seg \in Segments
  PROVE  Received(q, seg) \subseteq 0..OutSize
BY EnqueueFits DEF Received

(* A close takes the slot, if there is one, and nothing else. *)
LEMMA CloseKeeps ==
  ASSUME Ind, NEW p \in Pcbs, Close(p), UNCHANGED srv, srv[p] \in Servers
  PROVE  /\ SlotsMatchPcbs' /\ ListenerKnown' /\ Held
         /\ st' \in [Pcbs -> States]
         /\ busy' \in [Slots -> BOOLEAN]
         /\ pcbOf' \in [Slots -> Pcbs \cup {NoPcb}]
         /\ arg' \in [Pcbs -> Slots \cup {NoSlot}]
<1>1. arg' = [q \in Pcbs |-> IF q \in {p} THEN NoSlot ELSE arg[q]]
  BY DEF Close, Ind, TypeOK
<1>2. /\ st' \in [Pcbs -> States]
      /\ \A q \in {p} : st'[q] # "ESTABLISHED"
      /\ \A q \in Pcbs \ {p} : st'[q] = st[q]
  BY DEF Close, Ind, TypeOK, States
<1>3. ListenerKnown'
  BY <1>2 DEF Ind, ListenerKnown
<1> QED BY <1>1, <1>2, <1>3, ReleaseKeeps DEF Close

LEMMA AcceptStep ==
  ASSUME Ind, NEW p \in Pcbs, NEW seg \in Segments, Accept(p, seg)
  PROVE  Ind' /\ Held
<1> DEFINE c == <<srv[p], Min(FreeSlots(srv[p]))>>
<1>1. srv[p] \in Servers
  BY DEF Accept, Ind, ListenerKnown
<1>2. c \in Slots
  BY <1>1, FirstFree DEF Accept, Ind
<1>3. out' \in [Slots -> 0..OutSize]
  <2>1. Enqueue(out[c], Greeting(srv[p])) \in 0..OutSize
    BY <1>2, EnqueueFits, GreetingIsNat DEF Ind, TypeOK
  <2>2. Received(Enqueue(out[c], Greeting(srv[p])), seg) \subseteq 0..OutSize
    BY <2>1, ReceivedFits
  <2> QED BY <1>2, <2>2 DEF Accept, Ind, TypeOK
<1>4. /\ srv' \in [Pcbs -> Servers \cup {"none"}]
      /\ unacked' \in [Pcbs -> BOOLEAN]
      /\ nrtx' \in [Pcbs -> 0..MaxRtx]
      /\ idle' \in [Pcbs -> 0..Timeout]
  BY TcpServersAssumption DEF Accept, Ind, TypeOK
<1>5. CASE Close(p)
  BY <1>1, <1>3, <1>4, <1>5, CloseKeeps DEF Accept, Ind, TypeOK
<1>6. CASE /\ st' = [st EXCEPT ![p] = "ESTABLISHED"]
           /\ arg' = [arg EXCEPT ![p] = c]
           /\ Claim(srv[p], p)
  <2>1. SlotsMatchPcbs' /\ Held
    BY <1>1, <1>6, ClaimKeeps DEF Accept
  <2>2. /\ st' \in [Pcbs -> States] /\ ListenerKnown'
        /\ arg' \in [Pcbs -> Slots \cup {NoSlot}]
        /\ busy' \in [Slots -> BOOLEAN]
        /\ pcbOf' \in [Slots -> Pcbs \cup {NoPcb}]
    BY <1>1, <1>2, <1>6 DEF Accept, Claim, Ind, TypeOK, States, ListenerKnown
  <2> QED BY <1>3, <1>4, <2>1, <2>2 DEF Ind, TypeOK
<1> QED BY <1>5, <1>6 DEF Accept

LEMMA SegmentStep ==
  ASSUME Ind, NEW p \in Pcbs, NEW seg \in Segments, Segment(p, seg)
  PROVE  Ind' /\ Held
<1>1. srv[p] \in Servers /\ arg[p] \in Slots
  BY DEF Segment, Ind, ListenerKnown, SlotsMatchPcbs
<1>2. out' \in [Slots -> 0..OutSize]
  <2>1. Received(out[arg[p]], seg) \subseteq 0..OutSize
    BY <1>1, ReceivedFits DEF Ind, TypeOK
  <2> QED BY <1>1, <2>1 DEF Segment, Ind, TypeOK
<1>3. /\ srv' \in [Pcbs -> Servers \cup {"none"}]
      /\ unacked' \in [Pcbs -> BOOLEAN]
      /\ nrtx' \in [Pcbs -> 0..MaxRtx]
      /\ idle' \in [Pcbs -> 0..Timeout]
  BY TcpServersAssumption DEF Segment, Ind, TypeOK
<1>4. CASE Close(p)
  BY <1>1, <1>2, <1>3, <1>4, CloseKeeps DEF Segment, Ind, TypeOK
<1>5. CASE UNCHANGED <<st, arg, busy, pcbOf>>
  <2>1. SlotsMatchPcbs' /\ Held
    BY <1>5, UntouchedKeeps DEF Segment
  <2> QED BY <1>2, <1>3, <1>5, <2>1 DEF Segment, Ind, TypeOK, ListenerKnown
<1> QED BY <1>4, <1>5 DEF Segment

-----------------------------------------------------------------------------
(* Pcbs are freed, with whatever the retransmission counts become. *)
LEMMA DropStep ==
  ASSUME Ind, NEW P \in SUBSET Pcbs, Drop(P), UNCHANGED out,
         nrtx' \in [Pcbs -> 0..MaxRtx], idle' \in [Pcbs -> 0..Timeout]
  PROVE  Ind' /\ Held
<1>1. /\ SlotsMatchPcbs' /\ Held
      /\ busy' \in [Slots -> BOOLEAN]
      /\ pcbOf' \in [Slots -> Pcbs \cup {NoPcb}]
      /\ arg' \in [Pcbs -> Slots \cup {NoSlot}]
  BY ReleaseKeeps DEF Drop
<1>2. /\ st' \in [Pcbs -> States]
      /\ srv' \in [Pcbs -> Servers \cup {"none"}]
      /\ unacked' \in [Pcbs -> BOOLEAN]
      /\ out' \in [Slots -> 0..OutSize]
      /\ ListenerKnown'
  BY DEF Drop, Ind, TypeOK, States, ListenerKnown
<1> QED BY <1>1, <1>2 DEF Ind, TypeOK

LEMMA EndStep ==
  ASSUME Ind, NEW p \in Pcbs,
         \/ \E seg \in Segments : AcceptRefused(p, seg)
         \/ LastAck(p) \/ Rst(p)
  PROVE  Ind' /\ Held
<1>1. /\ Drop({p}) /\ UNCHANGED out
      /\ nrtx' = [nrtx EXCEPT ![p] = 0] /\ idle' = [idle EXCEPT ![p] = 0]
  BY DEF AcceptRefused, LastAck, Rst
<1>2. nrtx' \in [Pcbs -> 0..MaxRtx] /\ idle' \in [Pcbs -> 0..Timeout]
  BY <1>1, TcpServersAssumption DEF Ind, TypeOK
<1>3. {p} \in SUBSET Pcbs
  OBVIOUS
<1> QED BY <1>1, <1>2, <1>3, DropStep

LEMMA SlowTmrStep ==
  ASSUME Ind, SlowTmr
  PROVE  Ind' /\ Held
<1> DEFINE P == {p \in Pcbs : Retired(p)}
<1>1. ASSUME NEW p \in Pcbs PROVE Retransmitted(p) \in 0..MaxRtx
  BY OneMoreFits DEF Retransmitted, Ind, TypeOK
<1>2. ASSUME NEW p \in Pcbs PROVE Aged(p) \in 0..Timeout
  BY LeastOfTwo, TcpServersAssumption DEF Aged, Ind, TypeOK
<1>3. nrtx' \in [Pcbs -> 0..MaxRtx] /\ idle' \in [Pcbs -> 0..Timeout]
  BY <1>1, <1>2, TcpServersAssumption DEF SlowTmr
<1>4. P \in SUBSET Pcbs /\ Drop(P) /\ UNCHANGED out
  BY DEF SlowTmr
<1> QED BY <1>3, <1>4, DropStep

(* Steps that touch neither a slot nor an open connection. *)
LEMMA OtherPcbStep ==
  ASSUME Ind, NEW p \in Pcbs, SynAgain(p) \/ AckClosePending(p)
  PROVE  Ind' /\ Held
<1>1. nrtx' \in [Pcbs -> 0..MaxRtx]
  BY OneMoreFits, TcpServersAssumption
     DEF SynAgain, AckClosePending, Ind, TypeOK
<1>2. UNCHANGED <<st, srv, arg, busy, pcbOf, out>>
  BY DEF SynAgain, AckClosePending, slots
<1>3. idle' \in [Pcbs -> 0..Timeout] /\ unacked' \in [Pcbs -> BOOLEAN]
  <2>1. 0 \in 0..Timeout
    BY TcpServersAssumption
  <2>2. CASE SynAgain(p)
    BY <2>1, <2>2 DEF SynAgain, Ind, TypeOK
  <2>3. CASE AckClosePending(p)
    BY <2>3 DEF AckClosePending, Ind, TypeOK
  <2> QED BY <2>2, <2>3
<1>4. TypeOK' /\ ListenerKnown'
  BY <1>1, <1>2, <1>3 DEF Ind, TypeOK, ListenerKnown
<1> QED BY <1>2, <1>4, UntouchedKeeps DEF Ind

LEMMA FastTmrStep ==
  ASSUME Ind, NEW sent \in SUBSET Pcbs, FastTmr(sent)
  PROVE  Ind' /\ Held
<1>1. \A p \in sent : p \in Pcbs /\ st[p] = "CLOSE_WAIT"
  BY DEF FastTmr, Sendable, ClosePending, InState
<1>2. UNCHANGED <<srv, arg, unacked, nrtx, idle, busy, pcbOf, out>>
  BY DEF FastTmr, slots
<1>3. \A p \in Pcbs : st'[p] = "ESTABLISHED" <=> st[p] = "ESTABLISHED"
  BY <1>1 DEF FastTmr
<1>4. st' \in [Pcbs -> States] /\ ListenerKnown'
  BY <1>1, <1>2 DEF FastTmr, Ind, TypeOK, States, ListenerKnown
<1>5. TypeOK'
  BY <1>2, <1>4 DEF Ind, TypeOK
<1> QED BY <1>2, <1>3, <1>4, <1>5, UntouchedKeeps DEF Ind

LEMMA ProcessStep ==
  ASSUME Ind, NEW s \in Slots, Process(s)
  PROVE  Ind' /\ Held
<1>1. UNCHANGED <<st, srv, arg, nrtx, idle, busy, pcbOf>>
  BY DEF Process
<1>2. out' \in [Slots -> 0..OutSize] /\ unacked' \in [Pcbs -> BOOLEAN]
  BY TcpServersAssumption DEF Process, Ind, TypeOK
<1>3. TypeOK' /\ ListenerKnown'
  BY <1>1, <1>2 DEF Ind, TypeOK, ListenerKnown
<1> QED BY <1>1, <1>3, UntouchedKeeps DEF Ind

LEMMA Step ==
  ASSUME Ind, [Next]_vars
  PROVE  Ind' /\ Held
<1>1. ASSUME NEW v \in Servers, Syn(v) \/ SynKills(v) \/ SynRefused(v)
      PROVE  Ind' /\ Held
  BY <1>1, SynStep, SynKillsStep, SynRefusedStep
<1>2. ASSUME NEW p \in Pcbs, NEW seg \in Segments,
             Accept(p, seg) \/ Segment(p, seg)
      PROVE  Ind' /\ Held
  BY <1>2, AcceptStep, SegmentStep
<1>3. ASSUME NEW p \in Pcbs,
             \/ \E seg \in Segments : AcceptRefused(p, seg)
             \/ LastAck(p) \/ Rst(p)
      PROVE  Ind' /\ Held
  BY <1>3, EndStep
<1>4. ASSUME NEW p \in Pcbs, SynAgain(p) \/ AckClosePending(p)
      PROVE  Ind' /\ Held
  BY <1>4, OtherPcbStep
<1>5. CASE SlowTmr
  BY <1>5, SlowTmrStep
<1>6. ASSUME NEW sent \in SUBSET Pcbs, FastTmr(sent) PROVE Ind' /\ Held
  BY <1>6, FastTmrStep
<1>7. ASSUME NEW s \in Slots, Process(s) PROVE Ind' /\ Held
  BY <1>7, ProcessStep
<1>8. CASE UNCHANGED vars
  <2>1. UNCHANGED <<st, srv, arg, unacked, nrtx, idle, busy, pcbOf, out>>
    BY <1>8 DEF vars, tcp, slots
  <2>2. TypeOK' /\ ListenerKnown'
    BY <2>1 DEF Ind, TypeOK, ListenerKnown
  <2> QED BY <2>1, <2>2, UntouchedKeeps DEF Ind
<1> QED BY <1>1, <1>2, <1>3, <1>4, <1>5, <1>6, <1>7, <1>8 DEF Next

(***************************************************************************)
(* However many pcbs and slots there are, and whatever the clients do: no  *)
(* slot is leaked with its connection, shared by two, or used through a    *)
(* pcb of another, and none is given back before its connection ends.      *)
(***************************************************************************)
THEOREM SlotsCorrect == Spec => SlotsFollowPcbs
<1>1. Ind => TypeOK /\ SlotsMatchPcbs
  BY DEF Ind
<1>2. Ind /\ [Next]_vars => Ind'
  BY Step
<1>3. Ind /\ [Next]_vars =>
        [\A s \in Slots : busy[s] /\ pcbOf[s] # NoPcb =>
           \/ busy'[s] /\ pcbOf'[s] = pcbOf[s] /\ st'[pcbOf[s]] = "ESTABLISHED"
           \/ ~busy'[s] /\ st'[pcbOf[s]] # "ESTABLISHED"]_vars
  BY Step DEF Held
<1> QED BY Initial, <1>1, <1>2, <1>3, PTL
      DEF Spec, SlotsFollowPcbs, SlotsHeldWhileOpen
-----------------------------------------------------------------------------
(* There are three priorities, and the binary server's is the highest. *)
LEMMA Priorities ==
  ASSUME NEW p
  PROVE  /\ Prio(p) \in {TCP_PRIO_MIN, TCP_PRIO_NORMAL, TCP_PRIO_MAX}
         /\ Prio(p) < TCP_PRIO_NORMAL <=> st[p] # "SYN_RCVD" /\ srv[p] # "binary"
         /\ Prio(p) < TCP_PRIO_NORMAL => Prio(p) = TCP_PRIO_MIN
BY DEF Prio, AcceptPrio, TCP_PRIO_MIN, TCP_PRIO_NORMAL, TCP_PRIO_MAX

(* tcp_kill_prio finds any connection past its handshake, but the binary ones. *)
LEMMA DispensableAre ==
  Dispensable = {p \in Pcbs : /\ st[p] \in States \ {"FREE", "SYN_RCVD"}
                              /\ srv[p] # "binary"}
<1> DEFINE below == {p \in InState(States \ {"FREE"}) : Prio(p) < TCP_PRIO_NORMAL}
<1>1. below = {p \in Pcbs : /\ st[p] \in States \ {"FREE", "SYN_RCVD"}
                            /\ srv[p] # "binary"}
  BY Priorities DEF InState
<1>2. ASSUME NEW p \in below, NEW q \in below PROVE Prio(p) <= Prio(q)
  <2>1. Prio(p) = TCP_PRIO_MIN /\ Prio(q) = TCP_PRIO_MIN
    BY Priorities
  <2> QED BY <2>1 DEF TCP_PRIO_MIN
<1>3. Dispensable = {p \in below : \A q \in below : Prio(p) <= Prio(q)}
  BY DEF Dispensable
<1> HIDE DEF below
<1> QED BY <1>1, <1>2, <1>3

(* A pcb enters the handshake only by a request. *)
LEMMA OnlyRequestsStart ==
  ASSUME Ind, Next, NewRequest
  PROVE  \E v \in Servers : Syn(v) \/ SynKills(v)
<1>1. PICK p \in Pcbs : st'[p] = "SYN_RCVD" /\ st[p] # "SYN_RCVD"
  BY DEF NewRequest
<1>2. ASSUME NEW v \in Servers, SynRefused(v) PROVE FALSE
  BY <1>1, <1>2 DEF SynRefused, tcp
<1>3. ASSUME NEW q \in Pcbs, NEW seg \in Segments, Accept(q, seg) PROVE FALSE
  BY <1>1, <1>3 DEF Accept, Close, Ind, TypeOK
<1>4. ASSUME NEW q \in Pcbs, NEW seg \in Segments, Segment(q, seg) PROVE FALSE
  BY <1>1, <1>4 DEF Segment, Close, Ind, TypeOK
<1>5. ASSUME NEW P, Drop(P) PROVE FALSE
  BY <1>1, <1>5 DEF Drop
<1>6. ASSUME NEW q \in Pcbs, SynAgain(q) \/ AckClosePending(q) PROVE FALSE
  BY <1>1, <1>6 DEF SynAgain, AckClosePending
<1>7. ASSUME NEW sent, FastTmr(sent) PROVE FALSE
  BY <1>1, <1>7 DEF FastTmr
<1>8. ASSUME NEW s \in Slots, Process(s) PROVE FALSE
  BY <1>1, <1>8 DEF Process
<1> QED BY <1>2, <1>3, <1>4, <1>5, <1>6, <1>7, <1>8
        DEF Next, AcceptRefused, LastAck, Rst, SlowTmr

(* A slot is claimed without a pcb only when tcp_alloc has failed. *)
LEMMA OnlyRefusalsLose ==
  ASSUME Ind, Next, NEW s \in Slots, ~busy[s], busy'[s], pcbOf'[s] = NoPcb
  PROVE  \E v \in Servers : SynRefused(v)
<1>1. ASSUME NEW S, Release(S) PROVE FALSE
  BY <1>1 DEF Release
<1>2. ASSUME UNCHANGED busy PROVE FALSE
  BY <1>2
<1>3. ASSUME NEW p \in Pcbs, NEW v, Claim(v, p) PROVE FALSE
  BY <1>3, TcpServersAssumption DEF Claim, Ind, TypeOK
<1>4. ASSUME NEW v \in Servers, Syn(v) \/ SynKills(v) PROVE FALSE
  BY <1>1, <1>2, <1>4 DEF Syn, SynKills, slots
<1>5. ASSUME NEW p \in Pcbs, NEW seg \in Segments,
             Accept(p, seg) \/ Segment(p, seg)
      PROVE  FALSE
  BY <1>1, <1>2, <1>3, <1>5 DEF Accept, Segment, Close
<1>6. ASSUME NEW P, Drop(P) PROVE FALSE
  BY <1>1, <1>6 DEF Drop
<1>7. ASSUME NEW p \in Pcbs, SynAgain(p) \/ AckClosePending(p) PROVE FALSE
  BY <1>2, <1>7 DEF SynAgain, AckClosePending, slots
<1>8. ASSUME NEW sent, FastTmr(sent) PROVE FALSE
  BY <1>2, <1>8 DEF FastTmr, slots
<1>9. ASSUME NEW t \in Slots, Process(t) PROVE FALSE
  BY <1>2, <1>9 DEF Process
<1> QED BY <1>4, <1>5, <1>6, <1>7, <1>8, <1>9
        DEF Next, AcceptRefused, LastAck, Rst, SlowTmr

(* The victim of a request had a slot only if nothing was closing. *)
LEMMA KillSpares ==
  ASSUME Ind, NEW v \in Servers, SynKills(v)
  PROVE  /\ busy' # busy => InState({"LAST_ACK", "FREE"}) = {}
         /\ \A s \in Slots : s[1] = "binary" /\ busy[s] => busy'[s]
<1>1. InState({"FREE"}) = {}
  BY DEF SynKills
<1>2. PICK sent \in SUBSET ClosePending : \E p \in Victims(sent) :
        NewPcb(v, p, sent) /\ Release(SlotsOf({p})) /\ UNCHANGED out
  BY DEF SynKills
<1>3. PICK p \in Victims(sent) : Release(SlotsOf({p}))
  BY <1>2
<1>4. \A q \in InState({"LAST_ACK"}) \cup sent :
        q \in Pcbs /\ st[q] \in {"LAST_ACK", "CLOSE_WAIT"}
  BY DEF ClosePending, InState
<1>5. p \in Pcbs
  BY <1>3, <1>4, DispensableAre DEF Victims
<1>6. CASE st[p] # "ESTABLISHED"
  <2>1. SlotsOf({p}) = {}
    BY <1>5, <1>6 DEF Ind, SlotsMatchPcbs, SlotsOf
  <2>2. busy' = [s \in Slots |-> busy[s]]
    BY <1>3, <2>1 DEF Release, Ind, TypeOK
  <2>3. busy' = busy
    BY <2>2 DEF Ind, TypeOK
  <2> QED BY <2>3
<1>7. CASE st[p] = "ESTABLISHED"
  <2>1. InState({"LAST_ACK"}) \cup sent = {} /\ p \in Dispensable
    BY <1>3, <1>4, <1>7 DEF Victims
  <2>2. InState({"LAST_ACK", "FREE"}) = {}
    BY <1>1, <2>1 DEF InState
  <2>3. srv[p] # "binary"
    BY <2>1, DispensableAre
  <2>4. arg[p] \in Slots /\ arg[p][1] # "binary"
    BY <1>5, <1>7, <2>3 DEF Ind, SlotsMatchPcbs
  <2>5. SlotsOf({p}) \subseteq {arg[p]}
    BY DEF SlotsOf
  <2> QED BY <1>3, <2>2, <2>4, <2>5 DEF Release
<1> QED BY <1>6, <1>7

(* tcp_alloc fails only when there is nobody to take a pcb from. *)
LEMMA RefusedLast ==
  ASSUME Ind, NEW v \in Servers, SynRefused(v), NEW p \in Pcbs
  PROVE  st[p] = "SYN_RCVD" \/ (st[p] # "FREE" /\ srv[p] = "binary")
<1>1. st[p] # "FREE"
  BY DEF SynRefused, InState
<1>2. Dispensable = {}
  BY DEF SynRefused, Victims
<1> QED BY <1>1, <1>2, DispensableAre DEF Ind, TypeOK

(***************************************************************************)
(* However many pcbs, slots and requests there are: a request takes an     *)
(* open connection's pcb only when none is closing, never a binary         *)
(* client's, and a slot is lost to a request only when every pcb is in a   *)
(* handshake or belongs to that server.                                    *)
(***************************************************************************)
THEOREM RoomMadeInOrder == Spec => KillsInOrder
<1> DEFINE Ordered ==
      /\ NewRequest /\ busy' # busy => InState({"LAST_ACK", "FREE"}) = {}
      /\ NewRequest => \A s \in Slots : s[1] = "binary" /\ busy[s] => busy'[s]
      /\ (\E s \in Slots : ~busy[s] /\ busy'[s] /\ pcbOf'[s] = NoPcb) =>
           \A p \in Pcbs : \/ st[p] = "SYN_RCVD"
                           \/ st[p] # "FREE" /\ srv[p] = "binary"
<1>1. Ind /\ [Next]_vars => Ind'
  BY Step
<1>2. ASSUME Ind, Next PROVE Ordered
  <2>1. ASSUME NewRequest
        PROVE  /\ busy' # busy => InState({"LAST_ACK", "FREE"}) = {}
               /\ \A s \in Slots : s[1] = "binary" /\ busy[s] => busy'[s]
    <3>1. ASSUME NEW v \in Servers, Syn(v) PROVE busy' = busy
      BY <3>1 DEF Syn, slots
    <3> QED BY <1>2, <2>1, <3>1, OnlyRequestsStart, KillSpares
  <2>2. ASSUME \E s \in Slots : ~busy[s] /\ busy'[s] /\ pcbOf'[s] = NoPcb
        PROVE  \A p \in Pcbs : \/ st[p] = "SYN_RCVD"
                               \/ st[p] # "FREE" /\ srv[p] = "binary"
    <3>1. PICK v \in Servers : SynRefused(v)
      BY <1>2, <2>2, OnlyRefusalsLose
    <3> QED BY <1>2, <3>1, RefusedLast
  <2> QED BY <2>1, <2>2
<1>3. Ind /\ [Next]_vars => [Ordered]_vars
  BY <1>2
<1> QED BY Initial, <1>1, <1>3, PTL DEF Spec, KillsInOrder
=============================================================================
