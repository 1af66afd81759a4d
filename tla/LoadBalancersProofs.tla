-------------------------- MODULE LoadBalancersProofs --------------------------
(***************************************************************************)
(* Proofs about the load balancers, for every set of flows and data cores, *)
(* burst size, table capacity and bound on the packets.                    *)
(*                                                                         *)
(* The theorems rest on one inductive invariant, IInv.  It says of the     *)
(* rings more than OneOutstanding does (which of the two holds the item),  *)
(* of the counters that they account for what the two buffers hold, and of *)
(* a flow that went to a server that its entry, when it has one, names     *)
(* that server.  Every action that puts a packet into the transmit buffer  *)
(* goes through TransmitInvariant, every one that ends a component through *)
(* LeaveInvariant, every one of the control core through ControlEffect.    *)
(* The accounts of the misses are kept by an invariant of their own, on    *)
(* top of IInv, in the last part.                                          *)
(***************************************************************************)
EXTENDS LoadBalancers, CollectionLemmas, TLAPS

(* The counters of a data component and the state of the control core.    *)
Stat == [rxn : Int, txn : Int, found : Int, unfound : Int, key_full : Int]
Control == [pc : {"poll", "reset", "done"}, i : Components, j : Servers, n : Int]

(* The type invariant the proofs need, which says of the rings too what    *)
(* they hold.                                                              *)
Types ==
    /\ variant \in {"decomposed", "ss", "mono"} /\ dp_quit \in BOOLEAN
    /\ pc \in [Components -> {"loop", "wait", "done"}]
    /\ burst \in [Components -> Seq(Flows)] /\ txb \in [Components -> Nat]
    /\ stat \in [Components -> Stat] /\ refused \in [Components -> Nat]
    /\ request \in [Components -> Seq(Flows)]
    /\ control \in Control

(* Only "decomposed" gives out another server than the first.              *)
Given == IF variant = "decomposed" THEN Servers ELSE {0}
Values ==
    /\ reply \in [Components -> Seq(Given)]
    /\ last \in [Flows -> Given \union {Original, None}]
    /\ DOMAIN ht_table_fm = Components
    /\ \A d \in Components : \A k \in DOMAIN ht_table_fm[d] : ht_table_fm[d][k] \in Given

(* A component holds packets of its own queue, and one while it waits.     *)
Buffers ==
    \A d \in Components :
        /\ Len(burst[d]) <= MaxBurst /\ txb[d] < MaxBurst
        /\ \A k \in DOMAIN burst[d] : RssQueue(burst[d][k]) = queue_id[d]
        /\ pc[d] = "wait" => burst[d] # <<>>

(* What a component received and neither counted as sent nor lost to the   *)
(* NIC is in its two buffers.                                              *)
Counts ==
    \A d \in Components :
        pc[d] # "done" => stat[d].rxn = Len(burst[d]) + txb[d] + stat[d].txn + refused[d]

(* The rings between d and the control core are empty, hold the question,  *)
(* or hold the answer.                                                     *)
Idle(d) == request[d] = <<>> /\ reply[d] = <<>>
Asked(d) == Len(request[d]) = 1 /\ reply[d] = <<>>
Answered(d) == request[d] = <<>> /\ Len(reply[d]) = 1
Rings ==
    \A d \in Components :
        /\ Idle(d) \/ Asked(d) \/ Answered(d)
        /\ pc[d] = "loop" => Idle(d)
        /\ pc[d] = "wait" => ~Idle(d) \/ control.pc # "poll"

(* A flow that is on a server is one the program looks up, and "mono"    *)
(* has it in the table of the component that serves its queue.             *)
Pinned ==
    \A f \in Flows : last[f] \in Servers =>
        /\ Looked(f)
        /\ variant = "mono" =>
              \A d \in Components : RssQueue(f) = queue_id[d] => <<f, f>> \in DOMAIN ht_table_fm[d]

(* It is on the server its entry names.                                    *)
Sticky ==
    \A f \in Flows, d \in Components :
        last[f] \in Servers /\ HasPorts(f) /\ <<f, f>> \in DOMAIN ht_table_fm[d]
            /\ RssQueue(f) = queue_id[d] => ht_table_fm[d][<<f, f>>] = last[f]

(* Only a component that asks waits, for a packet it has in hand and whose *)
(* key it does not have.                                                   *)
Waiting ==
    \A d \in Components :
        pc[d] = "wait" => variant # "mono" /\ Looked(InHand(d)) /\ ~Found(d)

IInv == Types /\ Values /\ Buffers /\ Counts /\ Rings /\ Pinned /\ Sticky /\ Waiting

(* What StaysOnServer says of a step.                                      *)
Stays ==
    \A f \in Flows :
        last[f] \in Servers /\ last'[f] # last[f] =>
            variant = "decomposed" /\ ~Held(f) /\ last'[f] \in Servers

(* What Head and Tail return on a sequence that is not empty.              *)
LEMMA HeadTail ==
    ASSUME NEW S, NEW s \in Seq(S), s # <<>>
    PROVE  /\ Head(s) \in S /\ Head(s) = s[1] /\ 1 \in DOMAIN s
           /\ Tail(s) \in Seq(S) /\ Len(Tail(s)) = Len(s) - 1
           /\ \A k \in DOMAIN Tail(s) : k + 1 \in DOMAIN s /\ Tail(s)[k] = s[k + 1]
<1>1. Len(s) \in Nat /\ Len(s) # 0 /\ DOMAIN s = 1 .. Len(s)
  OBVIOUS
<1>2. Head(s) = s[1] /\ 1 \in DOMAIN s
  BY <1>1
<1>3. Tail(s) \in Seq(S) /\ Len(Tail(s)) = Len(s) - 1
  BY <1>1
<1>4. ASSUME NEW k \in DOMAIN Tail(s)  PROVE k + 1 \in DOMAIN s /\ Tail(s)[k] = s[k + 1]
  BY <1>1, <1>3
<1> QED BY <1>1, <1>2, <1>3, <1>4

(* The two counters of packets are integers.                               *)
LEMMA StatFields ==
    ASSUME Types, NEW d \in Components
    PROVE  stat[d] \in Stat /\ stat[d].rxn \in Int /\ stat[d].txn \in Int
<1>1. stat[d] \in Stat
  BY DEF Types
<1> QED BY <1>1 DEF Stat

(* Add changes one counter of one component.                               *)
Counters == {"rxn", "txn", "found", "unfound", "key_full"}

LEMMA AddStat ==
    ASSUME NEW st \in [Components -> Stat], NEW d \in Components, NEW n \in Int,
           NEW field \in Counters
    PROVE  /\ Add(st, d, field, n) \in [Components -> Stat]
           /\ Add(st, d, field, n)[d][field] = st[d][field] + n
           /\ \A g \in Counters \ {field} : Add(st, d, field, n)[d][g] = st[d][g]
           /\ \A e \in Components \ {d} : Add(st, d, field, n)[e] = st[e]
<1>1. /\ st[d] \in Stat /\ st[d][field] + n \in Int
      /\ Add(st, d, field, n) = [st EXCEPT ![d] = [st[d] EXCEPT ![field] = st[d][field] + n]]
  BY DEF Add, Stat, Counters
<1>2. ASSUME NEW s \in Stat, NEW m \in Int
      PROVE  /\ [s EXCEPT ![field] = m] \in Stat
             /\ [s EXCEPT ![field] = m][field] = m
             /\ \A g \in Counters \ {field} : [s EXCEPT ![field] = m][g] = s[g]
  <2>1. CASE field = "rxn"  BY <2>1 DEF Stat, Counters
  <2>2. CASE field = "txn"  BY <2>2 DEF Stat, Counters
  <2>3. CASE field = "found"  BY <2>3 DEF Stat, Counters
  <2>4. CASE field = "unfound"  BY <2>4 DEF Stat, Counters
  <2>5. CASE field = "key_full"  BY <2>5 DEF Stat, Counters
  <2> QED BY <2>1, <2>2, <2>3, <2>4, <2>5 DEF Counters
<1> DEFINE m == st[d][field] + n
           new == [st[d] EXCEPT ![field] = m]
<1>3. m \in Int /\ st[d] \in Stat
  BY <1>1
<1> HIDE DEF m
<1>4. new \in Stat /\ new[field] = m
      /\ \A g \in Counters \ {field} : new[g] = st[d][g]
  BY <1>3, <1>2
<1>5. Add(st, d, field, n) = [st EXCEPT ![d] = new]
  BY <1>1 DEF m
<1> HIDE DEF new
<1>6. Add(st, d, field, n) \in [Components -> Stat] /\ Add(st, d, field, n)[d] = new
      /\ \A e \in Components \ {d} : Add(st, d, field, n)[e] = st[e]
  BY <1>4, <1>5
<1> QED BY <1>4, <1>6 DEF m

(* Add on the counter of transmitted packets.                              *)
LEMMA AddTxn ==
    ASSUME NEW st \in [Components -> Stat], NEW d \in Components, NEW n \in Int
    PROVE  /\ Add(st, d, "txn", n) \in [Components -> Stat]
           /\ Add(st, d, "txn", n)[d].txn = st[d].txn + n
           /\ Add(st, d, "txn", n)[d].rxn = st[d].rxn
           /\ \A e \in Components \ {d} : Add(st, d, "txn", n)[e] = st[e]
<1> DEFINE field == "txn"
<1>1. field \in Counters /\ "rxn" \in Counters \ {field}
  BY DEF Counters
<1> HIDE DEF field
<1>2. /\ Add(st, d, field, n) \in [Components -> Stat]
      /\ Add(st, d, field, n)[d][field] = st[d][field] + n
      /\ Add(st, d, field, n)[d].rxn = st[d].rxn
      /\ \A e \in Components \ {d} : Add(st, d, field, n)[e] = st[e]
  BY <1>1, AddStat
<1> QED BY <1>2 DEF field

(* Add on another counter leaves those of packets alone.                   *)
LEMMA AddOther ==
    ASSUME NEW st \in [Components -> Stat], NEW d \in Components, NEW n \in Int,
           NEW field \in {"found", "unfound", "key_full"}
    PROVE  /\ Add(st, d, field, n) \in [Components -> Stat]
           /\ \A e \in Components : /\ Add(st, d, field, n)[e].rxn = st[e].rxn
                                   /\ Add(st, d, field, n)[e].txn = st[e].txn
<1>1. field \in Counters /\ "rxn" \in Counters \ {field} /\ "txn" \in Counters \ {field}
  BY DEF Counters
<1>2. /\ Add(st, d, field, n) \in [Components -> Stat]
      /\ Add(st, d, field, n)[d].rxn = st[d].rxn /\ Add(st, d, field, n)[d].txn = st[d].txn
      /\ \A e \in Components \ {d} : Add(st, d, field, n)[e] = st[e]
  BY <1>1, AddStat
<1>3. ASSUME NEW e \in Components
      PROVE  Add(st, d, field, n)[e].rxn = st[e].rxn /\ Add(st, d, field, n)[e].txn = st[e].txn
  BY <1>2
<1> QED BY <1>2, <1>3

(* A sequence of length 0 is the empty one.                                *)
LEMMA EmptyByLength ==
    ASSUME NEW S, NEW s \in Seq(S), Len(s) = 0  PROVE s = <<>>
  OBVIOUS

(* The arithmetic of rte_eth_tx_buffer: a packet moves from the burst (b)  *)
(* to the buffer (x), which is flushed when it reaches M: k are sent and   *)
(* the others refused.                                                     *)
LEMMA OneMoved ==
    ASSUME NEW r \in Int, NEW t \in Int, NEW b \in Nat, NEW x \in Nat, NEW M \in Nat, NEW z \in Nat,
           NEW k \in Nat, NEW o, NEW c, NEW y, NEW u, NEW w, r = b + x + t + z, c = b - 1,
           y = IF x + 1 = M THEN 0 ELSE x + 1,
           o = (IF x + 1 = M THEN M ELSE 0) - k, u = t + k, w = z + o
    PROVE  r = c + y + u + w
  OBVIOUS

(* The arithmetic of a turn of the loop: n packets come in, the buffer (x) *)
(* may be flushed, which sends k.                                          *)
LEMMA OneReceived ==
    ASSUME NEW r \in Int, NEW t \in Int, NEW n \in Nat, NEW x \in Nat, NEW z \in Nat, NEW k \in Nat,
           NEW flush \in BOOLEAN, NEW o, NEW v, NEW u, NEW y, NEW w,
           r = x + t + z, y = IF flush THEN 0 ELSE x, v = r + n,
           o = (IF flush THEN x ELSE 0) - k, u = t + k, w = z + o
    PROVE  v = n + y + u + w
  OBVIOUS

(* A flush sends or frees each of its packets.                             *)
LEMMA SentOrFreed ==
    ASSUME NEW n \in Nat, NEW tx \in Sending(n)
    PROVE  tx.sent \in Nat /\ tx.freed \in Nat /\ tx.freed = n - tx.sent
<1>1. PICK k \in 0 .. n : tx = [sent |-> k, freed |-> n - k]
  BY DEF Sending
<1>2. tx.sent = k /\ tx.freed = n - k /\ k \in Nat
  BY <1>1
<1>3. n - k \in Nat
  OBVIOUS
<1> QED BY <1>2, <1>3

(* A component that hands its packet to rte_eth_tx_buffer keeps the bounds *)
(* of its buffers, and its counters keep telling what is in them.          *)
LEMMA TransmitEffect ==
    ASSUME IInv, NEW d \in Components, burst[d] # <<>>, pc[d] # "done",
           NEW dst, NEW st \in [Components -> Stat],
           \A e \in Components : st[e].rxn = stat[e].rxn /\ st[e].txn = stat[e].txn,
           Transmit(d, dst, st), pc' = [pc EXCEPT ![d] = "loop"]
    PROVE  /\ InHand(d) \in Flows /\ RssQueue(InHand(d)) = queue_id[d]
           /\ burst' \in [Components -> Seq(Flows)] /\ txb' \in [Components -> Nat]
           /\ stat' \in [Components -> Stat] /\ refused' \in [Components -> Nat]
           /\ last' = [last EXCEPT ![InHand(d)] = dst]
           /\ Buffers' /\ Counts'
<1> USE BurstAssumption, GroupAssumption
<1>0. /\ burst \in [Components -> Seq(Flows)] /\ txb \in [Components -> Nat]
      /\ refused \in [Components -> Nat] /\ Buffers /\ Counts
  BY DEF IInv, Types
<1>h. burst[d] \in Seq(Flows) /\ Len(burst[d]) \in Nat /\ txb[d] \in Nat /\ refused[d] \in Nat
  BY <1>0
<1>t. /\ Head(burst[d]) \in Flows /\ Head(burst[d]) = burst[d][1] /\ 1 \in DOMAIN burst[d]
      /\ Tail(burst[d]) \in Seq(Flows) /\ Len(Tail(burst[d])) = Len(burst[d]) - 1
      /\ \A k \in DOMAIN Tail(burst[d]) :
            k + 1 \in DOMAIN burst[d] /\ Tail(burst[d])[k] = burst[d][k + 1]
  BY <1>h, HeadTail
<1>1. InHand(d) \in Flows /\ RssQueue(InHand(d)) = queue_id[d]
  BY <1>0, <1>t DEF InHand, Buffers
<1> DEFINE n == IF txb[d] + 1 = MaxBurst THEN MaxBurst ELSE 0
<1>2. PICK tx \in Sending(n) :
      /\ burst' = [burst EXCEPT ![d] = Tail(burst[d])]
      /\ txb' = [txb EXCEPT ![d] = IF txb[d] + 1 = MaxBurst THEN 0 ELSE txb[d] + 1]
      /\ stat' = Add(st, d, "txn", tx.sent)
      /\ refused' = [refused EXCEPT ![d] = refused[d] + tx.freed]
      /\ last' = [last EXCEPT ![InHand(d)] = dst]
  BY DEF Transmit
<1>n. n \in Nat /\ n = IF txb[d] + 1 = MaxBurst THEN MaxBurst ELSE 0
  OBVIOUS
<1> HIDE DEF n
<1>s. tx.sent \in Nat /\ tx.freed \in Nat /\ tx.freed = n - tx.sent
  BY <1>n, SentOrFreed
<1>3. /\ burst'[d] = Tail(burst[d])
      /\ txb'[d] = IF txb[d] + 1 = MaxBurst THEN 0 ELSE txb[d] + 1
      /\ refused'[d] = refused[d] + tx.freed
      /\ \A e \in Components \ {d} : /\ burst'[e] = burst[e] /\ txb'[e] = txb[e] /\ pc'[e] = pc[e]
                                     /\ refused'[e] = refused[e]
      /\ pc'[d] = "loop"
  BY <1>0, <1>h, <1>1, <1>2 DEF IInv, Types
<1>4. /\ burst' \in [Components -> Seq(Flows)] /\ txb' \in [Components -> Nat]
      /\ refused' \in [Components -> Nat]
  <2>1. txb[d] + 1 \in Nat /\ refused[d] + tx.freed \in Nat
    BY <1>h, <1>s
  <2> QED BY <1>0, <1>2, <1>t, <2>1
<1>5. /\ stat' \in [Components -> Stat]
      /\ stat'[d].rxn = stat[d].rxn
      /\ stat'[d].txn = stat[d].txn + tx.sent
      /\ \A e \in Components \ {d} : stat'[e].rxn = stat[e].rxn /\ stat'[e].txn = stat[e].txn
  <2>1. tx.sent \in Int
    BY <1>s
  <2>2. /\ stat' \in [Components -> Stat] /\ stat'[d].txn = st[d].txn + tx.sent
        /\ stat'[d].rxn = st[d].rxn /\ \A e \in Components \ {d} : stat'[e] = st[e]
    BY <1>2, <2>1, AddTxn
  <2> QED BY <2>2
<1>6. Buffers'
  <2> SUFFICES ASSUME NEW e \in Components
               PROVE  /\ Len(burst'[e]) <= MaxBurst /\ txb'[e] < MaxBurst
                      /\ \A k \in DOMAIN burst'[e] : RssQueue(burst'[e][k]) = queue_id[e]
                      /\ pc'[e] = "wait" => burst'[e] # <<>>
    BY DEF Buffers, queue_id
  <2>1. CASE e = d
    <3> DEFINE b == Len(burst[d])     x == txb[d]
               c == Len(burst'[d])    y == txb'[d]
    <3>1. b \in Nat /\ x \in Nat /\ b <= MaxBurst /\ x < MaxBurst
      BY <1>0, <1>h DEF Buffers
    <3>2. c = b - 1 /\ y = IF x + 1 = MaxBurst THEN 0 ELSE x + 1
      BY <1>t, <1>3
    <3> HIDE DEF b, x, c, y
    <3>3. c <= MaxBurst /\ y < MaxBurst
      BY ONLY <3>1, <3>2, BurstAssumption
    <3>4. Len(burst'[d]) <= MaxBurst /\ txb'[d] < MaxBurst
      BY <3>3 DEF c, y
    <3>5. ASSUME NEW k \in DOMAIN burst'[d]  PROVE RssQueue(burst'[d][k]) = queue_id[d]
      <4>1. k + 1 \in DOMAIN burst[d] /\ burst'[d][k] = burst[d][k + 1]
        BY <1>t, <1>3
      <4> QED BY <4>1, <1>0 DEF Buffers
    <3> QED BY <2>1, <1>3, <3>4, <3>5
  <2>2. CASE e # d
    <3>1. burst'[e] = burst[e] /\ txb'[e] = txb[e] /\ pc'[e] = pc[e]
      BY <2>2, <1>3
    <3> QED BY <3>1, <1>0 DEF Buffers
  <2> QED BY <2>1, <2>2
<1>7. Counts'
  <2> SUFFICES ASSUME NEW e \in Components, pc'[e] # "done"
               PROVE  stat'[e].rxn = Len(burst'[e]) + txb'[e] + stat'[e].txn + refused'[e]
    BY DEF Counts
  <2>1. CASE e = d
    <3>1. stat[d].rxn \in Int /\ stat[d].txn \in Int
      BY StatFields DEF IInv
    <3>2. stat[d].rxn = Len(burst[d]) + txb[d] + stat[d].txn + refused[d]
      BY <1>0 DEF Counts
    <3> DEFINE b == Len(burst[d])     x == txb[d]    z == refused[d]
               c == Len(burst'[d])    y == txb'[d]   w == refused'[d]
               r == stat[d].rxn       t == stat[d].txn      u == stat'[d].txn
               k == tx.sent           o == tx.freed
    <3>3. /\ r \in Int /\ t \in Int /\ b \in Nat /\ x \in Nat /\ z \in Nat /\ k \in Nat
          /\ r = b + x + t + z
      BY <3>1, <3>2, <1>h, <1>s
    <3>4. /\ c = b - 1 /\ y = IF x + 1 = MaxBurst THEN 0 ELSE x + 1
          /\ u = t + k /\ w = z + o
      BY <1>t, <1>3, <1>5
    <3>5. o = (IF x + 1 = MaxBurst THEN MaxBurst ELSE 0) - k
      BY <1>s, <1>n
    <3> HIDE DEF b, x, z, c, y, w, r, t, u, k, o
    <3>6. MaxBurst \in Nat
      OBVIOUS
    <3>7. r = c + y + u + w
      BY ONLY <3>3, <3>4, <3>5, <3>6, OneMoved
    <3>8. stat'[d].rxn = Len(burst'[d]) + txb'[d] + stat'[d].txn + refused'[d]
      BY <3>7, <1>5 DEF r, u, c, y, w
    <3> QED BY <2>1, <3>8
  <2>2. CASE e # d
    BY <2>2, <1>0, <1>3, <1>5 DEF Counts
  <2> QED BY <2>1, <2>2
<1> QED BY <1>1, <1>2, <1>4, <1>5, <1>6, <1>7

(* A received burst fits and belongs to the component's queue.             *)
LEMMA ArrivalsAreMine ==
    ASSUME Types, NEW d \in Components, NEW pkts \in Arrivals(d)
    PROVE  /\ pkts \in Seq(Flows) /\ Len(pkts) \in Nat /\ Len(pkts) <= MaxBurst
           /\ \A k \in DOMAIN pkts : RssQueue(pkts[k]) = queue_id[d]
<1> DEFINE mine == {f \in Flows : RssQueue(f) = queue_id[d]}
           room == MaxPackets(d) - stat[d].rxn
<1>1. MaxBurst \in Int /\ room \in Int
  BY BurstAssumption, StatFields
<1>2. Min({MaxBurst, room}) \in Int /\ Min({MaxBurst, room}) <= MaxBurst
  <2> HIDE DEF room
  <2>1. \E m \in {MaxBurst, room} : \A y \in {MaxBurst, room} : m =< y
    BY <1>1
  <2> QED BY <1>1, <2>1 DEF Min
<1>3. PICK n \in 0 .. Min({MaxBurst, room}) : pkts \in [1 .. n -> mine]
  BY DEF Arrivals
<1>4. n \in Nat /\ n <= MaxBurst
  BY <1>1, <1>2, <1>3
<1>5. pkts \in Seq(mine) /\ Len(pkts) = n /\ DOMAIN pkts = 1 .. n
  BY <1>3, <1>4
<1>6. pkts \in Seq(Flows)
  BY <1>3, <1>4
<1> QED BY <1>3, <1>4, <1>5, <1>6

(* What Remember does to the tables: it changes no entry, and adds at most *)
(* one, for the key k of component d, with the server.                     *)
Extended(d, k, server) ==
    /\ DOMAIN ht_table_fm' = Components
    /\ \A e \in Components : \A j \in DOMAIN ht_table_fm[e] :
          j \in DOMAIN ht_table_fm'[e] /\ ht_table_fm'[e][j] = ht_table_fm[e][j]
    /\ \A e \in Components : \A j \in DOMAIN ht_table_fm'[e] :
          j \in DOMAIN ht_table_fm[e] \/ (e = d /\ j = k /\ ht_table_fm'[e][j] = server)

LEMMA Remembered ==
    ASSUME Values, NEW d \in Components, NEW k, NEW server, Remember(d, k, server)
    PROVE  Extended(d, k, server)
<1>1. CASE HasRoom(d)
  <2> DEFINE old == ht_table_fm[d]
             new == [x \in DOMAIN old \union {k} |-> IF x \in DOMAIN old THEN old[x] ELSE server]
  <2>1. ht_table_fm' = [ht_table_fm EXCEPT ![d] = new]
    BY <1>1 DEF Remember
  <2>2. /\ DOMAIN new = DOMAIN old \union {k}
        /\ \A j \in DOMAIN old : new[j] = old[j]
        /\ k \notin DOMAIN old => new[k] = server
    OBVIOUS
  <2> HIDE DEF new
  <2>3. ht_table_fm'[d] = new /\ DOMAIN ht_table_fm' = Components
        /\ \A e \in Components \ {d} : ht_table_fm'[e] = ht_table_fm[e]
    BY <2>1 DEF Values
  <2>4. ASSUME NEW e \in Components, NEW j \in DOMAIN ht_table_fm[e]
        PROVE  j \in DOMAIN ht_table_fm'[e] /\ ht_table_fm'[e][j] = ht_table_fm[e][j]
    BY <2>2, <2>3
  <2>5. ASSUME NEW e \in Components, NEW j \in DOMAIN ht_table_fm'[e]
        PROVE  j \in DOMAIN ht_table_fm[e] \/ (e = d /\ j = k /\ ht_table_fm'[e][j] = server)
    BY <2>2, <2>3
  <2> QED BY <2>3, <2>4, <2>5 DEF Extended
<1>2. CASE ~HasRoom(d)
  BY <1>2 DEF Remember, Values, Extended
<1> QED BY <1>1, <1>2

(* Invariance under a turn of the loop.                                    *)
LEMMA LoopInvariant ==
    ASSUME IInv, NEW d \in Components, Loop(d)  PROVE IInv' /\ Stays
<1> USE BurstAssumption DEF IInv
<1>1. PICK flush \in BOOLEAN, pkts \in Arrivals(d) :
          \E tx \in Sending(IF flush THEN txb[d] ELSE 0) :
             /\ burst' = [burst EXCEPT ![d] = pkts]
             /\ txb' = IF flush THEN [txb EXCEPT ![d] = 0] ELSE txb
             /\ stat' = Add(Add(stat, d, "rxn", Len(pkts)), d, "txn", tx.sent)
             /\ refused' = [refused EXCEPT ![d] = refused[d] + tx.freed]
  BY DEF Loop
<1>2. UNCHANGED <<variant, dp_quit, pc, ports, ht_table_fm, last, request, reply, control>>
      /\ burst[d] = <<>> /\ pc[d] = "loop"
  BY DEF Loop, ringVars
<1>3. /\ pkts \in Seq(Flows) /\ Len(pkts) \in Nat /\ Len(pkts) <= MaxBurst
      /\ \A k \in DOMAIN pkts : RssQueue(pkts[k]) = queue_id[d]
  BY ArrivalsAreMine
<1>q. txb[d] \in Nat /\ refused[d] \in Nat
  BY DEF Types
<1> DEFINE q == IF flush THEN txb[d] ELSE 0
<1>n. q \in Nat /\ q = IF flush THEN txb[d] ELSE 0
  BY <1>q
<1>p. PICK tx \in Sending(q) :
             /\ burst' = [burst EXCEPT ![d] = pkts]
             /\ txb' = IF flush THEN [txb EXCEPT ![d] = 0] ELSE txb
             /\ stat' = Add(Add(stat, d, "rxn", Len(pkts)), d, "txn", tx.sent)
             /\ refused' = [refused EXCEPT ![d] = refused[d] + tx.freed]
  BY <1>1
<1> HIDE DEF q
<1>s. tx.sent \in Nat /\ tx.freed \in Nat /\ tx.freed = q - tx.sent
  BY <1>n, SentOrFreed
<1>4. /\ burst' \in [Components -> Seq(Flows)] /\ txb' \in [Components -> Nat]
      /\ refused' \in [Components -> Nat]
      /\ txb'[d] = IF flush THEN 0 ELSE txb[d]
      /\ refused'[d] = refused[d] + tx.freed
      /\ \A e \in Components \ {d} : refused'[e] = refused[e] /\ txb'[e] = txb[e]
  <2>1. refused[d] + tx.freed \in Nat
    BY <1>q, <1>s
  <2>2. burst' \in [Components -> Seq(Flows)] /\ refused' \in [Components -> Nat]
        /\ refused'[d] = refused[d] + tx.freed
        /\ \A e \in Components \ {d} : refused'[e] = refused[e]
    BY <1>3, <1>p, <2>1 DEF Types
  <2>3. CASE flush
    BY <1>p, <2>2, <2>3 DEF Types
  <2>4. CASE ~flush
    BY <1>p, <2>2, <2>4 DEF Types
  <2> QED BY <2>3, <2>4
<1>5. /\ stat' \in [Components -> Stat]
      /\ stat'[d].rxn = stat[d].rxn + Len(pkts)
      /\ stat'[d].txn = stat[d].txn + tx.sent
      /\ \A e \in Components \ {d} : stat'[e] = stat[e]
  <2> DEFINE st == Add(stat, d, "rxn", Len(pkts))
  <2>1. tx.sent \in Int /\ stat' = Add(st, d, "txn", tx.sent)
    BY <1>p, <1>s
  <2>2. /\ st \in [Components -> Stat] /\ st[d].rxn = stat[d].rxn + Len(pkts)
        /\ st[d].txn = stat[d].txn /\ \A e \in Components \ {d} : st[e] = stat[e]
    <3>1. stat \in [Components -> Stat] /\ Len(pkts) \in Int
      BY <1>3 DEF Types
    <3> QED BY <3>1, AddStat DEF Counters
  <2> HIDE DEF st
  <2>3. /\ stat' \in [Components -> Stat] /\ stat'[d].txn = st[d].txn + tx.sent
        /\ stat'[d].rxn = st[d].rxn /\ \A e \in Components \ {d} : stat'[e] = st[e]
    BY <2>1, <2>2, AddTxn
  <2> QED BY <2>2, <2>3
<1>9. Types'
  BY <1>2, <1>4, <1>5 DEF Types
<1>10. Buffers'
  <2> SUFFICES ASSUME NEW e \in Components
               PROVE  /\ Len(burst'[e]) <= MaxBurst /\ txb'[e] < MaxBurst
                      /\ \A k \in DOMAIN burst'[e] : RssQueue(burst'[e][k]) = queue_id[e]
                      /\ pc'[e] = "wait" => burst'[e] # <<>>
    BY DEF Buffers, queue_id
  <2>1. CASE e = d
    BY <2>1, <1>p, <1>2, <1>3, <1>4 DEF Buffers, Types
  <2>2. CASE e # d
    BY <2>2, <1>p, <1>2, <1>4 DEF Buffers, Types
  <2> QED BY <2>1, <2>2
<1>11. Counts'
  <2> SUFFICES ASSUME NEW e \in Components, pc'[e] # "done"
               PROVE  stat'[e].rxn = Len(burst'[e]) + txb'[e] + stat'[e].txn + refused'[e]
    BY DEF Counts
  <2>1. CASE e = d
    <3> DEFINE n == Len(pkts)   x == txb[d]   y == txb'[d]   z == refused[d]  w == refused'[d]
               r == stat[d].rxn   t == stat[d].txn  v == stat'[d].rxn  u == stat'[d].txn
               k == tx.sent       o == tx.freed
    <3>1. r \in Int /\ t \in Int
      BY StatFields
    <3>2. r = Len(burst[d]) + x + t + z /\ Len(burst[d]) = 0
      BY <1>2 DEF Counts
    <3>3. n \in Nat /\ x \in Nat /\ z \in Nat /\ k \in Nat /\ y = IF flush THEN 0 ELSE x
      BY <1>3, <1>4, <1>q, <1>s
    <3>4. v = r + n /\ u = t + k /\ w = z + o /\ o = (IF flush THEN x ELSE 0) - k
      BY <1>5, <1>4, <1>s, <1>n
    <3>5. Len(burst'[d]) = n
      BY <1>p DEF Types
    <3> HIDE DEF n, x, y, z, w, r, t, v, u, k, o
    <3>6. r = x + t + z
      BY <3>1, <3>2, <3>3
    <3>7. v = n + y + u + w
      BY ONLY <3>1, <3>3, <3>4, <3>6, OneReceived
    <3>8. stat'[d].rxn = Len(burst'[d]) + txb'[d] + stat'[d].txn + refused'[d]
      BY <3>5, <3>7 DEF v, u, y, w
    <3> QED BY <2>1, <3>8
  <2>2. CASE e # d
    <3>1. /\ burst'[e] = burst[e] /\ txb'[e] = txb[e] /\ pc'[e] = pc[e] /\ stat'[e] = stat[e]
          /\ refused'[e] = refused[e]
      BY <2>2, <1>p, <1>2, <1>4, <1>5 DEF Types
    <3> QED BY <3>1 DEF Counts
  <2> QED BY <2>1, <2>2
<1>12. Values' /\ Rings' /\ Pinned' /\ Sticky' /\ Stays
  BY <1>2 DEF Values, Given, Rings, Idle, Asked, Answered, Pinned, Sticky, Looked, HasPorts,
              queue_id, Stays
<1>13. Waiting'
  <2>1. \A e \in Components : pc[e] = "wait" => burst'[e] = burst[e]
    BY <1>p, <1>2 DEF Types
  <2> QED BY <2>1, <1>2 DEF Waiting, Looked, InHand, Found, Key, HasPorts
<1> QED BY <1>9, <1>10, <1>11, <1>12, <1>13

(* Invariance under a step that transmits a packet of flow f: it may take  *)
(* the packet to a server if the program looks its flow up (and, for mono, *)
(* has its key), to the one its entry names if it has one; and away from   *)
(* the flow's server only as StaysOnServer allows.                         *)
LEMMA TransmitInvariant ==
    ASSUME IInv, NEW d \in Components, burst[d] # <<>>, pc[d] # "done",
           NEW dst \in Given \union {Original}, NEW server \in Given,
           NEW st \in [Components -> Stat],
           \A e \in Components : st[e].rxn = stat[e].rxn /\ st[e].txn = stat[e].txn,
           Transmit(d, dst, st), pc' = [pc EXCEPT ![d] = "loop"],
           UNCHANGED <<variant, dp_quit>>,
           \A e \in Components \ {d} : ports'[e] = ports[e],
           request' \in [Components -> Seq(Flows)], reply' \in [Components -> Seq(Given)],
           UNCHANGED control, Rings',
           Extended(d, Key(d, InHand(d)), server),
           dst \in Servers =>
               /\ Looked(InHand(d))
               /\ variant = "mono" => <<InHand(d), InHand(d)>> \in DOMAIN ht_table_fm'[d]
               /\ HasPorts(InHand(d)) /\ <<InHand(d), InHand(d)>> \in DOMAIN ht_table_fm'[d]
                     => ht_table_fm'[d][<<InHand(d), InHand(d)>>] = dst,
           last[InHand(d)] \in Servers /\ dst # last[InHand(d)] =>
               /\ variant = "decomposed" /\ dst \in Servers
               /\ ~(HasPorts(InHand(d)) /\ <<InHand(d), InHand(d)>> \in DOMAIN ht_table_fm[d])
    PROVE  IInv' /\ Stays
<1> DEFINE f == InHand(d)
<1>1. /\ f \in Flows /\ RssQueue(f) = queue_id[d]
      /\ burst' \in [Components -> Seq(Flows)] /\ txb' \in [Components -> Nat]
      /\ stat' \in [Components -> Stat] /\ refused' \in [Components -> Nat]
      /\ last' = [last EXCEPT ![f] = dst]
      /\ Buffers' /\ Counts'
  BY TransmitEffect
<1>2. Types'
  BY <1>1 DEF IInv, Types
<1>3. Given' = Given
  BY DEF Given
<1>4. last \in [Flows -> Given \union {Original, None}]
      /\ \A e \in Components : \A k \in DOMAIN ht_table_fm[e] : ht_table_fm[e][k] \in Given
  BY DEF IInv, Values
<1>5. last'[f] = dst /\ \A g \in Flows \ {f} : last'[g] = last[g]
  BY <1>1, <1>4
<1>q. \A e \in Components : RssQueue(f) = queue_id[e] => e = d
  BY <1>1, QueueAssumption
<1>x. /\ DOMAIN ht_table_fm' = Components
      /\ \A e \in Components : \A j \in DOMAIN ht_table_fm[e] :
            j \in DOMAIN ht_table_fm'[e] /\ ht_table_fm'[e][j] = ht_table_fm[e][j]
      /\ \A e \in Components : \A j \in DOMAIN ht_table_fm'[e] :
            j \in DOMAIN ht_table_fm[e]
            \/ (e = d /\ j = Key(d, f) /\ ht_table_fm'[e][j] = server)
  BY DEF Extended
<1>6. Values'
  <2>1. last' \in [Flows -> Given \union {Original, None}]
    BY <1>1, <1>4
  <2>2. \A e \in Components : \A k \in DOMAIN ht_table_fm'[e] : ht_table_fm'[e][k] \in Given
    <3> SUFFICES ASSUME NEW e \in Components, NEW k \in DOMAIN ht_table_fm'[e]
                 PROVE  ht_table_fm'[e][k] \in Given
      OBVIOUS
    <3>1. CASE k \in DOMAIN ht_table_fm[e]
      <4>1. ht_table_fm'[e][k] = ht_table_fm[e][k]
        BY <1>x, <3>1
      <4> QED BY <1>4, <3>1, <4>1
    <3>2. CASE k \notin DOMAIN ht_table_fm[e]
      BY <1>x, <3>2
    <3> QED BY <3>1, <3>2
  <2> QED BY <1>3, <1>x, <2>1, <2>2 DEF Values
<1>7. Pinned'
  <2> SUFFICES ASSUME NEW g \in Flows, last'[g] \in Servers
               PROVE  /\ Looked(g)
                      /\ variant = "mono" =>
                            \A e \in Components : RssQueue(g) = queue_id[e] =>
                                <<g, g>> \in DOMAIN ht_table_fm'[e]
    BY DEF Pinned, Looked, queue_id
  <2>1. CASE g = f
    BY <2>1, <1>5, <1>q
  <2>2. CASE g # f
    <3>1. last[g] \in Servers
      BY <1>5, <2>2
    <3> QED BY <3>1, <1>x DEF IInv, Pinned
  <2> QED BY <2>1, <2>2
<1>8. Sticky'
  <2> SUFFICES ASSUME NEW g \in Flows, NEW e \in Components, last'[g] \in Servers, HasPorts(g),
                      <<g, g>> \in DOMAIN ht_table_fm'[e], RssQueue(g) = queue_id[e]
               PROVE  ht_table_fm'[e][<<g, g>>] = last'[g]
    BY DEF Sticky, HasPorts, queue_id
  <2>1. CASE g = f
    BY <2>1, <1>5, <1>q
  <2>2. CASE g # f
    <3>1. last'[g] = last[g]
      BY <1>5, <2>2
    <3>2. <<g, g>> # Key(d, f)
      BY <2>2 DEF Key
    <3>3. <<g, g>> \in DOMAIN ht_table_fm[e] /\ ht_table_fm'[e][<<g, g>>] = ht_table_fm[e][<<g, g>>]
      BY <1>x, <3>2
    <3> QED BY <3>1, <3>3 DEF IInv, Sticky
  <2> QED BY <2>1, <2>2
<1>9. Waiting'
  <2> SUFFICES ASSUME NEW e \in Components, pc'[e] = "wait"
               PROVE  variant' # "mono" /\ Looked(InHand(e))' /\ ~Found(e)'
    BY DEF Waiting
  <2>1. e # d /\ pc[e] = "wait" /\ burst'[e] = burst[e]
    BY DEF IInv, Types, Transmit
  <2>2. ports'[e] = ports[e]
    BY <2>1
  <2>3. DOMAIN ht_table_fm'[e] \subseteq DOMAIN ht_table_fm[e]
    BY <2>1, <1>x
  <2> QED BY <2>1, <2>2, <2>3 DEF IInv, Waiting, Looked, InHand, Found, Key, HasPorts
<1>10. Stays
  <2> SUFFICES ASSUME NEW g \in Flows, last[g] \in Servers, last'[g] # last[g]
               PROVE  variant = "decomposed" /\ ~Held(g) /\ last'[g] \in Servers
    BY DEF Stays
  <2>1. g = f /\ dst # last[f]
    BY <1>5
  <2>2. ~Held(f)
    BY <2>1, <1>q DEF Held
  <2> QED BY <2>1, <2>2, <1>5
<1> QED BY <1>1, <1>2, <1>6, <1>7, <1>8, <1>9, <1>10 DEF IInv

(* Tables that stay extend by nothing.                                     *)
LEMMA SameTables ==
    ASSUME Values, NEW d, NEW k, NEW server, UNCHANGED ht_table_fm
    PROVE  Extended(d, k, server)
  BY DEF Values, Extended

(* Only the ports of the component that looks a flow up change.            *)
LEMMA PortsElsewhere ==
    ASSUME NEW d \in Components, NEW f, ports' = Ports(d, f)
    PROVE  \A e \in Components \ {d} : ports'[e] = ports[e]
  BY DEF Ports

(* A component that forwards without the control core leaves the rings as  *)
(* they are.                                                               *)
LEMMA Alone ==
    ASSUME IInv, NEW d \in Components, NEW v, Ready(d, v), UNCHANGED <<pc, ringVars>>
    PROVE  /\ burst[d] # <<>> /\ pc[d] # "done" /\ pc' = [pc EXCEPT ![d] = "loop"]
           /\ request' \in [Components -> Seq(Flows)] /\ reply' \in [Components -> Seq(Given)]
           /\ Rings' /\ UNCHANGED control
           /\ InHand(d) \in Flows /\ RssQueue(InHand(d)) = queue_id[d]
<1>1. burst[d] # <<>> /\ pc[d] = "loop" /\ UNCHANGED <<request, reply, control, pc>>
  BY DEF Ready, ringVars
<1>2. pc' = [pc EXCEPT ![d] = "loop"]
  BY <1>1 DEF IInv, Types
<1>3. burst[d] \in Seq(Flows)
  BY DEF IInv, Types
<1>4. Head(burst[d]) \in Flows /\ Head(burst[d]) = burst[d][1] /\ 1 \in DOMAIN burst[d]
  BY <1>1, <1>3, HeadTail
<1>5. InHand(d) \in Flows /\ RssQueue(InHand(d)) = queue_id[d]
  BY <1>4 DEF IInv, Buffers, InHand
<1>6. request' \in [Components -> Seq(Flows)] /\ reply' \in [Components -> Seq(Given)]
  BY <1>1 DEF IInv, Types, Values
<1>7. Rings'
  BY <1>1 DEF IInv, Rings, Idle, Asked, Answered
<1> QED BY <1>1, <1>2, <1>5, <1>6, <1>7

(* Invariance when a packet passes as it is.                               *)
LEMMA PassInvariant ==
    ASSUME IInv, NEW d \in Components, Pass(d)  PROVE IInv' /\ Stays
<1>1. /\ Ready(d, {"decomposed", "ss", "mono"}) /\ ~Looked(InHand(d))
      /\ Transmit(d, Original, stat)
      /\ UNCHANGED <<variant, dp_quit, pc, ports, ht_table_fm, ringVars>>
  BY DEF Pass
<1>2. /\ burst[d] # <<>> /\ pc[d] # "done" /\ pc' = [pc EXCEPT ![d] = "loop"]
      /\ request' \in [Components -> Seq(Flows)] /\ reply' \in [Components -> Seq(Given)]
      /\ Rings' /\ UNCHANGED control /\ InHand(d) \in Flows
  BY <1>1, Alone
<1>3. last[InHand(d)] \notin Servers
  BY <1>1, <1>2 DEF IInv, Pinned
<1>4. stat \in [Components -> Stat] /\ Extended(d, Key(d, InHand(d)), 0)
  BY <1>1, SameTables DEF IInv, Types
<1>5. Original \notin Servers /\ 0 \in Given
  BY DEF Original, Servers, Given
<1> QED BY <1>1, <1>2, <1>3, <1>4, <1>5, TransmitInvariant

(* Invariance when the table has the packet's key.                         *)
LEMMA HitInvariant ==
    ASSUME IInv, NEW d \in Components, Hit(d)  PROVE IInv' /\ Stays
<1> DEFINE st == Add(stat, d, "found", 1)
           f == InHand(d)
           dst == ht_table_fm[d][Key(d, f)]
<1>1. /\ Ready(d, {"decomposed", "ss", "mono"}) /\ Looked(f)
      /\ Key(d, f) \in DOMAIN ht_table_fm[d]
      /\ Transmit(d, dst, st) /\ ports' = Ports(d, f)
      /\ UNCHANGED <<variant, dp_quit, pc, ht_table_fm, ringVars>>
  BY DEF Hit, Found
<1>2. /\ burst[d] # <<>> /\ pc[d] # "done" /\ pc' = [pc EXCEPT ![d] = "loop"]
      /\ request' \in [Components -> Seq(Flows)] /\ reply' \in [Components -> Seq(Given)]
      /\ Rings' /\ UNCHANGED control /\ f \in Flows /\ RssQueue(f) = queue_id[d]
  BY <1>1, Alone
<1>3. dst \in Given /\ Given \subseteq Servers
  BY <1>1 DEF IInv, Values, Given, Servers
<1>4. /\ Looked(f)
      /\ variant = "mono" => <<f, f>> \in DOMAIN ht_table_fm'[d]
      /\ HasPorts(f) => ht_table_fm'[d][<<f, f>>] = dst
  BY <1>1 DEF Looked, HasPorts, Key
<1>5. /\ st \in [Components -> Stat]
      /\ \A e \in Components : st[e].rxn = stat[e].rxn /\ st[e].txn = stat[e].txn
  <2>1. stat \in [Components -> Stat]
    BY DEF IInv, Types
  <2> QED BY <2>1, AddOther
<1>6. Extended(d, Key(d, f), 0) /\ 0 \in Given
  BY <1>1, SameTables DEF IInv, Given, Servers
<1>7. \A e \in Components \ {d} : ports'[e] = ports[e]
  BY <1>1, PortsElsewhere
<1>8. last[f] \in Servers /\ dst # last[f] => variant = "decomposed" /\ ~HasPorts(f)
  <2> SUFFICES ASSUME last[f] \in Servers, dst # last[f]
               PROVE  variant = "decomposed" /\ ~HasPorts(f)
    OBVIOUS
  <2>1. ~HasPorts(f)
    BY <1>1, <1>2 DEF IInv, Sticky, Key
  <2>2. last[f] \in Given
    <3>1. last[f] \in Given \union {Original, None}
      BY <1>2 DEF IInv, Values
    <3> QED BY <3>1 DEF Servers, Original, None
  <2>3. variant = "decomposed"
    BY <1>3, <2>2 DEF Given
  <2> QED BY <2>1, <2>3
<1> HIDE DEF st, dst
<1>9. dst \in Given \union {Original}
  BY <1>3
<1> QED BY <1>1, <1>2, <1>3, <1>4, <1>5, <1>6, <1>7, <1>8, <1>9, TransmitInvariant

(* Invariance when mono enters a new key; the flow was not on a server,    *)
(* or mono would have found it.                                            *)
LEMMA MonoMissInvariant ==
    ASSUME IInv, NEW d \in Components, MonoMiss(d)  PROVE IInv' /\ Stays
<1> DEFINE full == IF HasRoom(d) THEN 0 ELSE 1
           st1 == Add(stat, d, "unfound", 1)
           st == Add(st1, d, "key_full", full)
<1>1. /\ Ready(d, {"mono"}) /\ Looked(InHand(d))
      /\ Key(d, InHand(d)) \notin DOMAIN ht_table_fm[d]
      /\ Remember(d, Key(d, InHand(d)), 0)
      /\ Transmit(d, Original, st) /\ ports' = Ports(d, InHand(d))
      /\ UNCHANGED <<variant, dp_quit, pc, ringVars>>
  BY DEF MonoMiss, Found
<1>2. /\ burst[d] # <<>> /\ pc[d] # "done" /\ pc' = [pc EXCEPT ![d] = "loop"]
      /\ request' \in [Components -> Seq(Flows)] /\ reply' \in [Components -> Seq(Given)]
      /\ Rings' /\ UNCHANGED control
      /\ InHand(d) \in Flows /\ RssQueue(InHand(d)) = queue_id[d]
  BY <1>1, Alone
<1>3. last[InHand(d)] \notin Servers
  BY <1>1, <1>2 DEF IInv, Pinned, Ready, Looked, HasPorts, Key
<1>4. /\ st1 \in [Components -> Stat]
      /\ \A e \in Components : st1[e].rxn = stat[e].rxn /\ st1[e].txn = stat[e].txn
  <2>1. stat \in [Components -> Stat]
    BY DEF IInv, Types
  <2> QED BY <2>1, AddOther
<1>5. /\ st \in [Components -> Stat]
      /\ \A e \in Components : st[e].rxn = stat[e].rxn /\ st[e].txn = stat[e].txn
  <2>1. full \in Int
    OBVIOUS
  <2> HIDE DEF st1, full
  <2> QED BY <1>4, <2>1, AddOther
<1>6. Extended(d, Key(d, InHand(d)), 0)
  BY <1>1, Remembered DEF IInv
<1>7. Original \notin Servers /\ 0 \in Given
  BY DEF Original, Servers, Given
<1>8. \A e \in Components \ {d} : ports'[e] = ports[e]
  BY <1>1, PortsElsewhere
<1> HIDE DEF st, st1, full
<1> QED BY <1>1, <1>2, <1>3, <1>5, <1>6, <1>7, <1>8, TransmitInvariant

(* Invariance when a component takes its answer, the only item in its two  *)
(* rings.  Only a flow that has no entry is asked for.                     *)
LEMMA TakeAnswerInvariant ==
    ASSUME IInv, NEW d \in Components, TakeAnswer(d)  PROVE IInv' /\ Stays
<1> DEFINE full == IF HasRoom(d) THEN 0 ELSE 1
           st == Add(stat, d, "key_full", full)
           f == InHand(d)
           dst == Head(reply[d])
<1>1. /\ pc[d] = "wait" /\ reply[d] # <<>>
      /\ reply' = [reply EXCEPT ![d] = Tail(reply[d])]
      /\ Remember(d, Key(d, f), dst)
      /\ Transmit(d, dst, st)
      /\ pc' = [pc EXCEPT ![d] = "loop"]
      /\ UNCHANGED <<variant, dp_quit, ports, request, control>>
  BY DEF TakeAnswer
<1>2. reply[d] \in Seq(Given) /\ reply \in [Components -> Seq(Given)]
  BY DEF IInv, Values
<1>3. dst \in Given /\ Tail(reply[d]) \in Seq(Given) /\ Len(Tail(reply[d])) = Len(reply[d]) - 1
  BY <1>1, <1>2, HeadTail
<1>4. request' \in [Components -> Seq(Flows)] /\ reply' \in [Components -> Seq(Given)]
  BY <1>1, <1>2, <1>3 DEF IInv, Types
<1>5. Rings'
  <2>1. request[d] = <<>> /\ Len(reply[d]) = 1
    BY <1>1 DEF IInv, Rings, Idle, Asked, Answered
  <2>2. Tail(reply[d]) = <<>>
    <3>1. Len(Tail(reply[d])) = 0
      BY <1>3, <2>1
    <3> QED BY <1>3, <3>1, EmptyByLength
  <2>3. reply'[d] = <<>> /\ pc'[d] = "loop"
        /\ \A e \in Components \ {d} : reply'[e] = reply[e] /\ pc'[e] = pc[e]
    BY <1>1, <1>2, <2>2 DEF IInv, Types
  <2> QED BY <1>1, <2>1, <2>3 DEF IInv, Rings, Idle, Asked, Answered
<1>6. /\ Looked(f) /\ variant # "mono" /\ burst[d] # <<>>
      /\ Key(d, f) \notin DOMAIN ht_table_fm[d]
  BY <1>1 DEF IInv, Waiting, Buffers, Found
<1>7. /\ st \in [Components -> Stat]
      /\ \A e \in Components : st[e].rxn = stat[e].rxn /\ st[e].txn = stat[e].txn
  <2>1. full \in Int
    OBVIOUS
  <2>2. stat \in [Components -> Stat]
    BY DEF IInv, Types
  <2> HIDE DEF full
  <2> QED BY <2>1, <2>2, AddOther
<1>8. Extended(d, Key(d, f), dst)
  BY <1>1, Remembered DEF IInv
<1>9. HasPorts(f) => Key(d, f) = <<f, f>>
  BY DEF Key
<1>10. HasPorts(f) /\ <<f, f>> \in DOMAIN ht_table_fm'[d] => ht_table_fm'[d][<<f, f>>] = dst
  BY <1>6, <1>8, <1>9 DEF Extended
<1>11. f \in Flows
  <2>1. burst[d] \in Seq(Flows)
    BY DEF IInv, Types
  <2> QED BY <1>6, <2>1, HeadTail DEF InHand
<1>12. last[f] \in Servers /\ dst # last[f] => variant = "decomposed"
  <2>1. last[f] \in Servers => last[f] \in Given
    BY <1>11 DEF IInv, Values, Servers, Original, None
  <2> QED BY <1>3, <2>1 DEF Given
<1>13. Given \subseteq Servers /\ dst \in Given \union {Original}
  BY <1>3 DEF Given, Servers
<1> HIDE DEF st, full, dst
<1> QED BY <1>1, <1>3, <1>4, <1>5, <1>6, <1>7, <1>8, <1>9, <1>10, <1>12, <1>13, TransmitInvariant

(* Invariance when a component asks the control core.                      *)
LEMMA AskInvariant ==
    ASSUME IInv, NEW d \in Components, Ask(d)  PROVE IInv' /\ Stays
<1>1. /\ variant \in {"decomposed", "ss"} /\ pc[d] = "loop" /\ burst[d] # <<>>
      /\ Looked(InHand(d)) /\ ~Found(d) /\ ports' = Ports(d, InHand(d))
      /\ pc' = [pc EXCEPT ![d] = "wait"]
      /\ stat' = Add(stat, d, "unfound", 1)
      /\ request' = [request EXCEPT ![d] = Append(request[d], InHand(d))]
      /\ UNCHANGED <<variant, dp_quit, burst, txb, ht_table_fm, refused, last, reply, control>>
  BY DEF Ask, Ready
<1>2. burst[d] \in Seq(Flows) /\ request[d] \in Seq(Flows) /\ InHand(d) \in Flows
  <2>1. burst[d] \in Seq(Flows) /\ request[d] \in Seq(Flows)
    BY DEF IInv, Types
  <2> QED BY <1>1, <2>1, HeadTail DEF InHand
<1>3. /\ stat' \in [Components -> Stat]
      /\ \A e \in Components : stat'[e].rxn = stat[e].rxn /\ stat'[e].txn = stat[e].txn
  <2>1. stat \in [Components -> Stat]
    BY DEF IInv, Types
  <2> QED BY <1>1, <2>1, AddOther
<1>4. Types'
  BY <1>1, <1>2, <1>3 DEF IInv, Types
<1>5. Values' /\ Pinned' /\ Sticky' /\ Stays
  BY <1>1 DEF IInv, Values, Given, Pinned, Sticky, Looked, HasPorts, queue_id, Stays
<1>6. pc'[d] = "wait" /\ \A e \in Components \ {d} : pc'[e] = pc[e] /\ request'[e] = request[e]
  BY <1>1 DEF IInv, Types
<1>7. Buffers'
  BY <1>1, <1>6 DEF IInv, Buffers, queue_id
<1>8. Counts'
  <2>1. \A e \in Components : pc'[e] = "done" <=> pc[e] = "done"
    BY <1>1, <1>6
  <2> QED BY <1>1, <1>3, <2>1 DEF IInv, Counts
<1>9. Rings'
  <2>1. request[d] = <<>> /\ reply[d] = <<>>
    BY <1>1 DEF IInv, Rings, Idle
  <2>2. request'[d] = Append(<<>>, InHand(d))
    BY <1>1, <2>1 DEF IInv, Types
  <2>3. Len(request'[d]) = 1
    BY <2>2, <1>2
  <2>4. request'[d] # <<>>
    BY <2>3
  <2> QED BY <1>1, <1>6, <2>1, <2>3, <2>4 DEF IInv, Rings, Idle, Asked, Answered
<1>10. Waiting'
  <2>1. InHand(d)' = InHand(d)
    BY <1>1 DEF InHand
  <2>2. Key(d, InHand(d))' = Key(d, InHand(d))
    <3>1. CASE HasPorts(InHand(d))
      BY <2>1, <3>1 DEF Key, HasPorts
    <3>2. CASE ~HasPorts(InHand(d))
      <4>1. ports' = ports
        BY <1>1, <3>2 DEF Ports
      <4> QED BY <2>1, <4>1 DEF Key, HasPorts
    <3> QED BY <3>1, <3>2
  <2>3. ~Found(d)'
    BY <1>1, <2>2 DEF Found
  <2>4. \A e \in Components \ {d} : ports'[e] = ports[e]
    BY <1>1, PortsElsewhere
  <2> SUFFICES ASSUME NEW e \in Components, pc'[e] = "wait"
               PROVE  variant' # "mono" /\ Looked(InHand(e))' /\ ~Found(e)'
    BY DEF Waiting
  <2>5. CASE e = d
    BY <1>1, <2>1, <2>3, <2>5 DEF Looked
  <2>6. CASE e # d
    <3>1. ports'[e] = ports[e] /\ pc[e] = "wait"
      BY <1>6, <2>4, <2>6
    <3> QED BY <1>1, <3>1 DEF IInv, Waiting, Looked, InHand, Found, Key, HasPorts
  <2> QED BY <2>5, <2>6
<1> QED BY <1>4, <1>5, <1>7, <1>8, <1>9, <1>10 DEF IInv

(* Invariance when a component leaves its loop.                            *)
LEMMA LeaveInvariant ==
    ASSUME IInv, NEW d \in Components, pc[d] # "done", pc' = [pc EXCEPT ![d] = "done"],
           UNCHANGED <<variant, dp_quit, burst, ports, ht_table_fm, stat, refused, last, ringVars>>,
           txb' \in {txb, [txb EXCEPT ![d] = 0]}
    PROVE  IInv' /\ Stays
<1>1. UNCHANGED <<variant, dp_quit, burst, ports, ht_table_fm, stat, refused, last, request, reply,
                  control>>
  BY DEF ringVars
<1>2. /\ txb' \in [Components -> Nat] /\ \A e \in Components : txb'[e] \in {txb[e], 0}
      /\ \A e \in Components \ {d} : txb'[e] = txb[e] /\ pc'[e] = pc[e]
      /\ pc'[d] = "done"
  <2>1. pc'[d] = "done" /\ \A e \in Components \ {d} : pc'[e] = pc[e]
    BY DEF IInv, Types
  <2>2. txb \in [Components -> Nat]
    BY DEF IInv, Types
  <2>3. CASE txb' = txb  BY <2>1, <2>2, <2>3
  <2>4. CASE txb' = [txb EXCEPT ![d] = 0]  BY <2>1, <2>2, <2>4
  <2> QED BY <2>3, <2>4
<1>3. Types' /\ Values' /\ Pinned' /\ Sticky' /\ Stays
  <2>1. pc' \in [Components -> {"loop", "wait", "done"}]
    BY DEF IInv, Types
  <2>2. Types'
    BY <1>1, <1>2, <2>1 DEF IInv, Types
  <2>3. Values' /\ Pinned' /\ Sticky' /\ Stays
    BY <1>1 DEF IInv, Values, Given, Pinned, Sticky, Looked, HasPorts, queue_id, Stays
  <2> QED BY <2>2, <2>3
<1>4. Buffers'
  <2>1. \A e \in Components : txb'[e] < MaxBurst
    BY <1>2, BurstAssumption DEF IInv, Buffers
  <2> QED BY <1>1, <1>2, <2>1 DEF IInv, Buffers, queue_id
<1>5. Counts'
  <2>1. \A e \in Components : pc'[e] # "done" => pc[e] # "done" /\ txb'[e] = txb[e]
    BY <1>2
  <2> QED BY <1>1, <2>1 DEF IInv, Counts
<1>6. Rings' /\ Waiting'
  BY <1>1, <1>2 DEF IInv, Rings, Idle, Asked, Answered, Waiting, Looked, InHand, Found, Key, HasPorts
<1> QED BY <1>3, <1>4, <1>5, <1>6 DEF IInv

(* Invariance when only the control core moves: the components keep still. *)
LEMMA ControlEffect ==
    ASSUME IInv, UNCHANGED <<variant, dp_quit, dataVars>>,
           request' \in [Components -> Seq(Flows)], reply' \in [Components -> Seq(Given)],
           control' \in Control, Rings'
    PROVE  IInv' /\ Stays
<1>1. UNCHANGED <<variant, dp_quit, pc, burst, txb, ports, ht_table_fm, stat, refused, last>>
  BY DEF dataVars
<1>2. Types' /\ Values' /\ Pinned' /\ Sticky' /\ Stays
  BY <1>1 DEF IInv, Types, Values, Given, Pinned, Sticky, Looked, HasPorts, queue_id, Stays
<1>3. Buffers' /\ Waiting'
  BY <1>1 DEF IInv, Buffers, queue_id, Waiting, Looked, InHand, Found, Key, HasPorts
<1>4. Counts'
  BY <1>1 DEF IInv, Counts
<1> QED BY <1>2, <1>3, <1>4 DEF IInv

(* The record of the control core keeps its type when it polls.            *)
LEMMA ControlMoves ==
    ASSUME NEW c \in Control, NEW k \in Components, NEW next \in Servers
    PROVE  /\ [c EXCEPT !.i = k] \in Control /\ [c EXCEPT !.i = k].pc = c.pc
           /\ [c EXCEPT !.i = k, !.n = c.n + 1, !.j = next] \in Control
           /\ [c EXCEPT !.i = k, !.n = c.n + 1, !.j = next].pc = c.pc
<1>1. [c EXCEPT !.i = k] \in Control /\ [c EXCEPT !.i = k].pc = c.pc
  BY DEF Control
<1>2. c.n + 1 \in Int
  BY DEF Control
<1>3. ASSUME NEW m \in Int
      PROVE  /\ [c EXCEPT !.i = k, !.n = m, !.j = next] \in Control
             /\ [c EXCEPT !.i = k, !.n = m, !.j = next].pc = c.pc
  BY DEF Control
<1> QED BY <1>1, <1>2, <1>3

(* The record of the control core keeps its type when it leaves.           *)
LEMMA ControlLeaves ==
    ASSUME NEW c \in Control, NEW p \in {"reset", "done"}
    PROVE  [c EXCEPT !.pc = p] \in Control /\ [c EXCEPT !.pc = p].pc = p
  BY DEF Control

(* Invariance when the control core looks at a ring and answers: the item  *)
(* changes rings, and there is still one.                                  *)
LEMMA PollInvariant ==
    ASSUME IInv, NEW server \in Given, NEW next \in Servers, Poll(server, next)
    PROVE  IInv' /\ Stays
<1> DEFINE i == control.i
<1>1. control \in Control
  BY DEF IInv, Types
<1>2. i \in Components
  BY <1>1 DEF Control
<1>3. Turn \in Components
  BY <1>2, GroupAssumption DEF Turn, Components
<1>4. UNCHANGED <<variant, dp_quit, dataVars>> /\ UNCHANGED pc
  BY DEF Poll, dataVars
<1>5. /\ request \in [Components -> Seq(Flows)] /\ reply \in [Components -> Seq(Given)]
      /\ Rings
  BY DEF IInv, Types, Values
<1>6. CASE request[i] = <<>>
  <2>1. control' = [control EXCEPT !.i = Turn] /\ UNCHANGED <<request, reply>>
    BY <1>6 DEF Poll
  <2>2. control' \in Control
        /\ control'.pc = control.pc
    BY <1>1, <1>3, <2>1, ControlMoves
  <2>3. Rings'
    BY <1>4, <1>5, <2>1, <2>2 DEF Rings, Idle, Asked, Answered
  <2> QED BY <1>4, <1>5, <2>1, <2>2, <2>3, ControlEffect
<1>7. CASE request[i] # <<>>
  <2>1. /\ control' = [control EXCEPT !.i = Turn, !.n = control.n + 1, !.j = next]
        /\ request' = [request EXCEPT ![i] = Tail(request[i])]
        /\ reply' = [reply EXCEPT ![i] = Append(reply[i], server)]
    BY <1>7 DEF Poll
  <2>2. control' \in Control
        /\ control'.pc = control.pc
    BY <1>1, <1>3, <2>1, ControlMoves
  <2>3. Len(request[i]) = 1 /\ reply[i] = <<>> /\ request[i] \in Seq(Flows)
    BY <1>2, <1>5, <1>7 DEF Rings, Idle, Asked, Answered
  <2>4. Tail(request[i]) \in Seq(Flows) /\ Len(Tail(request[i])) = 0
    BY <1>7, <2>3, HeadTail
  <2>5. Tail(request[i]) = <<>>
    BY <2>4, EmptyByLength
  <2>6. Append(<<>>, server) \in Seq(Given) /\ Len(Append(<<>>, server)) = 1 /\ Append(<<>>, server) # <<>>
    OBVIOUS
  <2> HIDE DEF i
  <2>7. request' \in [Components -> Seq(Flows)] /\ reply' \in [Components -> Seq(Given)]
    BY <1>2, <1>5, <2>1, <2>3, <2>4, <2>6
  <2>8. /\ request'[i] = <<>> /\ Len(reply'[i]) = 1 /\ reply'[i] # <<>>
        /\ \A e \in Components \ {i} : request'[e] = request[e] /\ reply'[e] = reply[e]
    BY <1>2, <1>5, <2>1, <2>3, <2>5, <2>6
  <2>9. pc[i] # "loop"
    BY <1>2, <1>5, <1>7 DEF Rings, Idle
  <2>10. Rings'
    <3> SUFFICES ASSUME NEW e \in Components
                 PROVE  /\ Idle(e)' \/ Asked(e)' \/ Answered(e)'
                        /\ pc'[e] = "loop" => Idle(e)'
                        /\ pc'[e] = "wait" => ~Idle(e)' \/ control'.pc # "poll"
      BY DEF Rings, Idle, Asked, Answered
    <3>1. CASE e = i
      BY <3>1, <1>4, <2>8, <2>9 DEF Idle, Asked, Answered
    <3>2. CASE e # i
      BY <3>2, <1>4, <1>5, <2>2, <2>8 DEF Rings, Idle, Asked, Answered
    <3> QED BY <3>1, <3>2
  <2> QED BY <1>4, <2>2, <2>7, <2>10, ControlEffect
<1> QED BY <1>6, <1>7

(* Invariance under every step of the control core.                        *)
LEMMA ControlInvariant ==
    ASSUME IInv, ControlStep  PROVE IInv' /\ Stays
<1>1. control \in Control /\ control.j \in Servers /\ control.i \in Components
  BY DEF IInv, Types, Control
<1>p. Turn \in Components
  BY <1>1, GroupAssumption DEF Turn, Components
<1>2. CASE DecomposedControl
  <2>1. PICK next \in NextServer(control.j) : Poll(control.j, next)
    BY <1>2 DEF DecomposedControl
  <2>2. next \in Servers
    BY <1>1 DEF NextServer, Servers
  <2>3. control.j \in Given
    BY <1>1, <1>2 DEF DecomposedControl, Given
  <2> QED BY <2>1, <2>2, <2>3, PollInvariant
<1>3. CASE SsControl
  <2>1. Poll(0, control.j) /\ 0 \in Given
    BY <1>3 DEF SsControl, Given, Servers
  <2> QED BY <1>1, <2>1, PollInvariant
<1>4. CASE DecomposedControlLeave \/ SsControlLeave
  <2>1. PICK p \in {"reset", "done"} :
            /\ control' = [control EXCEPT !.pc = p]
            /\ UNCHANGED <<request, reply>> /\ UNCHANGED <<variant, dp_quit, dataVars>>
    BY <1>4 DEF DecomposedControlLeave, SsControlLeave
  <2>2. control' \in Control /\ control'.pc = p
    BY <1>1, <2>1, ControlLeaves
  <2>3. Rings'
    BY <2>1, <2>2 DEF IInv, Rings, Idle, Asked, Answered, dataVars
  <2>4. request' \in [Components -> Seq(Flows)] /\ reply' \in [Components -> Seq(Given)]
    BY <2>1 DEF IInv, Types, Values
  <2> QED BY <2>1, <2>2, <2>3, <2>4, ControlEffect
<1>5. CASE ResetRings
  <2> DEFINE i == control.i
  <2>1. PICK p \in {"reset", "done"} :
            /\ control' = [control EXCEPT !.i = Turn, !.pc = p]
            /\ request' = [request EXCEPT ![i] = <<>>] /\ reply' = [reply EXCEPT ![i] = <<>>]
            /\ UNCHANGED <<variant, dp_quit, dataVars>> /\ UNCHANGED pc
    BY <1>5 DEF ResetRings, dataVars
  <2>2. control' \in Control /\ control'.pc = p
    <3> DEFINE k == Turn
    <3>1. k \in Components /\ control \in Control /\ control' = [control EXCEPT !.i = k, !.pc = p]
      BY <1>1, <1>p, <2>1
    <3> HIDE DEF k
    <3> QED BY ONLY <3>1 DEF Control
  <2>3. /\ request \in [Components -> Seq(Flows)] /\ reply \in [Components -> Seq(Given)]
        /\ i \in Components
    BY <1>1 DEF IInv, Types, Values
  <2> HIDE DEF i
  <2>4. /\ request' \in [Components -> Seq(Flows)] /\ reply' \in [Components -> Seq(Given)]
        /\ request'[i] = <<>> /\ reply'[i] = <<>>
        /\ \A e \in Components \ {i} : request'[e] = request[e] /\ reply'[e] = reply[e]
    BY <2>1, <2>3
  <2>5. Rings'
    BY <2>1, <2>2, <2>4 DEF IInv, Rings, Idle, Asked, Answered
  <2> QED BY <2>1, <2>2, <2>4, <2>5, ControlEffect
<1> QED BY <1>2, <1>3, <1>4, <1>5 DEF ControlStep

(* The initial states satisfy the invariant.                               *)
LEMMA InitInvariant == Init => IInv
<1> SUFFICES ASSUME Init PROVE IInv
  OBVIOUS
<1> USE GroupAssumption, BurstAssumption DEF Init, DecomposedInit, SsInit, MonoInit, Fresh
<1>1. ZeroStat \in Stat /\ ZeroStat.rxn = 0 /\ ZeroStat.txn = 0
  BY DEF ZeroStat, Stat
<1>2. ControlInit \in Control
  BY DEF ControlInit, Components, Control, Servers
<1>3. <<>> \in Seq(Flows) /\ <<>> \in Seq(Given)
  OBVIOUS
<1>4. Types
  BY <1>1, <1>2, <1>3 DEF Types
<1>5. Values
  BY <1>3 DEF Values
<1>6. Buffers
  BY DEF Buffers
<1>7. Counts
  BY <1>1 DEF Counts
<1>8. Rings /\ Pinned /\ Sticky /\ Waiting
  BY DEF Rings, Idle, Pinned, Sticky, Waiting, None, Servers
<1> QED BY <1>4, <1>5, <1>6, <1>7, <1>8 DEF IInv

(* Every step keeps the invariant and takes no flow with an entry off its  *)
(* server.                                                                 *)
LEMMA StepInvariant == IInv /\ [Next]_vars => IInv' /\ Stays
<1> SUFFICES ASSUME IInv, [Next]_vars PROVE IInv' /\ Stays
  OBVIOUS
<1>1. ASSUME NEW d \in Components, DataStep(d)  PROVE IInv' /\ Stays
  <2>1. CASE Loop(d)  BY <2>1, LoopInvariant
  <2>2. CASE Pass(d)  BY <2>2, PassInvariant
  <2>3. CASE Hit(d)  BY <2>3, HitInvariant
  <2>4. CASE MonoMiss(d)  BY <2>4, MonoMissInvariant
  <2>5. CASE Ask(d)  BY <2>5, AskInvariant
  <2>6. CASE TakeAnswer(d)  BY <2>6, TakeAnswerInvariant
  <2>7. CASE DecomposedLeave(d)  BY <2>7, LeaveInvariant DEF DecomposedLeave
  <2>8. CASE SsGiveUp(d)  BY <2>8, LeaveInvariant DEF SsGiveUp
  <2>9. CASE LeaveLoop(d)  BY <2>9, LeaveInvariant DEF LeaveLoop
  <2> QED BY <1>1, <2>1, <2>2, <2>3, <2>4, <2>5, <2>6, <2>7, <2>8, <2>9 DEF DataStep, Handle, Leave
<1>2. CASE ControlStep
  BY <1>2, ControlInvariant
<1>3. CASE Quit \/ UNCHANGED vars
  <2>1. /\ dp_quit' \in BOOLEAN
        /\ UNCHANGED <<variant, pc, burst, txb, ports, ht_table_fm, stat, refused, last, request, reply,
                       control>>
    BY <1>3 DEF Quit, vars, dataVars, ringVars, IInv, Types
  <2>2. Types' /\ Values' /\ Pinned' /\ Sticky' /\ Stays
    BY <2>1 DEF IInv, Types, Values, Given, Pinned, Sticky, Looked, HasPorts, queue_id, Stays
  <2>3. Buffers' /\ Waiting' /\ Rings'
    BY <2>1 DEF IInv, Buffers, queue_id, Waiting, Looked, InHand, Found, Key, HasPorts, Rings, Idle,
                Asked, Answered
  <2>4. Counts'
    BY <2>1 DEF IInv, Counts
  <2> QED BY <2>2, <2>3, <2>4 DEF IInv
<1> QED BY <1>1, <1>2, <1>3 DEF Next

(* IInv is an invariant of the load balancers.                             *)
LEMMA Invariance == Spec => []IInv
  BY InitInvariant, StepInvariant, PTL DEF Spec

(* The variables keep their types and the buffers their sizes, in all      *)
(* three programs.                                                         *)
THEOREM TypeCorrect == Spec => []TypeOK
<1>1. IInv => TypeOK
  <2> SUFFICES ASSUME IInv PROVE TypeOK
    OBVIOUS
  <2>1. /\ control.i \in Components /\ control.j \in Servers
        /\ control.pc \in {"poll", "reset", "done"}
    BY DEF IInv, Types, Control
  <2>p. Given \subseteq Servers
    BY DEF Given, Servers
  <2>2. Range(last) \subseteq Servers \union {Original, None}
    BY <2>p DEF IInv, Values, Range
  <2>3. ASSUME NEW d \in Components
        PROVE  /\ pc[d] \in {"loop", "wait", "done"}
               /\ Len(burst[d]) <= MaxBurst /\ Range(burst[d]) \subseteq Flows
               /\ txb[d] \in 0 .. MaxBurst - 1 /\ refused[d] \in Nat
               /\ Range(ht_table_fm[d]) \subseteq Servers
    <3>1. pc[d] \in {"loop", "wait", "done"} /\ burst[d] \in Seq(Flows) /\ txb[d] \in Nat
          /\ refused[d] \in Nat
      BY DEF IInv, Types
    <3>2. Len(burst[d]) <= MaxBurst /\ txb[d] \in 0 .. MaxBurst - 1
      BY <3>1, BurstAssumption DEF IInv, Buffers
    <3>3. Range(burst[d]) \subseteq Flows
      BY <3>1 DEF Range
    <3>4. Range(ht_table_fm[d]) \subseteq Servers
      BY <2>p DEF IInv, Values, Range
    <3> QED BY <3>1, <3>2, <3>3, <3>4
  <2> QED BY <2>1, <2>2, <2>3 DEF TypeOK, IInv, Types
<1> QED BY <1>1, Invariance, PTL

(* A waiting component has one request or answer under way (unless the     *)
(* control core has quit and reset the rings) and a forwarding one has     *)
(* none, so that the rings of decomposed_lb.c and ss_lb.c never hand an    *)
(* answer to a later packet.                                               *)
THEOREM OneOutstandingHolds == Spec => []OneOutstanding
<1>1. IInv => OneOutstanding
  <2> SUFFICES ASSUME IInv, NEW d \in Components
               PROVE  CASE pc[d] = "loop" -> Len(request[d]) + Len(reply[d]) = 0
                        [] pc[d] = "wait" -> \/ Len(request[d]) + Len(reply[d]) = 1
                                             \/ /\ Len(request[d]) + Len(reply[d]) = 0
                                                /\ control.pc # "poll"
                        [] OTHER -> Len(request[d]) + Len(reply[d]) <= 1
    BY DEF OneOutstanding
  <2> DEFINE q == Len(request[d])
             a == Len(reply[d])
  <2>1. /\ Idle(d) => q = 0 /\ a = 0
        /\ Asked(d) => q = 1 /\ a = 0
        /\ Answered(d) => q = 0 /\ a = 1
    BY DEF Idle, Asked, Answered
  <2> HIDE DEF q, a
  <2>2. /\ Idle(d) => q + a = 0
        /\ Asked(d) \/ Answered(d) => q + a = 1
    BY <2>1
  <2>3. /\ Idle(d) \/ Asked(d) \/ Answered(d)
        /\ pc[d] = "loop" => Idle(d)
        /\ pc[d] = "wait" => ~Idle(d) \/ control.pc # "poll"
    BY DEF IInv, Rings
  <2>4. /\ pc[d] = "loop" => q + a = 0
        /\ pc[d] = "wait" => q + a = 1 \/ (q + a = 0 /\ control.pc # "poll")
        /\ q + a = 0 \/ q + a = 1
    BY <2>2, <2>3
  <2>5. q + a <= 1
    BY <2>4
  <2> QED BY <2>4, <2>5 DEF q, a
<1> QED BY <1>1, Invariance, PTL

(* Every packet a component of a load balancer received is, until it       *)
(* leaves, in its buffers, counted as transmitted or refused by the NIC:   *)
(* neither the full buffer nor the drain timer loses or doubles one.       *)
THEOREM PacketsAreAccounted == Spec => []PacketsAccounted
<1>1. IInv => PacketsAccounted
  BY DEF IInv, Counts, PacketsAccounted
<1> QED BY <1>1, Invariance, PTL

(* A flow whose packet went to a server keeps going there while it has an  *)
(* entry, and in "ss" and "mono" even if it has none; although the keys of *)
(* icmp depend on earlier packets, a full table forgets the new ones and   *)
(* "decomposed" may answer every question with another server.             *)
THEOREM FlowStays == Spec => StaysOnServer
<1>1. IInv /\ [Next]_vars =>
        [\A f \in Flows :
            last[f] \in Servers /\ last'[f] # last[f] =>
                variant = "decomposed" /\ ~Held(f) /\ last'[f] \in Servers]_vars
  BY StepInvariant DEF Stays
<1> QED BY <1>1, Invariance, PTL DEF Spec, StaysOnServer

-------------------------------------------------------------------------------
(***************************************************************************)
(* The accounts of the misses.  MissesAccounted is inductive on top of     *)
(* IInv, by which a waiting component does not have its key: what it       *)
(* enters when the answer comes is a new one.                              *)
(***************************************************************************)
Keys(d) == DOMAIN ht_table_fm[d]
Due(d) == IF pc[d] = "wait" \/ (pc[d] = "done" /\ burst[d] # <<>>) THEN 1 ELSE 0

MissCount(d) ==
    /\ IsFiniteSet(Keys(d))
    /\ stat[d].unfound = Cardinality(Keys(d)) + stat[d].key_full + Due(d)

Requests == [d \in Components |-> Len(request[d])]
Unfounds == [d \in Components |-> stat[d].unfound]
Polling == variant # "mono" /\ control.pc = "poll"
Invoked == Polling => control.n + SumFunction(Requests) = SumFunction(Unfounds)

Misses == (\A d \in Components : MissCount(d)) /\ Invoked

(* The counters of misses are integers.                                    *)
LEMMA MissFields ==
    ASSUME NEW st \in [Components -> Stat], NEW d \in Components
    PROVE  st[d].unfound \in Int /\ st[d].key_full \in Int
<1>1. st[d] \in Stat
  OBVIOUS
<1> QED BY <1>1 DEF Stat

(* A component that does not move keeps its account.                       *)
LEMMA Elsewhere ==
    ASSUME NEW e \in Components, MissCount(e), UNCHANGED variant,
           pc'[e] = pc[e], burst'[e] = burst[e], ht_table_fm'[e] = ht_table_fm[e],
           stat'[e].unfound = stat[e].unfound, stat'[e].key_full = stat[e].key_full
    PROVE  MissCount(e)'
  BY DEF MissCount, Keys, Due

(* The other counters say nothing of misses.                               *)
LEMMA AddNoMiss ==
    ASSUME NEW st \in [Components -> Stat], NEW d \in Components, NEW n \in Int,
           NEW field \in {"rxn", "txn", "found"}
    PROVE  /\ Add(st, d, field, n) \in [Components -> Stat]
           /\ \A e \in Components : /\ Add(st, d, field, n)[e].unfound = st[e].unfound
                                   /\ Add(st, d, field, n)[e].key_full = st[e].key_full
<1>1. /\ field \in Counters /\ "unfound" \in Counters \ {field}
      /\ "key_full" \in Counters \ {field}
  BY DEF Counters
<1>2. /\ Add(st, d, field, n) \in [Components -> Stat]
      /\ \A g \in Counters \ {field} : Add(st, d, field, n)[d][g] = st[d][g]
      /\ \A e \in Components \ {d} : Add(st, d, field, n)[e] = st[e]
  BY <1>1, AddStat
<1>3. /\ Add(st, d, field, n)[d].unfound = st[d].unfound
      /\ Add(st, d, field, n)[d].key_full = st[d].key_full
  BY <1>1, <1>2
<1> QED BY <1>2, <1>3

(* rte_eth_tx_buffer counts no miss, and moves one component.              *)
LEMMA TransmitMisses ==
    ASSUME IInv, NEW d \in Components, NEW dst,
           NEW st \in [Components -> Stat], Transmit(d, dst, st)
    PROVE  /\ \A e \in Components : /\ stat'[e].unfound = st[e].unfound
                                    /\ stat'[e].key_full = st[e].key_full
           /\ \A e \in Components \ {d} : burst'[e] = burst[e]
<1>1. PICK sent \in Nat : /\ stat' = Add(st, d, "txn", sent)
                          /\ burst' = [burst EXCEPT ![d] = Tail(burst[d])]
  <2> DEFINE n == IF txb[d] + 1 = MaxBurst THEN MaxBurst ELSE 0
  <2>1. n \in Nat
    BY BurstAssumption
  <2>2. PICK tx \in Sending(n) : /\ stat' = Add(st, d, "txn", tx.sent)
                                 /\ burst' = [burst EXCEPT ![d] = Tail(burst[d])]
    BY DEF Transmit
  <2> HIDE DEF n
  <2>3. tx.sent \in Nat
    BY <2>1, SentOrFreed
  <2> QED BY <2>2, <2>3
<1>2. \A e \in Components : stat'[e].unfound = st[e].unfound /\ stat'[e].key_full = st[e].key_full
  BY <1>1, AddNoMiss
<1>3. \A e \in Components \ {d} : burst'[e] = burst[e]
  BY <1>1 DEF IInv, Types
<1> QED BY <1>2, <1>3

(* A miss and a full table counted, each in its counter of one component.  *)
LEMMA AddMiss ==
    ASSUME NEW st \in [Components -> Stat], NEW d \in Components, NEW n \in Int
    PROVE  /\ Add(st, d, "unfound", n) \in [Components -> Stat]
           /\ Add(st, d, "unfound", n)[d].unfound = st[d].unfound + n
           /\ Add(st, d, "unfound", n)[d].key_full = st[d].key_full
           /\ \A e \in Components \ {d} : Add(st, d, "unfound", n)[e] = st[e]
           /\ Add(st, d, "key_full", n) \in [Components -> Stat]
           /\ Add(st, d, "key_full", n)[d].key_full = st[d].key_full + n
           /\ Add(st, d, "key_full", n)[d].unfound = st[d].unfound
           /\ \A e \in Components \ {d} : Add(st, d, "key_full", n)[e] = st[e]
<1>1. /\ "unfound" \in Counters /\ "key_full" \in Counters \ {"unfound"}
      /\ "key_full" \in Counters /\ "unfound" \in Counters \ {"key_full"}
  BY DEF Counters
<1>2. /\ Add(st, d, "unfound", n) \in [Components -> Stat]
      /\ Add(st, d, "unfound", n)[d].unfound = st[d].unfound + n
      /\ \A g \in Counters \ {"unfound"} : Add(st, d, "unfound", n)[d][g] = st[d][g]
      /\ \A e \in Components \ {d} : Add(st, d, "unfound", n)[e] = st[e]
  BY <1>1, AddStat
<1>3. /\ Add(st, d, "key_full", n) \in [Components -> Stat]
      /\ Add(st, d, "key_full", n)[d].key_full = st[d].key_full + n
      /\ \A g \in Counters \ {"key_full"} : Add(st, d, "key_full", n)[d][g] = st[d][g]
      /\ \A e \in Components \ {d} : Add(st, d, "key_full", n)[e] = st[e]
  BY <1>1, AddStat
<1> QED BY <1>1, <1>2, <1>3

(* A new key is entered, or counted when the table is full.                *)
LEMMA RememberedKeys ==
    ASSUME IInv, NEW d \in Components, NEW k, NEW server, Remember(d, k, server),
           k \notin Keys(d), IsFiniteSet(Keys(d))
    PROVE  /\ IsFiniteSet(Keys(d)') /\ Cardinality(Keys(d)) \in Nat /\ Cardinality(Keys(d)') \in Nat
           /\ Cardinality(Keys(d)') = Cardinality(Keys(d)) + IF HasRoom(d) THEN 1 ELSE 0
           /\ \A e \in Components \ {d} : ht_table_fm'[e] = ht_table_fm[e]
<1>1. DOMAIN ht_table_fm = Components
  BY DEF IInv, Values
<1>2. Cardinality(Keys(d)) \in Nat
  BY FS_CardinalityType
<1>3. CASE HasRoom(d)
  <2> DEFINE old == ht_table_fm[d]
             new == [x \in DOMAIN old \union {k} |-> IF x \in DOMAIN old THEN old[x] ELSE server]
  <2>1. ht_table_fm' = [ht_table_fm EXCEPT ![d] = new] /\ DOMAIN new = DOMAIN old \union {k}
    BY <1>3 DEF Remember
  <2> HIDE DEF new
  <2>2. ht_table_fm'[d] = new /\ \A e \in Components \ {d} : ht_table_fm'[e] = ht_table_fm[e]
    BY <1>1, <2>1
  <2>3. Keys(d)' = Keys(d) \union {k}
    BY <2>1, <2>2 DEF Keys
  <2>4. PICK K : K = Keys(d)
    OBVIOUS
  <2>5. IsFiniteSet(K) /\ k \notin K
    BY <2>4
  <2>6. IsFiniteSet(K \union {k}) /\ Cardinality(K \union {k}) = Cardinality(K) + 1
    BY <2>5, FS_AddElement
  <2> QED BY <1>2, <1>3, <2>2, <2>3, <2>4, <2>6
<1>4. CASE ~HasRoom(d)
  <2>1. ht_table_fm' = ht_table_fm /\ Keys(d)' = Keys(d)
    BY <1>4 DEF Remember, Keys
  <2> QED BY <1>2, <1>4, <2>1
<1> QED BY <1>3, <1>4

(* The two totals change only with their summands.                         *)
LEMMA SameTotals ==
    ASSUME IInv, Invoked, UNCHANGED <<variant, control, request>>,
           \A e \in Components : stat'[e].unfound = stat[e].unfound
    PROVE  Invoked'
<1>1. Requests' = Requests /\ Unfounds' = Unfounds
  BY DEF Requests, Unfounds, Components
<1> QED BY <1>1 DEF Invoked, Polling

(* The accounts when a component that does not wait meets no new key.      *)
LEMMA QuietMisses ==
    ASSUME IInv, Misses, NEW d \in Components, pc[d] = "loop",
           UNCHANGED <<variant, pc, ht_table_fm, ringVars>>,
           \A e \in Components : /\ stat'[e].unfound = stat[e].unfound
                                 /\ stat'[e].key_full = stat[e].key_full,
           \A e \in Components \ {d} : burst'[e] = burst[e]
    PROVE  Misses'
<1>1. UNCHANGED <<control, request>>
  BY DEF ringVars
<1>2. ASSUME NEW e \in Components PROVE MissCount(e)'
  <2>1. MissCount(e)
    BY DEF Misses
  <2>2. CASE e = d
    <3>1. pc'[d] = "loop"
      OBVIOUS
    <3> QED BY <2>1, <2>2, <3>1 DEF MissCount, Keys, Due
  <2>3. CASE e # d
    BY <2>1, <2>3, Elsewhere
  <2> QED BY <2>2, <2>3
<1>3. Invoked'
  BY <1>1, SameTotals DEF Misses
<1> QED BY <1>2, <1>3 DEF Misses

(* The accounts when a data component moves without a miss.                *)
LEMMA NoMiss ==
    ASSUME IInv, Misses, NEW d \in Components, Loop(d) \/ Pass(d) \/ Hit(d)
    PROVE  Misses'
<1>0. stat \in [Components -> Stat] /\ burst \in [Components -> Seq(Flows)]
  BY DEF IInv, Types
<1>1. CASE Loop(d)
  <2>1. PICK flush \in BOOLEAN, pkts \in Arrivals(d) :
            \E tx \in Sending(IF flush THEN txb[d] ELSE 0) :
               /\ burst' = [burst EXCEPT ![d] = pkts]
               /\ stat' = Add(Add(stat, d, "rxn", Len(pkts)), d, "txn", tx.sent)
    BY <1>1 DEF Loop
  <2>2. pc[d] = "loop" /\ UNCHANGED <<variant, pc, ports, ht_table_fm, ringVars>>
    BY <1>1 DEF Loop
  <2> DEFINE n == IF flush THEN txb[d] ELSE 0
             st == Add(stat, d, "rxn", Len(pkts))
  <2>n. n \in Nat
    BY DEF IInv, Types
  <2>t. PICK tx \in Sending(n) : burst' = [burst EXCEPT ![d] = pkts] /\ stat' = Add(st, d, "txn", tx.sent)
    BY <2>1
  <2> HIDE DEF n
  <2>3. Len(pkts) \in Int /\ tx.sent \in Int /\ stat' = Add(st, d, "txn", tx.sent)
    BY <2>n, <2>t, ArrivalsAreMine, SentOrFreed DEF IInv, Types
  <2>5. /\ st \in [Components -> Stat]
        /\ \A e \in Components : /\ st[e].unfound = stat[e].unfound
                                 /\ st[e].key_full = stat[e].key_full
    BY <1>0, <2>3, AddNoMiss
  <2> HIDE DEF st
  <2>6. \A e \in Components : stat'[e].unfound = st[e].unfound /\ stat'[e].key_full = st[e].key_full
    BY <2>3, <2>5, AddNoMiss
  <2>7. \A e \in Components : /\ stat'[e].unfound = stat[e].unfound
                              /\ stat'[e].key_full = stat[e].key_full
    BY <2>5, <2>6
  <2>8. \A e \in Components \ {d} : burst'[e] = burst[e]
    BY <1>0, <2>2, <2>t
  <2> QED BY <2>2, <2>7, <2>8, QuietMisses
<1>2. CASE Pass(d)
  <2>1. /\ pc[d] = "loop" /\ Transmit(d, Original, stat)
        /\ UNCHANGED <<variant, pc, ports, ht_table_fm, ringVars>>
    BY <1>2 DEF Pass, Ready
  <2> QED BY <1>0, <2>1, TransmitMisses, QuietMisses
<1>3. CASE Hit(d)
  <2> DEFINE st == Add(stat, d, "found", 1)
             dst == ht_table_fm[d][Key(d, InHand(d))]
  <2>1. /\ pc[d] = "loop" /\ Transmit(d, dst, st) /\ ports' = Ports(d, InHand(d))
        /\ UNCHANGED <<variant, pc, ht_table_fm, ringVars>>
    BY <1>3 DEF Hit, Ready
  <2>3. /\ st \in [Components -> Stat]
        /\ \A e \in Components : /\ st[e].unfound = stat[e].unfound
                                 /\ st[e].key_full = stat[e].key_full
    BY <1>0, AddNoMiss
  <2> HIDE DEF st, dst
  <2>4. /\ \A e \in Components : /\ stat'[e].unfound = st[e].unfound
                                 /\ stat'[e].key_full = st[e].key_full
        /\ \A e \in Components \ {d} : burst'[e] = burst[e]
    BY <2>1, <2>3, TransmitMisses
  <2>5. \A e \in Components : /\ stat'[e].unfound = stat[e].unfound
                              /\ stat'[e].key_full = stat[e].key_full
    BY <2>3, <2>4
  <2> QED BY <2>1, <2>4, <2>5, QuietMisses
<1> QED BY <1>1, <1>2, <1>3

(* The arithmetic of a miss: the new key is entered (c) or counted (k).    *)
LEMMA OneMissed ==
    ASSUME NEW u \in Int, NEW c \in Nat, NEW k \in Int, NEW b \in Nat, NEW r \in BOOLEAN,
           NEW m \in Int, NEW v, NEW d, NEW l, u = c + k + b, v = u + m,
           d = c + IF r THEN 1 ELSE 0, l = k + IF r THEN 0 ELSE 1, b + m = 1
    PROVE  v = d + l + 0
<1>1. CASE r
  BY <1>1
<1>2. CASE ~r
  BY <1>2
<1> QED BY <1>1, <1>2

(* The accounts of mono, which enters its new key at once.                 *)
LEMMA MonoMissMisses ==
    ASSUME IInv, Misses, NEW d \in Components, MonoMiss(d)  PROVE Misses'
<1> DEFINE full == IF HasRoom(d) THEN 0 ELSE 1
           st1 == Add(stat, d, "unfound", 1)
           st == Add(st1, d, "key_full", full)
<1>1. /\ variant = "mono" /\ pc[d] = "loop"
      /\ Key(d, InHand(d)) \notin Keys(d)
      /\ Remember(d, Key(d, InHand(d)), 0)
      /\ Transmit(d, Original, st)
      /\ ports' = Ports(d, InHand(d))
      /\ UNCHANGED <<variant, pc, ringVars>>
  BY DEF MonoMiss, Found, Ready, Keys
<1>2. /\ st1 \in [Components -> Stat] /\ st1[d].unfound = stat[d].unfound + 1
      /\ st1[d].key_full = stat[d].key_full
      /\ \A e \in Components \ {d} : st1[e] = stat[e]
  <2>1. stat \in [Components -> Stat]
    BY DEF IInv, Types
  <2> QED BY <2>1, AddMiss
<1>3. full \in Int
  OBVIOUS
<1> HIDE DEF st1, full
<1>4. /\ st \in [Components -> Stat] /\ st[d].key_full = stat[d].key_full + full
      /\ st[d].unfound = stat[d].unfound + 1
      /\ \A e \in Components \ {d} : st[e] = stat[e]
  BY <1>2, <1>3, AddMiss
<1> HIDE DEF st
<1>5. /\ \A e \in Components : /\ stat'[e].unfound = st[e].unfound
                               /\ stat'[e].key_full = st[e].key_full
      /\ \A e \in Components \ {d} : burst'[e] = burst[e]
  BY <1>1, <1>4, TransmitMisses
<1>6. MissCount(d) /\ IsFiniteSet(Keys(d))
  BY DEF Misses, MissCount
<1>7. /\ IsFiniteSet(Keys(d)') /\ Cardinality(Keys(d)) \in Nat
      /\ Cardinality(Keys(d)') = Cardinality(Keys(d)) + IF HasRoom(d) THEN 1 ELSE 0
      /\ \A e \in Components \ {d} : ht_table_fm'[e] = ht_table_fm[e]
  BY <1>1, <1>6, RememberedKeys
<1>8. MissCount(d)'
  <2>1. pc'[d] = "loop" /\ Due(d) = 0 /\ Due(d)' = 0
    BY <1>1 DEF Due
  <2>2. stat[d].unfound \in Int /\ stat[d].key_full \in Int
    BY MissFields DEF IInv, Types
  <2> DEFINE u == stat[d].unfound    c == Cardinality(Keys(d))   k == stat[d].key_full
             v == stat'[d].unfound   e == Cardinality(Keys(d)')  l == stat'[d].key_full
             r == HasRoom(d)
  <2>3. /\ u \in Int /\ c \in Nat /\ k \in Int /\ r \in BOOLEAN /\ u = c + k + 0 /\ v = u + 1
        /\ e = c + IF r THEN 1 ELSE 0
    BY <1>4, <1>5, <1>6, <1>7, <2>1, <2>2 DEF MissCount, HasRoom
  <2>4. l = k + IF r THEN 0 ELSE 1
    BY <1>4, <1>5 DEF full
  <2>5. 0 \in Nat /\ 0 + 1 = 1
    OBVIOUS
  <2> HIDE DEF u, c, k, v, e, l, r
  <2>6. v = e + l + 0
    BY <2>3, <2>4, <2>5, OneMissed
  <2>7. stat'[d].unfound = Cardinality(Keys(d)') + stat'[d].key_full + Due(d)'
    BY <2>1, <2>6 DEF v, e, l
  <2> QED BY <1>7, <2>1, <2>7 DEF MissCount, Keys
<1>9. ASSUME NEW e \in Components \ {d} PROVE MissCount(e)'
  <2>1. /\ MissCount(e) /\ e \in Components /\ UNCHANGED variant
        /\ pc'[e] = pc[e] /\ burst'[e] = burst[e] /\ ht_table_fm'[e] = ht_table_fm[e]
        /\ stat'[e].unfound = stat[e].unfound /\ stat'[e].key_full = stat[e].key_full
    BY <1>1, <1>4, <1>5, <1>7 DEF Misses
  <2> QED BY <2>1, Elsewhere
<1>10. Invoked'
  BY <1>1 DEF Invoked, Polling
<1> QED BY <1>8, <1>9, <1>10 DEF Misses

(* A sum with one more in one place.                                       *)
LEMMA OneMore ==
    ASSUME NEW f \in [Components -> Int], NEW g \in [Components -> Int], NEW x \in Components,
           g[x] = f[x] + 1, \A y \in Components \ {x} : f[y] = g[y]
    PROVE  /\ SumFunction(f) \in Int /\ SumFunction(g) \in Int
           /\ SumFunction(g) = SumFunction(f) + 1
<1>1. IsFiniteSet(Components)
  BY GroupAssumption, FS_Interval DEF Components
<1>2. /\ SumFunction(f) \in Int /\ SumFunction(g) \in Int
      /\ SumFunction(g) - g[x] = SumFunction(f) - f[x]
  BY <1>1, SumUpdate
<1>3. f[x] \in Int /\ g[x] \in Int
  OBVIOUS
<1> QED BY <1>2, <1>3

(* The accounts when a component asks: its miss is due an answer, and its  *)
(* request is one more for the control core.                               *)
LEMMA AskMisses ==
    ASSUME IInv, Misses, NEW d \in Components, Ask(d)  PROVE Misses'
<1>1. /\ pc[d] = "loop" /\ pc' = [pc EXCEPT ![d] = "wait"] /\ burst[d] # <<>>
      /\ stat' = Add(stat, d, "unfound", 1)
      /\ request' = [request EXCEPT ![d] = Append(request[d], InHand(d))]
      /\ UNCHANGED <<variant, burst, ht_table_fm, control>>
  BY DEF Ask, Ready
<1>2. /\ pc \in [Components -> {"loop", "wait", "done"}] /\ stat \in [Components -> Stat]
      /\ burst[d] \in Seq(Flows) /\ request \in [Components -> Seq(Flows)]
  BY DEF IInv, Types
<1>3. /\ stat' \in [Components -> Stat]
      /\ stat'[d].unfound = stat[d].unfound + 1 /\ stat'[d].key_full = stat[d].key_full
      /\ \A e \in Components \ {d} : stat'[e] = stat[e]
  BY <1>1, <1>2, AddMiss
<1>4. pc'[d] = "wait" /\ \A e \in Components \ {d} : pc'[e] = pc[e]
  BY <1>1, <1>2
<1>5. MissCount(d)'
  <2>3. Keys(d)' = Keys(d) /\ Due(d) = 0 /\ Due(d)' = 1 /\ MissCount(d)
    BY <1>1, <1>4 DEF Keys, Due, Misses
  <2>4. IsFiniteSet(Keys(d)) /\ stat[d].unfound = Cardinality(Keys(d)) + stat[d].key_full + 0
    BY <2>3 DEF MissCount
  <2>5. stat[d].unfound \in Int /\ stat[d].key_full \in Int /\ Cardinality(Keys(d)) \in Nat
    BY <1>2, <2>4, MissFields, FS_CardinalityType
  <2> DEFINE u == stat[d].unfound   c == Cardinality(Keys(d))   k == stat[d].key_full
             v == stat'[d].unfound
  <2>6. u \in Int /\ c \in Nat /\ k \in Int /\ u = c + k + 0 /\ v = u + 1
    BY <1>3, <2>4, <2>5
  <2> HIDE DEF u, c, k, v
  <2>7. v = c + k + 1
    BY <2>6
  <2>8. stat'[d].unfound = Cardinality(Keys(d)') + stat'[d].key_full + Due(d)'
    BY <1>3, <2>3, <2>7 DEF v, c, k
  <2> QED BY <2>3, <2>4, <2>8 DEF MissCount
<1>6. ASSUME NEW e \in Components \ {d} PROVE MissCount(e)'
  <2>1. /\ MissCount(e) /\ e \in Components /\ UNCHANGED variant
        /\ pc'[e] = pc[e] /\ burst'[e] = burst[e] /\ ht_table_fm'[e] = ht_table_fm[e]
        /\ stat'[e].unfound = stat[e].unfound /\ stat'[e].key_full = stat[e].key_full
    BY <1>1, <1>3, <1>4 DEF Misses
  <2> QED BY <2>1, Elsewhere
<1>7. Invoked'
  <2> SUFFICES ASSUME Polling'
               PROVE  control'.n + SumFunction(Requests') = SumFunction(Unfounds')
    BY DEF Invoked
  <2>1. Polling /\ control' = control /\ control.n \in Int
    BY <1>1 DEF Polling, IInv, Types, Control
  <2>2. control.n + SumFunction(Requests) = SumFunction(Unfounds)
    BY <2>1 DEF Misses, Invoked
  <2>3. InHand(d) \in Flows
    BY <1>1, <1>2, HeadTail DEF InHand
  <2>4. /\ Requests'[d] = Requests[d] + 1 /\ Unfounds'[d] = Unfounds[d] + 1
        /\ \A e \in Components \ {d} : Requests[e] = Requests'[e] /\ Unfounds[e] = Unfounds'[e]
    <3>1. /\ Requests[d] = Len(request[d]) /\ Requests'[d] = Len(request'[d])
          /\ \A e \in Components : Requests[e] = Len(request[e]) /\ Requests'[e] = Len(request'[e])
      BY DEF Requests, Components
    <3>2. request'[d] = Append(request[d], InHand(d))
          /\ \A e \in Components \ {d} : request'[e] = request[e]
      BY <1>1, <1>2
    <3>3. Len(Append(request[d], InHand(d))) = Len(request[d]) + 1
      BY <1>2, <2>3
    <3>4. \A e \in Components : Unfounds[e] = stat[e].unfound /\ Unfounds'[e] = stat'[e].unfound
      BY DEF Unfounds, Components
    <3> QED BY <1>3, <3>1, <3>2, <3>3, <3>4
  <2>5. PICK f : f = Requests
    OBVIOUS
  <2>6. PICK g : g = Requests'
    OBVIOUS
  <2>7. f \in [Components -> Int] /\ g \in [Components -> Int]
    <3>1. request' \in [Components -> Seq(Flows)]
      BY <1>1, <1>2, <2>3
    <3>2. Requests \in [Components -> Int]
      BY <1>2 DEF Requests
    <3>3. Requests' \in [Components -> Int]
      BY <3>1 DEF Requests, Components
    <3> QED BY <2>5, <2>6, <3>2, <3>3
  <2>8. SumFunction(f) \in Int /\ SumFunction(g) = SumFunction(f) + 1
    <3>1. g[d] = f[d] + 1 /\ \A e \in Components \ {d} : f[e] = g[e]
      BY <2>4, <2>5, <2>6
    <3> QED BY <2>7, <3>1, OneMore
  <2>9. PICK u : u = Unfounds
    OBVIOUS
  <2>10. PICK v : v = Unfounds'
    OBVIOUS
  <2>11. u \in [Components -> Int] /\ v \in [Components -> Int]
    <3>1. \A e \in Components : stat[e].unfound \in Int /\ stat'[e].unfound \in Int
      BY <1>2, <1>3, MissFields
    <3>2. Unfounds \in [Components -> Int]
      BY <3>1 DEF Unfounds
    <3>3. Unfounds' \in [Components -> Int]
      BY <3>1 DEF Unfounds, Components
    <3> QED BY <2>9, <2>10, <3>2, <3>3
  <2>12. SumFunction(u) \in Int /\ SumFunction(v) = SumFunction(u) + 1
    <3>1. v[d] = u[d] + 1 /\ \A e \in Components \ {d} : u[e] = v[e]
      BY <2>4, <2>9, <2>10
    <3> QED BY <2>11, <3>1, OneMore
  <2>13. control.n + SumFunction(f) = SumFunction(u)
    BY <2>2, <2>5, <2>9
  <2> DEFINE n == control.n
  <2>14. n \in Int /\ n + SumFunction(f) = SumFunction(u)
    BY <2>1, <2>13
  <2> HIDE DEF n
  <2>15. n + SumFunction(g) = SumFunction(v)
    BY <2>8, <2>12, <2>14
  <2> QED BY <2>1, <2>6, <2>10, <2>15 DEF n
<1> QED BY <1>5, <1>6, <1>7 DEF Misses

(* The accounts when the answer comes: the key is still a new one.         *)
LEMMA TakeAnswerMisses ==
    ASSUME IInv, Misses, NEW d \in Components, TakeAnswer(d)  PROVE Misses'
<1> DEFINE full == IF HasRoom(d) THEN 0 ELSE 1
           st == Add(stat, d, "key_full", full)
<1>1. /\ pc[d] = "wait" /\ pc' = [pc EXCEPT ![d] = "loop"]
      /\ Remember(d, Key(d, InHand(d)), Head(reply[d]))
      /\ Transmit(d, Head(reply[d]), st)
      /\ UNCHANGED <<variant, request, control>>
  BY DEF TakeAnswer
<1>2. pc \in [Components -> {"loop", "wait", "done"}] /\ stat \in [Components -> Stat]
  BY DEF IInv, Types
<1>3. full \in Int
  OBVIOUS
<1> HIDE DEF full
<1>4. /\ st \in [Components -> Stat] /\ st[d].key_full = stat[d].key_full + full
      /\ st[d].unfound = stat[d].unfound
      /\ \A e \in Components \ {d} : st[e] = stat[e]
  BY <1>2, <1>3, AddMiss
<1> HIDE DEF st
<1>5. /\ \A e \in Components : /\ stat'[e].unfound = st[e].unfound
                               /\ stat'[e].key_full = st[e].key_full
      /\ \A e \in Components \ {d} : burst'[e] = burst[e]
  BY <1>1, <1>4, TransmitMisses
<1>6. MissCount(d) /\ IsFiniteSet(Keys(d)) /\ Key(d, InHand(d)) \notin Keys(d)
  BY <1>1 DEF Misses, MissCount, Found, Keys, IInv, Waiting
<1>7. /\ IsFiniteSet(Keys(d)') /\ Cardinality(Keys(d)) \in Nat
      /\ Cardinality(Keys(d)') = Cardinality(Keys(d)) + IF HasRoom(d) THEN 1 ELSE 0
      /\ \A e \in Components \ {d} : ht_table_fm'[e] = ht_table_fm[e]
  BY <1>1, <1>6, RememberedKeys
<1>8. MissCount(d)'
  <2>1. pc'[d] = "loop" /\ Due(d) = 1 /\ Due(d)' = 0
    BY <1>1, <1>2 DEF Due
  <2>2. stat[d].unfound \in Int /\ stat[d].key_full \in Int
    BY <1>2, MissFields
  <2> DEFINE u == stat[d].unfound    c == Cardinality(Keys(d))   k == stat[d].key_full
             v == stat'[d].unfound   e == Cardinality(Keys(d)')  l == stat'[d].key_full
             r == HasRoom(d)
  <2>3. /\ u \in Int /\ c \in Nat /\ k \in Int /\ r \in BOOLEAN /\ u = c + k + 1
        /\ e = c + IF r THEN 1 ELSE 0
    BY <1>6, <1>7, <2>1, <2>2 DEF MissCount, HasRoom
  <2>4. l = k + (IF r THEN 0 ELSE 1) /\ v = u
    BY <1>4, <1>5 DEF full
  <2> HIDE DEF u, c, k, v, e, l, r
  <2>5. v = u + 0
    BY <2>3, <2>4
  <2>6. 1 \in Nat /\ 0 \in Int /\ 1 + 0 = 1
    OBVIOUS
  <2>7. v = e + l + 0
    BY <2>3, <2>4, <2>5, <2>6, OneMissed
  <2>8. stat'[d].unfound = Cardinality(Keys(d)') + stat'[d].key_full + Due(d)'
    BY <2>1, <2>7 DEF v, e, l
  <2> QED BY <1>7, <2>1, <2>8 DEF MissCount, Keys
<1>9. ASSUME NEW e \in Components \ {d} PROVE MissCount(e)'
  <2>1. /\ MissCount(e) /\ e \in Components /\ UNCHANGED variant
        /\ pc'[e] = pc[e] /\ burst'[e] = burst[e] /\ ht_table_fm'[e] = ht_table_fm[e]
        /\ stat'[e].unfound = stat[e].unfound /\ stat'[e].key_full = stat[e].key_full
    BY <1>1, <1>2, <1>4, <1>5, <1>7 DEF Misses
  <2> QED BY <2>1, Elsewhere
<1>10. Invoked'
  <2>1. \A e \in Components : stat'[e].unfound = stat[e].unfound
    BY <1>4, <1>5
  <2> QED BY <1>1, <2>1, SameTotals DEF Misses
<1> QED BY <1>8, <1>9, <1>10 DEF Misses

(* The accounts when a component leaves: a miss it waited for stays due.   *)
LEMMA LeaveMisses ==
    ASSUME IInv, Misses, NEW d \in Components,
           pc[d] = "wait" \/ (pc[d] = "loop" /\ burst[d] = <<>>), pc' = [pc EXCEPT ![d] = "done"],
           UNCHANGED <<variant, burst, ports, ht_table_fm, stat, ringVars>>
    PROVE  Misses'
<1>1. pc'[d] = "done" /\ \A e \in Components \ {d} : pc'[e] = pc[e]
  BY DEF IInv, Types
<1>2. UNCHANGED <<request, control>>
  BY DEF ringVars
<1>3. MissCount(d)'
  <2>1. Due(d)' = Due(d)
    BY <1>1 DEF Due, IInv, Buffers
  <2> QED BY <1>1, <2>1 DEF Misses, MissCount, Keys
<1>4. ASSUME NEW e \in Components \ {d} PROVE MissCount(e)'
  <2>1. MissCount(e) /\ pc'[e] = pc[e]
    BY <1>1 DEF Misses
  <2> QED BY <2>1, Elsewhere
<1>5. Invoked'
  BY <1>2, SameTotals DEF Misses
<1> QED BY <1>3, <1>4, <1>5 DEF Misses

(* The accounts when only the control core moves.                          *)
LEMMA ControlMisses ==
    ASSUME Misses, UNCHANGED <<variant, dataVars>>, Invoked'  PROVE Misses'
<1>1. UNCHANGED <<pc, burst, ports, ht_table_fm, stat>>
  BY DEF dataVars
<1> QED BY <1>1, Elsewhere DEF Misses

(* The accounts when the control core looks at a ring: a request it takes  *)
(* is an invocation.                                                       *)
LEMMA PollMisses ==
    ASSUME IInv, Misses, NEW server, NEW j, Poll(server, j)  PROVE Misses'
<1> DEFINE i == control.i
<1>1. UNCHANGED <<variant, dataVars>> /\ UNCHANGED stat
  BY DEF Poll, dataVars
<1>2. control \in Control /\ i \in Components /\ request \in [Components -> Seq(Flows)]
      /\ stat \in [Components -> Stat]
  BY DEF IInv, Types, Control
<1>3. Unfounds' = Unfounds
  BY <1>1 DEF Unfounds, Components
<1>4. CASE request[i] = <<>>
  <2>1. control' = [control EXCEPT !.i = Turn] /\ request' = request
    BY <1>4 DEF Poll
  <2>2. control'.n = control.n /\ control'.pc = control.pc
    BY <1>2, <2>1 DEF Control
  <2>3. Requests' = Requests
    BY <2>1 DEF Requests, Components
  <2>4. Invoked'
    BY <1>1, <1>3, <2>2, <2>3 DEF Misses, Invoked, Polling
  <2> QED BY <1>1, <2>4, ControlMisses
<1>5. CASE request[i] # <<>>
  <2>1. /\ control' = [control EXCEPT !.i = Turn, !.n = control.n + 1, !.j = j]
        /\ request' = [request EXCEPT ![i] = Tail(request[i])]
    BY <1>5 DEF Poll
  <2>2. control'.n = control.n + 1 /\ control'.pc = control.pc /\ control.n \in Int
    BY <1>2, <2>1 DEF Control
  <2>3. Tail(request[i]) \in Seq(Flows) /\ Len(Tail(request[i])) = Len(request[i]) - 1
        /\ Len(request[i]) \in Nat
    BY <1>2, <1>5, HeadTail
  <2> HIDE DEF i
  <2>4. /\ request' \in [Components -> Seq(Flows)] /\ request'[i] = Tail(request[i])
        /\ \A e \in Components \ {i} : request'[e] = request[e]
    BY <1>2, <2>1, <2>3
  <2>5. Invoked'
    <3> SUFFICES ASSUME Polling'
                 PROVE  control'.n + SumFunction(Requests') = SumFunction(Unfounds')
      BY DEF Invoked
    <3>1. control.n + SumFunction(Requests) = SumFunction(Unfounds)
      BY <1>1, <2>2 DEF Polling, Misses, Invoked
    <3>2. /\ Requests \in [Components -> Int] /\ Requests' \in [Components -> Int]
      <4>1. Requests \in [Components -> Int]
        BY <1>2 DEF Requests
      <4>2. Requests' \in [Components -> Int]
        BY <2>4 DEF Requests, Components
      <4> QED BY <4>1, <4>2
    <3>3. Requests[i] = Requests'[i] + 1 /\ \A e \in Components \ {i} : Requests'[e] = Requests[e]
      <4>1. \A e \in Components : Requests[e] = Len(request[e]) /\ Requests'[e] = Len(request'[e])
        BY DEF Requests, Components
      <4>2. Requests[i] = Len(request[i]) /\ Requests'[i] = Len(request[i]) - 1
        BY <1>2, <2>3, <2>4, <4>1
      <4> QED BY <2>3, <2>4, <4>1, <4>2
    <3>4. PICK f : f = Requests
      OBVIOUS
    <3>5. PICK g : g = Requests'
      OBVIOUS
    <3>6. PICK x : x = i
      OBVIOUS
    <3>7. SumFunction(g) \in Int /\ SumFunction(f) = SumFunction(g) + 1
      <4>1. /\ f \in [Components -> Int] /\ g \in [Components -> Int] /\ x \in Components
            /\ f[x] = g[x] + 1 /\ \A e \in Components \ {x} : g[e] = f[e]
        BY <1>2, <3>2, <3>3, <3>4, <3>5, <3>6
      <4> QED BY <4>1, OneMore
    <3> DEFINE n == control.n   u == SumFunction(Unfounds)
    <3>8. n \in Int /\ n + SumFunction(f) = u
      BY <2>2, <3>1, <3>4
    <3> HIDE DEF n, u
    <3>9. (n + 1) + SumFunction(g) = u
      BY <3>7, <3>8
    <3> QED BY <1>3, <2>2, <3>5, <3>9 DEF n, u
  <2> QED BY <1>1, <2>5, ControlMisses
<1> QED BY <1>4, <1>5

(* Before the first packet all accounts are zero.                          *)
LEMMA InitMisses == Init => Misses
<1> SUFFICES ASSUME Init PROVE Misses
  OBVIOUS
<1>1. /\ stat = [d \in Components |-> ZeroStat] /\ ht_table_fm = [d \in Components |-> <<>>]
      /\ pc = [d \in Components |-> "loop"] /\ request = [d \in Components |-> <<>>]
      /\ control.n = 0
  BY DEF Init, DecomposedInit, SsInit, MonoInit, Fresh, ControlInit
<1>2. ASSUME NEW d \in Components PROVE MissCount(d)
  <2>1. stat[d].unfound = 0 /\ stat[d].key_full = 0 /\ Due(d) = 0 /\ pc[d] # "wait"
    BY <1>1 DEF ZeroStat, Due
  <2>2. Keys(d) = {}
    <3>1. ht_table_fm[d] = <<>> /\ DOMAIN <<>> = {}
      BY <1>1
    <3> QED BY <3>1 DEF Keys
  <2>3. IsFiniteSet({}) /\ Cardinality({}) = 0
    BY FS_EmptySet
  <2> QED BY <2>1, <2>2, <2>3 DEF MissCount
<1>3. Invoked
  <2>1. IsFiniteSet(Components)
    BY GroupAssumption, FS_Interval DEF Components
  <2>2. PICK f : f = Requests
    OBVIOUS
  <2>3. PICK u : u = Unfounds
    OBVIOUS
  <2>4. /\ f \in [Components -> Int] /\ \A d \in Components : f[d] = 0
        /\ u \in [Components -> Int] /\ \A d \in Components : u[d] = 0
    BY <1>1, <2>2, <2>3 DEF Requests, Unfounds, ZeroStat
  <2>5. SumFunction(f) = 0 /\ SumFunction(u) = 0
    BY <2>1, <2>4, SumZero
  <2> QED BY <1>1, <2>2, <2>3, <2>5 DEF Invoked
<1> QED BY <1>2, <1>3 DEF Misses

(* Every step keeps the accounts.                                          *)
LEMMA StepMisses == IInv /\ Misses /\ [Next]_vars => Misses'
<1> SUFFICES ASSUME IInv, Misses, [Next]_vars PROVE Misses'
  OBVIOUS
<1>1. ASSUME NEW d \in Components, DataStep(d)  PROVE Misses'
  <2>1. CASE Loop(d) \/ Pass(d) \/ Hit(d)  BY <2>1, NoMiss
  <2>2. CASE MonoMiss(d)  BY <2>2, MonoMissMisses
  <2>3. CASE Ask(d)  BY <2>3, AskMisses
  <2>4. CASE TakeAnswer(d)  BY <2>4, TakeAnswerMisses
  <2>5. CASE DecomposedLeave(d)  BY <2>5, LeaveMisses DEF DecomposedLeave
  <2>6. CASE SsGiveUp(d)  BY <2>6, LeaveMisses DEF SsGiveUp
  <2>7. CASE LeaveLoop(d)  BY <2>7, LeaveMisses DEF LeaveLoop
  <2> QED BY <1>1, <2>1, <2>2, <2>3, <2>4, <2>5, <2>6, <2>7 DEF DataStep, Handle, Leave
<1>2. CASE DecomposedControl \/ SsControl
  BY <1>2, PollMisses DEF DecomposedControl, SsControl
<1>3. CASE DecomposedControlLeave \/ ResetRings \/ SsControlLeave
  <2>1. /\ control'.pc # "poll" /\ UNCHANGED <<variant, dataVars>>
    <3>1. control \in Control
      BY DEF IInv, Types
    <3> QED BY <1>3, <3>1 DEF DecomposedControlLeave, ResetRings, SsControlLeave, Control
  <2>2. Invoked'
    BY <2>1 DEF Invoked, Polling
  <2> QED BY <2>1, <2>2, ControlMisses
<1>4. CASE Quit \/ UNCHANGED vars
  <2>1. UNCHANGED <<variant, dataVars>> /\ UNCHANGED <<stat, control, request>>
    BY <1>4 DEF Quit, vars, dataVars, ringVars
  <2>2. Invoked'
    BY <2>1, SameTotals DEF Misses
  <2> QED BY <2>1, <2>2, ControlMisses
<1> QED BY <1>1, <1>2, <1>3, <1>4 DEF Next, ControlStep

(* Every miss is an entry of the flow table, a count of key_full or a      *)
(* request still due, in each component, and the invocations the control   *)
(* core of decomposed_lb.c or ss_lb.c counts, with the requests still in   *)
(* the rings, are the misses of all components together.                   *)
THEOREM MissesCorrect == Spec => []MissesAccounted
<1>1. IInv /\ Misses => MissesAccounted
  BY DEF Misses, MissCount, Keys, Due, Invoked, Polling, Requests, Unfounds,
         MissesAccounted, Total
<1>2. Spec => [](IInv /\ Misses)
  BY InitInvariant, InitMisses, StepInvariant, StepMisses, PTL DEF Spec
<1> QED BY <1>1, <1>2, PTL
===============================================================================
