----------------------------- MODULE LoadBalancers -----------------------------
(***************************************************************************)
(* The three load balancers kept from before the generic workers:          *)
(* "decomposed" (src/runtime/nf/decomposed_lb.c) and "ss"                  *)
(* (src/runtime/nf/ss_lb.c) ask a control core for the server of a new     *)
(* flow over a pair of rings, "mono" (src/runtime/nf/mono_lb.c) chooses it *)
(* itself.  A data core i serves the queue set_pop gave it; RSS sends all  *)
(* packets of a flow to one queue.                                         *)
(***************************************************************************)
EXTENDS CoreSets, Functions

CONSTANTS Flows, Proto(_),          \* "tcp", "udp", "icmp" or, not IPv4, "arp"
          RssQueue(_),              \* the receive queue of a flow
          DataCores, QueueIds,      \* set_data_core and queue_set of the group
          MaxBurst,                 \* max_pkt_burst
          Entries,                  \* capacity of the flow table: 150000
          MaxPackets(_)             \* bound on the packets a component receives

VARIABLES
    variant,        \* which of the programs runs
    dp_quit,
    pc,             \* per data component: "loop", "wait" or "done"
    burst,          \* its packets received and not yet handled, in hand first
    txb,            \* packets in its transmit buffer
    ports,          \* the ports left in its ipv45Tuple
    ht_table_fm,    \* its flow table: key -> server
    stat,           \* rxn, txn, found, unfound, key_full
    request, reply, \* the two rings it shares with the control core
    control,        \* pc, i, j and the invocations of the control core
    refused,        \* history: packets the NIC did not take, freed uncounted
    last            \* flow -> destination of its last packet put into txb

dataVars == <<pc, burst, txb, ports, ht_table_fm, stat, refused, last>>
ringVars == <<request, reply, control>>
vars == <<variant, dp_quit, dataVars, ringVars>>

Servers == 0 .. 9               \* positions in server_ip_map_array
Original == -1           \* the destination the packet came with
None == -2

(* decomposed_LB_group_init: one data component for each member of the set *)
(* of data cores, in the iterator's order, with the queue it pops.         *)
Components == 1 .. DataCores.num
queue_id == [i \in Components |-> InOrder(QueueIds)[i]]

(* A group has a data core and a queue for each; the set of queues gives   *)
(* no queue twice; and a burst holds a packet.                             *)
ASSUME GroupAssumption == DataCores.num \in Nat \ {0} /\ DataCores.num <= QueueIds.num
ASSUME QueueAssumption == \A d, e \in Components : queue_id[d] = queue_id[e] => d = e
ASSUME BurstAssumption == /\ MaxBurst \in Nat \ {0}
                          /\ \A d \in Components : MaxPackets(d) \in Nat

ZeroStat == [rxn |-> 0, txn |-> 0, found |-> 0, unfound |-> 0, key_full |-> 0]

Fresh == /\ stat = [d \in Components |-> ZeroStat]
         /\ ht_table_fm = [d \in Components |-> <<>>]

DecomposedInit == variant = "decomposed" /\ Fresh       \* rte_hash_reset
SsInit == variant = "ss" /\ Fresh
MonoInit == variant = "mono" /\ Fresh

ControlInit == [pc |-> "poll", i |-> 1, j |-> 0, n |-> 0]

Init ==
    /\ DecomposedInit \/ SsInit \/ MonoInit
    /\ dp_quit = FALSE
    /\ pc = [d \in Components |-> "loop"]
    /\ burst = [d \in Components |-> <<>>]
    /\ txb = [d \in Components |-> 0]
    /\ ports = [d \in Components |-> "none"]      \* ipv45Tuple is not initialised
    /\ request = [d \in Components |-> <<>>]
    /\ reply = [d \in Components |-> <<>>]
    /\ refused = [d \in Components |-> 0]
    /\ control = ControlInit
    /\ last = [f \in Flows |-> None]

-------------------------------------------------------------------------------
(* Data components.                                                        *)
Add(st, d, field, n) == [st EXCEPT ![d][field] = @ + n]

(* What rte_eth_rx_burst may return to d.                                  *)
Arrivals(d) ==
    LET mine == {f \in Flows : RssQueue(f) = queue_id[d]}
        room == MaxPackets(d) - stat[d].rxn
    IN  UNION {[1..n -> mine] : n \in 0 .. Min({MaxBurst, room})}

(* A flush of n packets: the NIC takes any number of them, the callback    *)
(* frees the others.                                                       *)
Sending(n) == {[sent |-> k, freed |-> n - k] : k \in 0 .. n}

(* Mutant: what the drain timer sends is not counted.                      *)
Loop_FlushNotCounted(d) ==
    /\ pc[d] = "loop" /\ burst[d] = <<>> /\ ~dp_quit
    /\ \E flush \in BOOLEAN, pkts \in Arrivals(d) :
          \E tx \in Sending(IF flush THEN txb[d] ELSE 0) :
             /\ burst' = [burst EXCEPT ![d] = pkts]
             /\ txb' = IF flush THEN [txb EXCEPT ![d] = 0] ELSE txb
             /\ stat' = Add(stat, d, "rxn", Len(pkts))
             /\ refused' = [refused EXCEPT ![d] = @ + tx.freed]
    /\ UNCHANGED <<variant, dp_quit, pc, ports, ht_table_fm, last, ringVars>>

(* One turn of the loop: the test of dp_quit, the drain timer and the      *)
(* receive burst.                                                          *)
Loop(d) ==
    /\ pc[d] = "loop" /\ burst[d] = <<>> /\ ~dp_quit
    /\ \E flush \in BOOLEAN, pkts \in Arrivals(d) :
          \E tx \in Sending(IF flush THEN txb[d] ELSE 0) :
             /\ burst' = [burst EXCEPT ![d] = pkts]
             /\ txb' = IF flush THEN [txb EXCEPT ![d] = 0] ELSE txb
             /\ stat' = Add(Add(stat, d, "rxn", Len(pkts)), d, "txn", tx.sent)
             /\ refused' = [refused EXCEPT ![d] = @ + tx.freed]
    /\ UNCHANGED <<variant, dp_quit, pc, ports, ht_table_fm, last, ringVars>>

(* Packets that are not IPv4, or for "mono" not TCP, pass as they are.     *)
Looked(f) == IF variant = "mono" THEN Proto(f) = "tcp" ELSE Proto(f) # "arp"

(* The key: only TCP and UDP fill in the ports, any other protocol is      *)
(* looked up with those of the packet before it.                           *)
HasPorts(f) == Proto(f) \in {"tcp", "udp"}
Key(d, f) == <<f, IF HasPorts(f) THEN f ELSE ports[d]>>
Ports(d, f) == IF Looked(f) /\ HasPorts(f) THEN [ports EXCEPT ![d] = f] ELSE ports

InHand(d) == Head(burst[d])

Found(d) == Key(d, InHand(d)) \in DOMAIN ht_table_fm[d]

HasRoom(d) == Cardinality(DOMAIN ht_table_fm[d]) < Entries

(* Mutant: the entry is made with server 0, as "mono" makes it.            *)
Remember_First(d, k, server) ==
    ht_table_fm' = IF HasRoom(d)
                   THEN [ht_table_fm EXCEPT ![d] =
                            [x \in DOMAIN @ \union {k} |-> IF x \in DOMAIN @ THEN @[x] ELSE 0]]
                   ELSE ht_table_fm

(* rte_hash_add_key_data, and the packet with it.                          *)
Remember(d, k, server) ==
    ht_table_fm' = IF HasRoom(d)
                   THEN [ht_table_fm EXCEPT ![d] =
                            [x \in DOMAIN @ \union {k} |-> IF x \in DOMAIN @ THEN @[x] ELSE server]]
                   ELSE ht_table_fm

(* rte_eth_tx_buffer: a full buffer is flushed, and txn counts what the    *)
(* NIC took of it.                                                         *)
Transmit(d, dst, st) ==
    LET full == txb[d] + 1 = MaxBurst
    IN  \E tx \in Sending(IF full THEN MaxBurst ELSE 0) :
          /\ txb' = [txb EXCEPT ![d] = IF full THEN 0 ELSE @ + 1]
          /\ stat' = Add(st, d, "txn", tx.sent)
          /\ refused' = [refused EXCEPT ![d] = @ + tx.freed]
          /\ burst' = [burst EXCEPT ![d] = Tail(@)]
          /\ last' = [last EXCEPT ![InHand(d)] = dst]

Ready(d, v) == variant \in v /\ pc[d] = "loop" /\ burst[d] # <<>>

Pass(d) ==
    /\ Ready(d, {"decomposed", "ss", "mono"}) /\ ~Looked(InHand(d))
    /\ Transmit(d, Original, stat)
    /\ UNCHANGED <<variant, dp_quit, pc, ports, ht_table_fm, ringVars>>

Hit(d) ==
    /\ Ready(d, {"decomposed", "ss", "mono"}) /\ Looked(InHand(d)) /\ Found(d)
    /\ Transmit(d, ht_table_fm[d][Key(d, InHand(d))], Add(stat, d, "found", 1))
    /\ ports' = Ports(d, InHand(d))
    /\ UNCHANGED <<variant, dp_quit, pc, ht_table_fm, ringVars>>

(* "mono" notes server 0 for a new flow and sends its packet unchanged.    *)
MonoMiss(d) ==
    /\ Ready(d, {"mono"}) /\ Looked(InHand(d)) /\ ~Found(d)
    /\ Remember(d, Key(d, InHand(d)), 0)
    /\ Transmit(d, Original,
                Add(Add(stat, d, "unfound", 1), d, "key_full", IF HasRoom(d) THEN 0 ELSE 1))
    /\ ports' = Ports(d, InHand(d))
    /\ UNCHANGED <<variant, dp_quit, pc, ringVars>>

Ask(d) ==
    /\ Ready(d, {"decomposed", "ss"}) /\ Looked(InHand(d)) /\ ~Found(d)
    /\ pc' = [pc EXCEPT ![d] = "wait"]
    /\ ports' = Ports(d, InHand(d))
    /\ stat' = Add(stat, d, "unfound", 1)
    /\ request' = [request EXCEPT ![d] = Append(@, InHand(d))]
    /\ UNCHANGED <<variant, dp_quit, burst, txb, ht_table_fm, refused, last, reply, control>>

(* Mutant: a key the table had no room for is not counted.                 *)
TakeAnswer_FullNotCounted(d) ==
    /\ pc[d] = "wait" /\ reply[d] # <<>>
    /\ reply' = [reply EXCEPT ![d] = Tail(@)]
    /\ Remember(d, Key(d, InHand(d)), Head(reply[d]))
    /\ Transmit(d, Head(reply[d]), stat)
    /\ pc' = [pc EXCEPT ![d] = "loop"]
    /\ UNCHANGED <<variant, dp_quit, ports, request, control>>

TakeAnswer(d) ==
    /\ pc[d] = "wait" /\ reply[d] # <<>>
    /\ reply' = [reply EXCEPT ![d] = Tail(@)]
    /\ Remember(d, Key(d, InHand(d)), Head(reply[d]))
    /\ Transmit(d, Head(reply[d]), Add(stat, d, "key_full", IF HasRoom(d) THEN 0 ELSE 1))
    /\ pc' = [pc EXCEPT ![d] = "loop"]
    /\ UNCHANGED <<variant, dp_quit, ports, request, control>>

(* Mutant: the spin does not test dp_quit.                                 *)
DecomposedLeave_SpinsOn(d) ==
    /\ variant = "decomposed" /\ dp_quit
    /\ pc[d] = "loop" /\ burst[d] = <<>>
    /\ pc' = [pc EXCEPT ![d] = "done"]
    /\ txb' = [txb EXCEPT ![d] = 0]
    /\ UNCHANGED <<variant, dp_quit, burst, ports, ht_table_fm, stat, refused, last, ringVars>>

(* The spin on an empty ring tests dp_quit.  "decomposed" jumps to the     *)
(* flush at its end, "ss" returns; neither sends the packets of the burst. *)
DecomposedLeave(d) ==
    /\ variant = "decomposed" /\ dp_quit
    /\ \/ pc[d] = "loop" /\ burst[d] = <<>>
       \/ pc[d] = "wait" /\ reply[d] = <<>>
    /\ pc' = [pc EXCEPT ![d] = "done"]
    /\ txb' = [txb EXCEPT ![d] = 0]
    /\ UNCHANGED <<variant, dp_quit, burst, ports, ht_table_fm, stat, refused, last, ringVars>>

SsGiveUp(d) ==
    /\ variant = "ss" /\ dp_quit /\ pc[d] = "wait" /\ reply[d] = <<>>
    /\ pc' = [pc EXCEPT ![d] = "done"]
    /\ UNCHANGED <<variant, dp_quit, burst, txb, ports, ht_table_fm, stat, refused, last, ringVars>>

LeaveLoop(d) ==
    /\ variant \in {"ss", "mono"} /\ dp_quit /\ pc[d] = "loop" /\ burst[d] = <<>>
    /\ pc' = [pc EXCEPT ![d] = "done"]
    /\ UNCHANGED <<variant, dp_quit, burst, txb, ports, ht_table_fm, stat, refused, last, ringVars>>

-------------------------------------------------------------------------------
(* The control core.                                                       *)

(* "j = (j++) % 10" is undefined: j++ and the assignment both store to j,  *)
(* and either may come last.                                               *)
NextServer(j) == {j % 10, (j + 1) % 10}

(* Mutant: the index is not set back.                                      *)
Turn_NoWrap == control.i + 1

(* Mutant: the last component is never polled.                             *)
Turn_SkipsLast == IF control.i >= DataCores.num - 1 THEN 1 ELSE control.i + 1

Turn == IF control.i = DataCores.num THEN 1 ELSE control.i + 1

(* Mutant: the request stays in its ring.                                  *)
Poll_KeepsRequest(server, nextJ) ==
    LET i == control.i IN
    /\ control.pc = "poll" /\ (i # 1 \/ ~dp_quit)
    /\ IF request[i] = <<>>
       THEN /\ control' = [control EXCEPT !.i = Turn]
            /\ UNCHANGED <<request, reply>>
       ELSE /\ control' = [control EXCEPT !.i = Turn, !.n = @ + 1, !.j = nextJ]
            /\ UNCHANGED request
            /\ reply' = [reply EXCEPT ![i] = Append(@, server)]
    /\ UNCHANGED <<variant, dp_quit, dataVars>>

(* One turn of "for (i = 0; ...)": dequeue from component i's ring, answer *)
(* on its other ring.  dp_quit is tested when i starts again.              *)
Poll(server, nextJ) ==
    LET i == control.i IN
    /\ control.pc = "poll" /\ (i # 1 \/ ~dp_quit)
    /\ IF request[i] = <<>>
       THEN /\ control' = [control EXCEPT !.i = Turn]
            /\ UNCHANGED <<request, reply>>
       ELSE /\ control' = [control EXCEPT !.i = Turn, !.n = @ + 1, !.j = nextJ]
            /\ request' = [request EXCEPT ![i] = Tail(@)]
            /\ reply' = [reply EXCEPT ![i] = Append(@, server)]
    /\ UNCHANGED <<variant, dp_quit, dataVars>>

DecomposedControl ==
    variant = "decomposed" /\ \E next \in NextServer(control.j) : Poll(control.j, next)
SsControl == variant = "ss" /\ Poll(0, control.j)

(* At the end the decomposed control core resets the 24 pairs of rings,    *)
(* one pair after the other.                                               *)
DecomposedControlLeave ==
    /\ variant = "decomposed" /\ control.pc = "poll" /\ control.i = 1 /\ dp_quit
    /\ control' = [control EXCEPT !.pc = "reset"]
    /\ UNCHANGED <<variant, dp_quit, dataVars, request, reply>>

ResetRings ==
    LET i == control.i IN
    /\ control.pc = "reset"
    /\ control' = [control EXCEPT !.i = Turn,
                                  !.pc = IF i = DataCores.num THEN "done" ELSE "reset"]
    /\ request' = [request EXCEPT ![i] = <<>>]
    /\ reply' = [reply EXCEPT ![i] = <<>>]
    /\ UNCHANGED <<variant, dp_quit, dataVars>>

SsControlLeave ==
    /\ variant = "ss" /\ control.pc = "poll" /\ control.i = 1 /\ dp_quit
    /\ control' = [control EXCEPT !.pc = "done"]
    /\ UNCHANGED <<variant, dp_quit, dataVars, request, reply>>

(* The signal handler of main.c.                                           *)
Quit ==
    /\ ~dp_quit /\ dp_quit' = TRUE
    /\ UNCHANGED <<variant, dataVars, ringVars>>

Handle(d) == Pass(d) \/ Hit(d) \/ MonoMiss(d) \/ Ask(d) \/ TakeAnswer(d)
Leave(d) == DecomposedLeave(d) \/ SsGiveUp(d) \/ LeaveLoop(d)
DataStep(d) == Loop(d) \/ Handle(d) \/ Leave(d)

ControlStep ==
    \/ DecomposedControl \/ SsControl
    \/ DecomposedControlLeave \/ ResetRings \/ SsControlLeave

Next == (\E d \in Components : DataStep(d)) \/ ControlStep \/ Quit

(* Each function owns a core and polls.  What it has in hand it handles,   *)
(* and a core that must leave does; packets need not arrive.               *)
Fairness ==
    /\ WF_vars(ControlStep)
    /\ \A d \in Components : WF_vars(Handle(d) \/ Leave(d))

Spec == Init /\ [][Next]_vars /\ Fairness
-------------------------------------------------------------------------------
Total(Op(_)) == SumFunction([d \in Components |-> Op(d)])

TypeOK ==
    /\ variant \in {"decomposed", "ss", "mono"}
    /\ dp_quit \in BOOLEAN
    /\ \A d \in Components :
          /\ pc[d] \in {"loop", "wait", "done"}
          /\ Len(burst[d]) <= MaxBurst /\ Range(burst[d]) \subseteq Flows
          /\ txb[d] \in 0 .. MaxBurst - 1
          /\ Range(ht_table_fm[d]) \subseteq Servers
    /\ control.i \in Components /\ control.j \in Servers
    /\ control.pc \in {"poll", "reset", "done"}
    /\ \A d \in Components : refused[d] \in Nat
    /\ Range(last) \subseteq Servers \union {Original, None}

(* A component that waits has one request or answer under way, unless the  *)
(* quitting control core cleared the rings, and a component that forwards  *)
(* has none: an answer is never taken for a later packet's.  A request may *)
(* be left behind only by a component that gave up.                        *)
OneOutstanding ==
    \A d \in Components :
        LET n == Len(request[d]) + Len(reply[d])
        IN  CASE pc[d] = "loop" -> n = 0
              [] pc[d] = "wait" -> n = 1 \/ (n = 0 /\ control.pc # "poll")
              [] OTHER -> n <= 1

(* Every miss has become an entry, a full-table count or a request that    *)
(* still waits or was given up; and until it quits the control core has    *)
(* been invoked once for each request it has taken from a ring.            *)
MissesAccounted ==
    /\ \A d \in Components :
          stat[d].unfound = Cardinality(DOMAIN ht_table_fm[d]) + stat[d].key_full
              + IF pc[d] = "wait" \/ (pc[d] = "done" /\ burst[d] # <<>>) THEN 1 ELSE 0
    /\ variant # "mono" /\ control.pc = "poll" =>
          control.n + Total(LAMBDA d : Len(request[d])) = Total(LAMBDA d : stat[d].unfound)

(* Until a component leaves, every packet it received is in its burst or   *)
(* its transmit buffer, was counted as transmitted when a full buffer or   *)
(* the timer sent it, or was refused by the NIC: none is counted twice.    *)
PacketsAccounted ==
    \A d \in Components :
        pc[d] # "done" => stat[d].rxn = Len(burst[d]) + txb[d] + stat[d].txn + refused[d]

(* What the comment beside j promises: the servers are given out in turn,  *)
(* one to each new flow.                                                   *)
RoundRobin == variant = "decomposed" => control.j = control.n % 10

(* A flow whose packet went to a server sends its later packets there.     *)
(* Only "decomposed" may change the server, and only of a flow the table   *)
(* does not hold: one that found the table full, or one without ports of   *)
(* its own; and never back to the destination the packet came with.        *)
Held(f) == /\ HasPorts(f)
           /\ \E d \in Components : RssQueue(f) = queue_id[d] /\ <<f, f>> \in DOMAIN ht_table_fm[d]

StaysOnServer ==
    [][\A f \in Flows :
         last[f] \in Servers /\ last'[f] # last[f] =>
             variant = "decomposed" /\ ~Held(f) /\ last'[f] \in Servers]_vars

(* After the signal every component and the control core leave their loops.*)
QuitStops ==
    dp_quit ~> /\ \A d \in Components : pc[d] = "done"
               /\ variant # "mono" => control.pc = "done"

(* A component that waits is answered unless the program quits.            *)
MissAnswered ==
    \A d \in Components : pc[d] = "wait" ~> (pc[d] = "loop" \/ dp_quit)
===============================================================================
