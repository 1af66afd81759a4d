-------------------------------- MODULE Worker --------------------------------
(***************************************************************************)
(* The data plane of NFlambda: the polling loop every worker core runs     *)
(* (src/runtime/worker.h, worker_action and event_handler) over the tables *)
(* the command line installs (src/runtime/cli.c).                          *)
(*                                                                         *)
(* A worker takes packets from its NIC queue and messages from its         *)
(* mailbox.  A message names an action; an action lives on one core and    *)
(* owns no state but that of its action-table entry.  When the action is   *)
(* on this core it runs at once, otherwise the message goes to the other   *)
(* core's mailbox.  A packet taken from the NIC is handled in a message on *)
(* the worker's stack, which is copied into an item of the worker's own    *)
(* message buffer when it has to leave the core.                           *)
(*                                                                         *)
(* Grain: one action per access to memory that another thread can see: a   *)
(* mailbox, an action-table entry, a function's state, a transmit buffer,  *)
(* dp_quit.  A function's read of its state and its write are separate     *)
(* steps, so two workers inside the same state lose updates as they would  *)
(* on the machine.                                                         *)
(***************************************************************************)
EXTENDS GenericDecomposed, Sequences, FiniteSets

CONSTANTS
    Cores,          \* the lcores that have a struct worker
    Running,        \* those that "worker run" launched
    Packets,        \* the packets that may arrive
    Buckets,        \* the values of rss_hash & mask
    FirstAction,    \* the cores "worker first_action" named
    RssHash,        \* RssHash[p]: the bucket of packet p
    reta,           \* reta[b]: the core whose NIC queue receives bucket b
    buckets,        \* buckets[c][b]: the action core c starts bucket b with
    Actions,        \* the action_ids
    Kind,           \* Kind[a]: which function the entry of a points to
    StateOf,        \* StateOf[a]: the state of the entry of a
    States,         \* the states of the network functions
    simple_path,    \* simple_path[s][i]: the action_id at entry i
    control_frequency, \* of each state
    Placements,     \* the core_id columns the action table may start with
    Migrations,     \* <<a, c>>: "action migrate a c" may be issued
    PoolSize,       \* items in each worker's message buffer
    RingSize,       \* ring_size of a mailbox
    BurstSize,      \* the most packets one rx_burst returns
    TxSize,         \* size of a transmit buffer
    NoMessage       \* no message

(* Functions an entry can point to.  "packet_in" is the NULL function of   *)
(* an entry no command filled in.                                          *)
Kinds == {"packet_in", "gd_classifier", "gd_data", "gd_control", "packet_out"}

(* producer_id of a message on a worker's stack.                           *)
LocalProducer == -1

(* Where messages live: item 0 of a worker is p_cm_local, on its stack;    *)
(* the others are the items of its message buffer.                         *)
Local(w) == <<w, 0>>
Items == Cores \X (1..PoolSize)
MessageIds == Cores \X (0..PoolSize)

Message == [m : Packets,
            producer_id : Cores \cup {LocalProducer},
            action_id : Actions]

(* last_action: "create_packet_out" sets it on the core it names, whose    *)
(* struct worker becomes the entry's state.                                *)
LastAction == {StateOf[a] : a \in {b \in Actions : Kind[b] = "packet_out"}}

ASSUME CoresAssumption ==
    /\ Cores \subseteq Nat /\ IsFiniteSet(Cores)
    /\ Running \subseteq Cores
    /\ FirstAction \subseteq Cores
ASSUME TrafficAssumption ==
    /\ RssHash \in [Packets -> Buckets]
    /\ reta \in [Buckets -> Cores]
    /\ buckets \in [Cores -> [Buckets -> Actions]]
ASSUME TableAssumption ==
    /\ Kind \in [Actions -> Kinds]
    /\ StateOf \in [Actions -> States \cup Cores]
    /\ \A a \in Actions :
          IF Kind[a] = "packet_out" THEN StateOf[a] \in Cores ELSE StateOf[a] \in States
    /\ States \cap Cores = {}
    /\ simple_path \in [States -> [0..2 -> Actions]]
    /\ control_frequency \in [States -> Int]
    /\ Placements \subseteq [Actions -> Cores]
    /\ Migrations \subseteq Actions \X Cores
    \* no running core owns an entry without a function
    /\ \A a \in Actions : Kind[a] = "packet_in" =>
          /\ \A pl \in Placements : pl[a] \notin Running
          /\ \A c \in Running : <<a, c>> \notin Migrations
ASSUME SizeAssumption ==
    /\ PoolSize \in Nat
    /\ RingSize \in Nat \ {0, 1}
    /\ BurstSize \in Nat \ {0}
    /\ TxSize \in Nat \ {0}
ASSUME NoMessageAssumption == NoMessage \notin MessageIds \cup Message

VARIABLES
    pc,             \* where each worker is in worker_action
    ret_to,         \* the loop event_handler returns to: mailbox or burst
    p_cm,           \* the message each worker is handling
    dest,           \* core_id as event_handler read it
    seen,           \* the word of the state the running function has read
    pkts_burst,     \* packets of the burst not yet handled
    msg,            \* contents of every message
    mailbox,        \* recv_ring of each core
    message_buffer, \* free items of each core's message buffer
    wire,           \* packets that have not arrived
    rxq,            \* each core's NIC receive queue
    txb,            \* each core's transmit buffer
    sent,           \* packets the NIC accepted
    freed,          \* packets whose mbuf was freed unsent
    counter,        \* counter of each state
    n_message,      \* n_message of each state
    core_id,        \* core_id of each action-table entry
    drain_due,      \* more than BURST_TX_DRAIN_US since the shared prev_tsc
    dp_quit

loopVars == <<pc, ret_to, p_cm, dest, seen, pkts_burst>>
messageVars == <<msg, mailbox, message_buffer>>
nicVars == <<wire, rxq, txb, sent, freed>>
stateVars == <<counter, n_message>>
tableVars == <<core_id, drain_due, dp_quit>>
vars == <<loopVars, messageVars, nicVars, stateVars, tableVars>>

PCs == {"idle", "loop", "flush", "mailbox", "poll", "next", "handle",
        "run", "enqueue", "return", "exited"}

(* Every place holds only its own kind of thing: in particular a mailbox   *)
(* holds items of message buffers, never a message on a worker's stack,    *)
(* and a message's producer_id tells which of the two it is.               *)
TypeOK ==
    /\ pc \in [Cores -> PCs]
    /\ ret_to \in [Cores -> {"mailbox", "next"}]
    /\ p_cm \in [Cores -> MessageIds \cup {NoMessage}]
    /\ dest \in [Cores -> Cores]
    /\ seen \in [Cores -> Int]
    /\ pkts_burst \in [Cores -> Seq(Packets)]
    /\ msg \in [MessageIds -> Message \cup {NoMessage}]
    /\ mailbox \in [Cores -> Seq(Items)]
    /\ message_buffer \in [Cores -> SUBSET Items]
    /\ wire \in SUBSET Packets
    /\ rxq \in [Cores -> Seq(Packets)]
    /\ txb \in [Cores -> Seq(Packets)]
    /\ sent \in SUBSET Packets
    /\ freed \in SUBSET Packets
    /\ counter \in [States -> Int]
    /\ n_message \in [States -> Int]
    /\ core_id \in [Actions -> Cores]
    /\ drain_due \in BOOLEAN
    /\ dp_quit \in BOOLEAN

Init ==
    /\ pc = [c \in Cores |-> IF c \in Running THEN "loop" ELSE "idle"]
    /\ ret_to = [c \in Cores |-> "mailbox"]
    /\ p_cm = [c \in Cores |-> NoMessage]
    /\ dest = [c \in Cores |-> c]
    /\ seen = [c \in Cores |-> 0]
    /\ pkts_burst = [c \in Cores |-> <<>>]
    /\ msg = [i \in MessageIds |-> NoMessage]
    /\ mailbox = [c \in Cores |-> <<>>]
    /\ message_buffer = [c \in Cores |-> {c} \X (1..PoolSize)]
    /\ wire = Packets
    /\ rxq = [c \in Cores |-> <<>>]
    /\ txb = [c \in Cores |-> <<>>]
    /\ sent = {}
    /\ freed = {}
    /\ counter = [s \in States |-> 0]
    /\ n_message = [s \in States |-> 0]
    /\ core_id \in Placements
    /\ drain_due = FALSE
    /\ dp_quit = FALSE

-----------------------------------------------------------------------------
(* worker_action, outside event_handler                                    *)

(* Mutant: the drain timer is forgotten.                                  *)
FlushDue_Never(w) == FALSE

(* The drain timer of a core that transmits.                               *)
FlushDue(w) == w \in LastAction /\ drain_due

(* The loop's test of dp_quit, then the drain timer.                       *)
LoopTest(w) ==
    /\ pc[w] = "loop"
    /\ pc' = [pc EXCEPT ![w] =
                 IF dp_quit THEN "exited"
                 ELSE IF FlushDue(w) THEN "flush"
                 ELSE "mailbox"]
    /\ UNCHANGED <<ret_to, p_cm, dest, seen, pkts_burst, messageVars, nicVars,
                   stateVars, tableVars>>

(* The packets of a transmit buffer leave it: the NIC takes the first k    *)
(* and the buffer's drop callback frees the others.                        *)
Leave(buf, k) ==
    /\ sent' = sent \cup {buf[i] : i \in 1..k}
    /\ freed' = freed \cup {buf[i] : i \in (k + 1)..Len(buf)}

(* rte_eth_tx_buffer_flush; the timer that restarts belongs to all cores.  *)
FlushTxBuffer(w) ==
    /\ pc[w] = "flush"
    /\ \E k \in 0..Len(txb[w]) : Leave(txb[w], k)
    /\ txb' = [txb EXCEPT ![w] = <<>>]
    /\ drain_due' = FALSE
    /\ pc' = [pc EXCEPT ![w] = "mailbox"]
    /\ UNCHANGED <<ret_to, p_cm, dest, seen, pkts_burst, messageVars, wire, rxq,
                   stateVars, core_id, dp_quit>>

(* Mutant: a core that takes packets never serves its mailbox.            *)
DequeueMailbox_NotWhenPolling(w) ==
    /\ pc[w] = "mailbox"
    /\ IF mailbox[w] = <<>> \/ w \in FirstAction
       THEN /\ pc' = [pc EXCEPT ![w] = IF w \in FirstAction THEN "poll" ELSE "loop"]
            /\ UNCHANGED <<p_cm, mailbox>>
       ELSE /\ pc' = [pc EXCEPT ![w] = "handle"]
            /\ p_cm' = [p_cm EXCEPT ![w] = Head(mailbox[w])]
            /\ mailbox' = [mailbox EXCEPT ![w] = Tail(@)]
    /\ UNCHANGED <<ret_to, dest, seen, pkts_burst, msg, message_buffer, nicVars,
                   stateVars, tableVars>>

(* rte_ring_dequeue: the next message, or on to the NIC when there is none.*)
DequeueMailbox(w) ==
    /\ pc[w] = "mailbox"
    /\ IF mailbox[w] = <<>>
       THEN /\ pc' = [pc EXCEPT ![w] = IF w \in FirstAction THEN "poll" ELSE "loop"]
            /\ UNCHANGED <<p_cm, mailbox>>
       ELSE /\ pc' = [pc EXCEPT ![w] = "handle"]
            /\ p_cm' = [p_cm EXCEPT ![w] = Head(mailbox[w])]
            /\ mailbox' = [mailbox EXCEPT ![w] = Tail(@)]
    /\ UNCHANGED <<ret_to, dest, seen, pkts_burst, msg, message_buffer, nicVars,
                   stateVars, tableVars>>

(* Mutant: the test of the producer is inverted.                          *)
FromHere_Inverted(w) == msg[p_cm[w]].producer_id # w

(* The item in w's hands is one of this core's buffer.                     *)
FromHere(w) == msg[p_cm[w]].producer_id = w

(* After a packet_out the item goes back to the buffer of this core if it  *)
(* came from there; an item of another core's buffer is left to nobody.    *)
ReturnItem(w) ==
    /\ pc[w] = "return"
    /\ IF FromHere(w)
       THEN /\ message_buffer' = [message_buffer EXCEPT ![w] = @ \cup {p_cm[w]}]
            /\ msg' = [msg EXCEPT ![p_cm[w]] = NoMessage]
       ELSE UNCHANGED <<message_buffer, msg>>
    /\ p_cm' = [p_cm EXCEPT ![w] = NoMessage]
    /\ pc' = [pc EXCEPT ![w] = "mailbox"]
    /\ UNCHANGED <<ret_to, dest, seen, pkts_burst, mailbox, nicVars, stateVars,
                   tableVars>>


(* The first n packets of a queue.                                         *)
Burst(q, n) == SubSeq(q, 1, n)

RxBurst(w) ==
    /\ pc[w] = "poll"
    /\ LET n == IF Len(rxq[w]) < BurstSize THEN Len(rxq[w]) ELSE BurstSize
       IN  /\ pkts_burst' = [pkts_burst EXCEPT ![w] = Burst(rxq[w], n)]
           /\ rxq' = [rxq EXCEPT ![w] = SubSeq(@, n + 1, Len(@))]
    /\ ret_to' = [ret_to EXCEPT ![w] = "next"]
    /\ pc' = [pc EXCEPT ![w] = "next"]
    /\ UNCHANGED <<p_cm, dest, seen, messageVars, wire, txb, sent, freed,
                   stateVars, tableVars>>

(* Mutant: the message claims to be an item of this core's buffer.         *)
StackMessage_NotLocal(w, p) ==
    [m |-> p, producer_id |-> w, action_id |-> buckets[w][RssHash[p]]]

(* The message of a packet from the NIC.                                   *)
StackMessage(w, p) ==
    [m |-> p, producer_id |-> LocalProducer, action_id |-> buckets[w][RssHash[p]]]

(* The next packet of the burst enters the message on the stack.           *)
NextPacket(w) ==
    /\ pc[w] = "next"
    /\ IF pkts_burst[w] = <<>>
       THEN /\ pc' = [pc EXCEPT ![w] = "loop"]
            /\ ret_to' = [ret_to EXCEPT ![w] = "mailbox"]
            /\ UNCHANGED <<p_cm, pkts_burst, msg>>
       ELSE LET p == Head(pkts_burst[w]) IN
            /\ pc' = [pc EXCEPT ![w] = "handle"]
            /\ p_cm' = [p_cm EXCEPT ![w] = Local(w)]
            /\ pkts_burst' = [pkts_burst EXCEPT ![w] = Tail(@)]
            /\ msg' = [msg EXCEPT ![Local(w)] = StackMessage(w, p)]
            /\ UNCHANGED ret_to
    /\ UNCHANGED <<dest, seen, mailbox, message_buffer, nicVars, stateVars,
                   tableVars>>

-----------------------------------------------------------------------------
(* event_handler                                                           *)

(* The entry of the action the message in w's hands names.                 *)
Action(w) == msg[p_cm[w]].action_id

(* The word of its state a function reads first and writes last.           *)
StateWord(a) ==
    CASE Kind[a] = "gd_classifier" -> counter[StateOf[a]]
      [] Kind[a] \in {"gd_control", "gd_data"} -> n_message[StateOf[a]]
      [] OTHER -> 0

(* Mutant: a message from the mailbox runs wherever it is.                *)
LivesHere_TrustsItems(w) == core_id[Action(w)] = w \/ p_cm[w] # Local(w)

LivesHere(w) == core_id[Action(w)] = w

(* The action lives here: its function is entered.                         *)
SelectAction(w) ==
    /\ pc[w] = "handle"
    /\ LivesHere(w)
    /\ seen' = [seen EXCEPT ![w] = StateWord(Action(w))]
    /\ pc' = [pc EXCEPT ![w] = "run"]
    /\ UNCHANGED <<ret_to, p_cm, dest, pkts_burst, messageVars, nicVars, stateVars,
                   tableVars>>

(* What zbuffer_get may return.                                            *)
FreeItems(w) == message_buffer[w]

(* Mutant: the item also stays in the buffer.                             *)
BufferWithout_Keeps(w, i) == message_buffer

(* The buffers once w has taken item i from its own.                       *)
BufferWithout(w, i) == [message_buffer EXCEPT ![w] = @ \ {i}]

(* It lives on another core and the message is on this stack: the message  *)
(* is copied into an item of this core's buffer ...                        *)
CopyToItem(w) ==
    /\ pc[w] = "handle"
    /\ ~LivesHere(w)
    /\ msg[p_cm[w]].producer_id = LocalProducer
    /\ \E i \in FreeItems(w) :
          /\ message_buffer' = BufferWithout(w, i)
          /\ msg' = [msg EXCEPT ![i] = [msg[p_cm[w]] EXCEPT !.producer_id = w],
                                ![p_cm[w]] = NoMessage]
          /\ p_cm' = [p_cm EXCEPT ![w] = i]
    /\ dest' = [dest EXCEPT ![w] = core_id[Action(w)]]
    /\ pc' = [pc EXCEPT ![w] = "enqueue"]
    /\ UNCHANGED <<ret_to, seen, pkts_burst, mailbox, nicVars, stateVars, tableVars>>

(* Mutant: the packet is freed and its message goes on nevertheless.       *)
FreePacket_GoesOn(w) ==
    /\ pc[w] = "handle"
    /\ ~LivesHere(w)
    /\ msg[p_cm[w]].producer_id = LocalProducer
    /\ FreeItems(w) = {}
    /\ freed' = freed \cup {msg[p_cm[w]].m}
    /\ dest' = [dest EXCEPT ![w] = core_id[Action(w)]]
    /\ pc' = [pc EXCEPT ![w] = "enqueue"]
    /\ UNCHANGED <<ret_to, p_cm, msg, seen, pkts_burst, mailbox, message_buffer, wire,
                   rxq, txb, sent, stateVars, tableVars>>

(* ... or, with no item left, the packet is freed.                         *)
FreePacket(w) ==
    /\ pc[w] = "handle"
    /\ ~LivesHere(w)
    /\ msg[p_cm[w]].producer_id = LocalProducer
    /\ FreeItems(w) = {}
    /\ freed' = freed \cup {msg[p_cm[w]].m}
    /\ msg' = [msg EXCEPT ![p_cm[w]] = NoMessage]
    /\ p_cm' = [p_cm EXCEPT ![w] = NoMessage]
    /\ pc' = [pc EXCEPT ![w] = ret_to[w]]
    /\ UNCHANGED <<ret_to, dest, seen, pkts_burst, mailbox, message_buffer, wire,
                   rxq, txb, sent, stateVars, tableVars>>

(* It lives on another core and the message is an item already.            *)
PassItem(w) ==
    /\ pc[w] = "handle"
    /\ ~LivesHere(w)
    /\ msg[p_cm[w]].producer_id # LocalProducer
    /\ dest' = [dest EXCEPT ![w] = core_id[Action(w)]]
    /\ pc' = [pc EXCEPT ![w] = "enqueue"]
    /\ UNCHANGED <<ret_to, p_cm, seen, pkts_burst, messageVars, nicVars, stateVars,
                   tableVars>>

(* Mutant: the ring counts one slot too few.                              *)
HasRoom_OneLess(c) == Len(mailbox[c]) < RingSize - 2

(* rte_ring_enqueue succeeds: a ring of RingSize slots holds one less.  On *)
(* a full ring the worker spins, whatever dp_quit says.                    *)
HasRoom(c) == Len(mailbox[c]) < RingSize - 1

(* Mutant: the item is also returned to the buffer.                       *)
Enqueue_Returns(w) ==
    /\ pc[w] = "enqueue"
    /\ HasRoom(dest[w])
    /\ mailbox' = [mailbox EXCEPT ![dest[w]] = Append(@, p_cm[w])]
    /\ p_cm' = [p_cm EXCEPT ![w] = NoMessage]
    /\ pc' = [pc EXCEPT ![w] = ret_to[w]]
    /\ message_buffer' = [message_buffer EXCEPT ![w] =
                             @ \cup ({p_cm[w]} \cap ({w} \X (1..PoolSize)))]
    /\ UNCHANGED <<ret_to, dest, seen, pkts_burst, msg, nicVars,
                   stateVars, tableVars>>

Enqueue(w) ==
    /\ pc[w] = "enqueue"
    /\ HasRoom(dest[w])
    /\ mailbox' = [mailbox EXCEPT ![dest[w]] = Append(@, p_cm[w])]
    /\ p_cm' = [p_cm EXCEPT ![w] = NoMessage]
    /\ pc' = [pc EXCEPT ![w] = ret_to[w]]
    /\ UNCHANGED <<ret_to, dest, seen, pkts_burst, msg, message_buffer, nicVars,
                   stateVars, tableVars>>

-----------------------------------------------------------------------------
(* The functions an entry points to                                        *)

(* The function returns and names entry i of its simple_path.              *)
NextAction(w, i) ==
    /\ msg' = [msg EXCEPT ![p_cm[w]].action_id = simple_path[StateOf[Action(w)]][i]]
    /\ seen' = [seen EXCEPT ![w] = 0]
    /\ pc' = [pc EXCEPT ![w] = "handle"]
    /\ UNCHANGED <<ret_to, p_cm, dest, pkts_burst, mailbox, message_buffer, nicVars,
                   tableVars>>

Classify(w) ==
    /\ pc[w] = "run"
    /\ Kind[Action(w)] = "gd_classifier"
    /\ LET s == StateOf[Action(w)] IN
          /\ counter' = [counter EXCEPT ![s] =
                            ClassifierCounter(control_frequency[s], seen[w])]
          /\ NextAction(w, ClassifierPath(control_frequency[s], seen[w]))
    /\ UNCHANGED n_message

RunControl(w) ==
    /\ pc[w] = "run"
    /\ Kind[Action(w)] = "gd_control"
    /\ n_message' = [n_message EXCEPT ![StateOf[Action(w)]] = seen[w] + 1]
    /\ NextAction(w, DataPath)
    /\ UNCHANGED counter

(* Mutant: the next action is taken from the wrong entry.                 *)
RunData_WrongEntry(w) ==
    /\ pc[w] = "run"
    /\ Kind[Action(w)] = "gd_data"
    /\ n_message' = [n_message EXCEPT ![StateOf[Action(w)]] = seen[w] + 1]
    /\ NextAction(w, DataPath)
    /\ UNCHANGED counter

RunData(w) ==
    /\ pc[w] = "run"
    /\ Kind[Action(w)] = "gd_data"
    /\ n_message' = [n_message EXCEPT ![StateOf[Action(w)]] = seen[w] + 1]
    /\ NextAction(w, OutPath)
    /\ UNCHANGED counter

(* transmit_packet: the packet enters the transmit buffer of the worker    *)
(* the entry names, and the buffer empties itself when it is full.         *)
Transmit(w) ==
    /\ pc[w] = "run"
    /\ Kind[Action(w)] = "packet_out"
    /\ LET s == StateOf[Action(w)]
           buf == Append(txb[s], msg[p_cm[w]].m)
       IN  IF Len(buf) < TxSize
           THEN /\ txb' = [txb EXCEPT ![s] = buf]
                /\ UNCHANGED <<sent, freed>>
           ELSE /\ \E k \in 0..Len(buf) : Leave(buf, k)
                /\ txb' = [txb EXCEPT ![s] = <<>>]
    /\ seen' = [seen EXCEPT ![w] = 0]
    /\ IF p_cm[w] = Local(w)
       THEN /\ pc' = [pc EXCEPT ![w] = "next"]
            /\ p_cm' = [p_cm EXCEPT ![w] = NoMessage]
            /\ msg' = [msg EXCEPT ![p_cm[w]] = NoMessage]
       ELSE /\ pc' = [pc EXCEPT ![w] = "return"]
            /\ UNCHANGED <<p_cm, msg>>
    /\ UNCHANGED <<ret_to, dest, pkts_burst, mailbox, message_buffer, wire, rxq,
                   stateVars, tableVars>>

-----------------------------------------------------------------------------
(* What happens around the workers                                         *)

(* The NIC steers a packet to the queue its bucket selects.                *)
Arrive(p) ==
    /\ p \in wire
    /\ wire' = wire \ {p}
    /\ rxq' = [rxq EXCEPT ![reta[RssHash[p]]] = Append(@, p)]
    /\ UNCHANGED <<loopVars, messageVars, txb, sent, freed, stateVars, tableVars>>

(* More than the drain interval has passed since prev_tsc.                 *)
DrainTick ==
    /\ ~drain_due
    /\ drain_due' = TRUE
    /\ UNCHANGED <<loopVars, messageVars, nicVars, stateVars, core_id, dp_quit>>

(* "action migrate a c", from the thread that serves the command line.     *)
Migrate(a, c) ==
    /\ ~dp_quit
    /\ core_id[a] # c
    /\ core_id' = [core_id EXCEPT ![a] = c]
    /\ UNCHANGED <<loopVars, messageVars, nicVars, stateVars, drain_due, dp_quit>>

(* signal_handler *)
Quit ==
    /\ ~dp_quit
    /\ dp_quit' = TRUE
    /\ UNCHANGED <<loopVars, messageVars, nicVars, stateVars, core_id, drain_due>>

Run(w) == Classify(w) \/ RunControl(w) \/ RunData(w) \/ Transmit(w)

Step(w) ==
    \/ LoopTest(w)
    \/ FlushTxBuffer(w)
    \/ DequeueMailbox(w)
    \/ ReturnItem(w)
    \/ RxBurst(w)
    \/ NextPacket(w)
    \/ SelectAction(w)
    \/ CopyToItem(w)
    \/ FreePacket(w)
    \/ PassItem(w)
    \/ Enqueue(w)
    \/ Run(w)

AllExited == \A w \in Running : pc[w] = "exited"

(* main returns once every lcore has (rte_eal_mp_wait_lcore).              *)
Exit == AllExited /\ UNCHANGED vars

Next ==
    \/ \E w \in Running : Step(w)
    \/ \E p \in Packets : Arrive(p)
    \/ \E m \in Migrations : Migrate(m[1], m[2])
    \/ DrainTick
    \/ Quit
    \/ Exit

Spec == Init /\ [][Next]_vars

(* Every worker polls on a core of its own, and time passes.               *)
FairSpec ==
    /\ Spec
    /\ \A w \in Running : WF_vars(Step(w))
    /\ WF_vars(DrainTick)

-----------------------------------------------------------------------------
(* Safety                                                                  *)

Queued(i) == \E c \in Cores : \E k \in DOMAIN mailbox[c] : mailbox[c][k] = i
Held(i) == \E w \in Cores : p_cm[w] = i

FreeInItsBuffer ==
    \A c \in Cores : \A i \in message_buffer[c] : i[1] = c /\ ~Queued(i) /\ ~Held(i)
QueuedOnce ==
    \A c, d \in Cores : \A j \in DOMAIN mailbox[c], k \in DOMAIN mailbox[d] :
        mailbox[c][j] = mailbox[d][k] => c = d /\ j = k
QueuedNotHeld ==
    \A c, w \in Cores : \A k \in DOMAIN mailbox[c] : mailbox[c][k] # p_cm[w]
HeldOnce ==
    \A v, w \in Cores : p_cm[v] = p_cm[w] /\ p_cm[v] # NoMessage => v = w

(* A message item is owned once: it is free in the buffer it came from, or *)
(* in one position of one mailbox, or in the hands of one worker.  Nothing *)
(* but this discipline protects it: workers write messages without a lock. *)
ItemOwnedOnce == FreeInItsBuffer /\ QueuedOnce /\ QueuedNotHeld /\ HeldOnce

(* The places that hold packet p.  A message holds its packet from the     *)
(* moment it is filled until packet_out or the pool's exhaustion takes it. *)
Holders(p) ==
    {<<"wire", 0, 0>> : x \in wire \cap {p}}
    \cup {<<"sent", 0, 0>> : x \in sent \cap {p}}
    \cup {<<"freed", 0, 0>> : x \in freed \cap {p}}
    \cup (UNION {{<<"rxq", c, k>> : k \in {j \in DOMAIN rxq[c] : rxq[c][j] = p}} : c \in Cores})
    \cup (UNION {{<<"burst", c, k>> : k \in {j \in DOMAIN pkts_burst[c] : pkts_burst[c][j] = p}} : c \in Cores})
    \cup (UNION {{<<"txb", c, k>> : k \in {j \in DOMAIN txb[c] : txb[c][j] = p}} : c \in Cores})
    \cup (UNION {{<<"queued", c, k>> : k \in {j \in DOMAIN mailbox[c] : msg[mailbox[c][j]].m = p}} : c \in Cores})
    \cup {<<"held", w, 0>> : w \in {v \in Cores : /\ pc[v] \in {"handle", "run", "enqueue"}
                                                 /\ msg[p_cm[v]].m = p}}

(* Every packet is in exactly one place, whatever the workers interleave:  *)
(* none is lost, none is transmitted or freed twice.                       *)
PacketInOnePlace == \A p \in Packets : Cardinality(Holders(p)) = 1

(* Worker w is inside state s: it runs a function of an entry with that    *)
(* state, or flushes its own transmit buffer.                              *)
Inside(w, s) ==
    \/ pc[w] = "run" /\ StateOf[Action(w)] = s
    \/ pc[w] = "flush" /\ s = w

(* The states have no locks: at most one worker is inside each.            *)
StateExclusive ==
    \A v, w \in Running : \A s \in States \cup LastAction :
        Inside(v, s) /\ Inside(w, s) => v = w

(* The placements the director computes (director/em/em.py, deployment and *)
(* nf_model.py): actions that share a state share a core, packet_out runs  *)
(* on the core whose transmit buffer it fills, and nobody migrates.        *)
Colocated ==
    /\ Migrations = {}
    /\ \A pl \in Placements : \A a, b \in Actions : StateOf[a] = StateOf[b] => pl[a] = pl[b]
    /\ \A pl \in Placements : \A a \in Actions : Kind[a] = "packet_out" => pl[a] = StateOf[a]

(* No item is left to nobody: what is not free is on its way.              *)
NoItemLeaked ==
    \A i \in Items : Queued(i) \/ Held(i) \/ \E c \in Cores : i \in message_buffer[c]

(* Worker w finds the ring it enqueues to full.                            *)
Spinning(w) == pc[w] = "enqueue" /\ ~HasRoom(dest[w])

InFlight == {i \in Items : Queued(i) \/ Held(i)}

(* Workers can all spin on each other's rings: a data core hands a burst   *)
(* to a control core that is handing results back, and neither empties its *)
(* mailbox while it spins.  That takes enough items in flight to fill the  *)
(* rings and the hands of those workers, and only cores that receive       *)
(* packets put items into flight: message buffers smaller than that make   *)
(* the rings safe.                                                         *)
GridlockNeedsItems ==
    /\ \A i \in InFlight : i[1] \in FirstAction
    /\ \A S \in SUBSET Running :
          (\A w \in S : Spinning(w)) =>
              Cardinality(InFlight) >=
                  Cardinality(S) + Cardinality({dest[w] : w \in S}) * (RingSize - 1)

-----------------------------------------------------------------------------
(* Liveness                                                                *)

(* A packet that reached a queue is sent or freed, unless the platform is  *)
(* told to quit.                                                           *)
PacketsLeave ==
    \A p \in Packets : p \notin wire ~> (p \in sent \cup freed \/ dp_quit)

(* After the signal every worker leaves its loop, so that main returns.    *)
QuitTerminates == dp_quit ~> AllExited

(* What sits in a transmit buffer leaves it: BURST_TX_DRAIN_US promises a  *)
(* drain of every transmitting core's buffer.                              *)
BuffersDrain ==
    \A c \in LastAction : txb[c] # <<>> ~> (txb[c] = <<>> \/ dp_quit)

(* A worker that spins on a full ring forever spins because the owner of   *)
(* the ring has gone or spins on a full ring itself; nothing else stops it.*)
SpinHasACause ==
    \A w \in Running :
        Spinning(w) ~> (~Spinning(w) \/ pc[dest[w]] \in {"idle", "exited"}
                        \/ Spinning(dest[w]))
=============================================================================
