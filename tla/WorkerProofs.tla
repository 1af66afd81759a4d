----------------------------- MODULE WorkerProofs -----------------------------
(***************************************************************************)
(* Proofs about the worker loop, for any cores, tables, packets and sizes. *)
(*                                                                         *)
(* No lock protects messages, so type correctness already needs to know    *)
(* who may write which message: the invariant below carries TypeOK and     *)
(* ItemOwnedOnce together with what each program counter says of the       *)
(* message in hand and what holds of the messages in the rings.            *)
(***************************************************************************)
EXTENDS WorkerRefinement, SequenceTheorems, FiniteSetTheorems, TLAPS

(* What a worker's program counter says of the message in its hands.       *)
InHandPCs == {"handle", "run", "enqueue", "return"}

Hand(w) ==
    /\ pc[w] \in InHandPCs <=> p_cm[w] # NoMessage
    /\ p_cm[w] # NoMessage =>
          /\ p_cm[w] \in Items \/ p_cm[w] = Local(w)
          /\ msg[p_cm[w]] \in Message
    /\ p_cm[w] = Local(w) => msg[p_cm[w]].producer_id = LocalProducer
    /\ p_cm[w] \in Items => msg[p_cm[w]].producer_id = p_cm[w][1]
    /\ pc[w] \in {"enqueue", "return"} => p_cm[w] \in Items

HandOK == \A w \in Cores : Hand(w)

(* The messages in the rings are filled and know where they came from.     *)
QueueOK ==
    \A c \in Cores : \A k \in DOMAIN mailbox[c] :
        /\ msg[mailbox[c][k]] \in Message
        /\ msg[mailbox[c][k]].producer_id = mailbox[c][k][1]

IInv == TypeOK /\ ItemOwnedOnce /\ HandOK /\ QueueOK

-----------------------------------------------------------------------------
(* Message identities *)

(* Items, stack messages and NoMessage are told apart.                     *)
LEMMA IdFacts ==
    /\ NoMessage \notin MessageIds
    /\ Items \subseteq MessageIds
    /\ \A w \in Cores : Local(w) \in MessageIds /\ Local(w) \notin Items
    /\ \A v, w \in Cores : Local(v) = Local(w) => v = w
    /\ \A i \in Items : i[1] \in Cores /\ i[1] # LocalProducer
    /\ NoMessage \notin Message
<1>1. NoMessage \notin MessageIds /\ NoMessage \notin Message  BY NoMessageAssumption
<1>2. Items \subseteq MessageIds  BY DEF Items, MessageIds
<1>3. ASSUME NEW w \in Cores  PROVE Local(w) \in MessageIds /\ Local(w) \notin Items
  BY SizeAssumption DEF Local, Items, MessageIds
<1>4. ASSUME NEW v \in Cores, NEW w \in Cores, Local(v) = Local(w)  PROVE v = w
  BY <1>4 DEF Local
<1>5. ASSUME NEW i \in Items  PROVE i[1] \in Cores /\ i[1] # LocalProducer
  BY CoresAssumption DEF Items, LocalProducer
<1> QED BY <1>1, <1>2, <1>3, <1>4, <1>5

(* What a step that moves messages needs of the invariant.                 *)
LEMMA MessageTypes ==
    ASSUME IInv
    PROVE  /\ pc \in [Cores -> PCs]
           /\ p_cm \in [Cores -> MessageIds \cup {NoMessage}]
           /\ msg \in [MessageIds -> Message \cup {NoMessage}]
           /\ mailbox \in [Cores -> Seq(Items)]
           /\ message_buffer \in [Cores -> SUBSET Items]
  BY DEF IInv, TypeOK

(* The parts of the invariant, by name.                                    *)
LEMMA Parts ==
    ASSUME IInv
    PROVE  TypeOK /\ FreeInItsBuffer /\ QueuedOnce /\ QueuedNotHeld /\ HeldOnce
           /\ HandOK /\ QueueOK
  BY DEF IInv, ItemOwnedOnce

(* It holds at the start.                                                  *)
LEMMA InitInvariant == Init => IInv
<1> SUFFICES ASSUME Init PROVE IInv  OBVIOUS
<1> USE IdFacts DEF Init
<1>1. TypeOK
  <2>1. pc \in [Cores -> PCs] /\ ret_to \in [Cores -> {"mailbox", "next"}]
    BY DEF PCs
  <2>2. message_buffer \in [Cores -> SUBSET Items]
    BY DEF Items
  <2>3. core_id \in [Actions -> Cores]
    BY TableAssumption
  <2>4. /\ pkts_burst \in [Cores -> Seq(Packets)]
        /\ mailbox \in [Cores -> Seq(Items)]
        /\ rxq \in [Cores -> Seq(Packets)]
        /\ txb \in [Cores -> Seq(Packets)]
    OBVIOUS
  <2>5. /\ p_cm \in [Cores -> MessageIds \cup {NoMessage}]
        /\ dest \in [Cores -> Cores]
        /\ seen \in [Cores -> Int]
        /\ msg \in [MessageIds -> Message \cup {NoMessage}]
        /\ counter \in [States -> Int]
        /\ n_message \in [States -> Int]
    OBVIOUS
  <2> QED BY <2>1, <2>2, <2>3, <2>4, <2>5 DEF TypeOK
<1>2. ItemOwnedOnce
  BY DEF ItemOwnedOnce, FreeInItsBuffer, QueuedOnce, QueuedNotHeld, HeldOnce, Queued, Held, Items
<1>3. HandOK
  BY DEF HandOK, Hand, InHandPCs
<1>4. QueueOK
  BY DEF QueueOK
<1> QED BY <1>1, <1>2, <1>3, <1>4 DEF IInv

(* A step that moves no message keeps what is said about messages, if a    *)
(* worker that is about to pass or return its message has an item.         *)
LEMMA MessagesUnmoved ==
    ASSUME IInv, TypeOK', UNCHANGED <<p_cm, messageVars>>,
           \A w \in Cores : pc'[w] \in InHandPCs <=> pc[w] \in InHandPCs,
           \A w \in Cores : pc'[w] \in {"enqueue", "return"} => p_cm[w] \in Items
    PROVE  IInv'
<1>1. ItemOwnedOnce'
  BY DEF IInv, ItemOwnedOnce, FreeInItsBuffer, QueuedOnce, QueuedNotHeld, HeldOnce,
         Queued, Held, messageVars
<1>2. HandOK'
  BY DEF IInv, HandOK, Hand, messageVars
<1>3. QueueOK'
  BY DEF IInv, QueueOK, messageVars
<1> QED BY <1>1, <1>2, <1>3 DEF IInv

(* The loop test moves no message.                                         *)
LEMMA LoopTestInvariant ==
    ASSUME IInv, NEW w \in Running, LoopTest(w)  PROVE IInv'
<1> USE CoresAssumption
<1>1. TypeOK'
  BY DEF IInv, TypeOK, LoopTest, PCs, messageVars, nicVars, stateVars, tableVars
<1>2. \A v \in Cores : pc'[v] \in InHandPCs <=> pc[v] \in InHandPCs
  BY DEF IInv, TypeOK, LoopTest, InHandPCs
<1>3. \A v \in Cores : pc'[v] \in {"enqueue", "return"} => p_cm[v] \in Items
  BY DEF IInv, TypeOK, HandOK, Hand, LoopTest
<1> QED BY <1>1, <1>2, <1>3, MessagesUnmoved DEF LoopTest

(* Packets that leave a buffer are packets.                                *)
LEMMA LeaveType ==
    ASSUME NEW buf \in Seq(Packets), NEW k \in 0..Len(buf), Leave(buf, k),
           sent \in SUBSET Packets, freed \in SUBSET Packets
    PROVE  sent' \in SUBSET Packets /\ freed' \in SUBSET Packets
BY DEF Leave

(* Nor does a flush of the transmit buffer.                                *)
LEMMA FlushInvariant ==
    ASSUME IInv, NEW w \in Running, FlushTxBuffer(w)  PROVE IInv'
<1> USE CoresAssumption
<1>1. TypeOK'
  <2>1. sent' \in SUBSET Packets /\ freed' \in SUBSET Packets
    BY LeaveType DEF IInv, TypeOK, FlushTxBuffer
  <2>2. txb' \in [Cores -> Seq(Packets)]
    BY DEF IInv, TypeOK, FlushTxBuffer
  <2> QED
    BY <2>1, <2>2 DEF IInv, TypeOK, FlushTxBuffer, PCs, messageVars, stateVars
<1>2. \A v \in Cores : pc'[v] \in InHandPCs <=> pc[v] \in InHandPCs
  BY DEF IInv, TypeOK, FlushTxBuffer, InHandPCs
<1>3. \A v \in Cores : pc'[v] \in {"enqueue", "return"} => p_cm[v] \in Items
  BY DEF IInv, TypeOK, HandOK, Hand, FlushTxBuffer
<1> QED BY <1>1, <1>2, <1>3, MessagesUnmoved DEF FlushTxBuffer

(* Nor does taking a burst.                                                *)
LEMMA RxBurstInvariant ==
    ASSUME IInv, NEW w \in Running, RxBurst(w)  PROVE IInv'
<1> USE CoresAssumption
<1>1. TypeOK'
  <2> DEFINE n == IF Len(rxq[w]) < BurstSize THEN Len(rxq[w]) ELSE BurstSize
  <2>1. rxq[w] \in Seq(Packets) /\ n \in Nat /\ n <= Len(rxq[w])
    BY SizeAssumption DEF IInv, TypeOK
  <2>2. SubSeq(rxq[w], 1, n) \in Seq(Packets)
        /\ SubSeq(rxq[w], n + 1, Len(rxq[w])) \in Seq(Packets)
    BY <2>1, SubSeqProperties, ElementOfSeq
  <2>3. pkts_burst' = [pkts_burst EXCEPT ![w] = SubSeq(rxq[w], 1, n)]
        /\ rxq' = [rxq EXCEPT ![w] = SubSeq(rxq[w], n + 1, Len(rxq[w]))]
    BY DEF RxBurst, Burst, IInv, TypeOK
  <2>4. pkts_burst' \in [Cores -> Seq(Packets)] /\ rxq' \in [Cores -> Seq(Packets)]
    BY <2>2, <2>3 DEF IInv, TypeOK
  <2> QED
    BY <2>4 DEF IInv, TypeOK, RxBurst, PCs, messageVars, stateVars, tableVars
<1>2. \A v \in Cores : pc'[v] \in InHandPCs <=> pc[v] \in InHandPCs
  BY DEF IInv, TypeOK, RxBurst, InHandPCs
<1>3. \A v \in Cores : pc'[v] \in {"enqueue", "return"} => p_cm[v] \in Items
  BY DEF IInv, TypeOK, HandOK, Hand, RxBurst
<1> QED BY <1>1, <1>2, <1>3, MessagesUnmoved DEF RxBurst

(* Nor does entering a function.                                           *)
LEMMA SelectActionInvariant ==
    ASSUME IInv, NEW w \in Running, SelectAction(w)  PROVE IInv'
<1> USE CoresAssumption
<1>1. TypeOK'
  <2>1. msg[p_cm[w]] \in Message
    BY DEF IInv, HandOK, Hand, SelectAction, InHandPCs
  <2>2. Action(w) \in Actions
    BY <2>1 DEF Action, Message
  <2>3. StateWord(Action(w)) \in Int
    <3> DEFINE a == Action(w)
    <3>1. CASE Kind[a] = "gd_classifier"
      BY <2>2, <3>1, TableAssumption DEF IInv, TypeOK, StateWord
    <3>2. CASE Kind[a] \in {"gd_control", "gd_data"}
      BY <2>2, <3>2, TableAssumption DEF IInv, TypeOK, StateWord
    <3>3. CASE Kind[a] \notin {"gd_classifier", "gd_control", "gd_data"}
      BY <3>3 DEF StateWord
    <3> QED BY <3>1, <3>2, <3>3
  <2> QED
    BY <2>3 DEF IInv, TypeOK, SelectAction, PCs, messageVars, nicVars, stateVars, tableVars
<1>2. \A v \in Cores : pc'[v] \in InHandPCs <=> pc[v] \in InHandPCs
  BY DEF IInv, TypeOK, SelectAction, InHandPCs
<1>3. \A v \in Cores : pc'[v] \in {"enqueue", "return"} => p_cm[v] \in Items
  BY DEF IInv, TypeOK, HandOK, Hand, SelectAction
<1> QED BY <1>1, <1>2, <1>3, MessagesUnmoved DEF SelectAction

(* Nor does choosing the core to pass an item to.                          *)
LEMMA PassItemInvariant ==
    ASSUME IInv, NEW w \in Running, PassItem(w)  PROVE IInv'
<1> USE CoresAssumption
<1>0. msg[p_cm[w]] \in Message /\ p_cm[w] \in Items
  BY DEF IInv, HandOK, Hand, PassItem, InHandPCs
<1>1. TypeOK'
  <2>1. core_id[Action(w)] \in Cores
    BY <1>0 DEF Action, Message, IInv, TypeOK
  <2> QED
    BY <2>1 DEF IInv, TypeOK, PassItem, PCs, messageVars, nicVars, stateVars, tableVars
<1>2. \A v \in Cores : pc'[v] \in InHandPCs <=> pc[v] \in InHandPCs
  BY DEF IInv, TypeOK, PassItem, InHandPCs
<1>3. \A v \in Cores : pc'[v] \in {"enqueue", "return"} => p_cm[v] \in Items
  BY <1>0 DEF IInv, TypeOK, HandOK, Hand, PassItem
<1> QED BY <1>1, <1>2, <1>3, MessagesUnmoved DEF PassItem
-----------------------------------------------------------------------------
(* Steps that move a message *)

(* What is queued is an item.                                              *)
LEMMA QueuedItems ==
    ASSUME IInv
    PROVE  \A c \in Cores : \A k \in DOMAIN mailbox[c] :
              mailbox[c][k] \in Items /\ mailbox[c][k] # NoMessage
<1> SUFFICES ASSUME NEW c \in Cores, NEW k \in DOMAIN mailbox[c]
             PROVE  mailbox[c][k] \in Items /\ mailbox[c][k] # NoMessage
  OBVIOUS
<1>1. mailbox[c] \in Seq(Items)
  BY DEF IInv, TypeOK
<1>2. mailbox[c][k] \in Items
  BY <1>1, ElementOfSeq
<1> QED BY <1>2, IdFacts

(* An item is queued in one position.                                      *)
LEMMA OnePosition ==
    ASSUME QueuedOnce, NEW c \in Cores, NEW d \in Cores,
           NEW j \in DOMAIN mailbox[c], NEW k \in DOMAIN mailbox[d],
           mailbox[c][j] = mailbox[d][k]
    PROVE  c = d /\ j = k
BY DEF QueuedOnce

(* An item goes from a mailbox to the hands of its core.                   *)
LEMMA DequeueInvariant ==
    ASSUME IInv, NEW w \in Running, DequeueMailbox(w)  PROVE IInv'
<1> USE CoresAssumption, IdFacts
<1>1. CASE mailbox[w] = <<>>
  <2>1. TypeOK' /\ UNCHANGED <<p_cm, messageVars>>
    BY <1>1 DEF IInv, TypeOK, DequeueMailbox, PCs, messageVars, nicVars, stateVars, tableVars
  <2>2. \A v \in Cores : pc'[v] \in InHandPCs <=> pc[v] \in InHandPCs
    BY <1>1 DEF IInv, TypeOK, DequeueMailbox, InHandPCs
  <2>3. \A v \in Cores : pc'[v] \in {"enqueue", "return"} => p_cm[v] \in Items
    BY <1>1 DEF IInv, TypeOK, HandOK, Hand, DequeueMailbox
  <2> QED BY <2>1, <2>2, <2>3, MessagesUnmoved
<1>2. CASE mailbox[w] # <<>>
  <2> DEFINE q == mailbox[w]
  <2>0. w \in Cores /\ q \in Seq(Items) /\ q # <<>>
    BY <1>2 DEF IInv, TypeOK
  <2>1. /\ Head(q) \in Items /\ Tail(q) \in Seq(Items)
        /\ 1 \in DOMAIN q /\ Head(q) = q[1]
        /\ \A k \in DOMAIN Tail(q) : k + 1 \in DOMAIN q /\ k + 1 # 1 /\ Tail(q)[k] = q[k + 1]
    BY <2>0, HeadTailProperties, ElementOfSeq
  <2>2. /\ p_cm' = [p_cm EXCEPT ![w] = Head(q)]
        /\ mailbox' = [mailbox EXCEPT ![w] = Tail(q)]
        /\ pc' = [pc EXCEPT ![w] = "handle"]
        /\ UNCHANGED <<msg, message_buffer>>
    BY <1>2 DEF DequeueMailbox, IInv, TypeOK
  <2>3. TypeOK'
    <3>1. p_cm' \in [Cores -> MessageIds \cup {NoMessage}] /\ mailbox' \in [Cores -> Seq(Items)]
      BY <2>1, <2>2 DEF IInv, TypeOK
    <3> QED
      BY <3>1, <2>2 DEF IInv, TypeOK, DequeueMailbox, PCs, nicVars, stateVars, tableVars
  <2>4. p_cm[w] = NoMessage /\ Head(q) # NoMessage
    BY <2>0, <2>1 DEF IInv, HandOK, Hand, DequeueMailbox, InHandPCs
  \* Nothing entered a mailbox: what stands at k stood at j.
  <2>5. \A c \in Cores : \A k \in DOMAIN mailbox'[c] :
           \E j \in DOMAIN mailbox[c] :
              /\ mailbox'[c][k] = mailbox[c][j]
              /\ c = w => j = k + 1 /\ j # 1
              /\ c # w => j = k
    BY <2>0, <2>1, <2>2 DEF IInv, TypeOK
  <2>6. ItemOwnedOnce'
    <3>1. FreeInItsBuffer'
      <4> SUFFICES ASSUME NEW c \in Cores, NEW i \in message_buffer[c]
                   PROVE  i[1] = c /\ ~Queued(i)' /\ ~Held(i)'
        BY <2>2 DEF FreeInItsBuffer
      <4>1. i[1] = c /\ ~Queued(i) /\ ~Held(i)
        BY Parts DEF FreeInItsBuffer
      <4>2. ~Queued(i)'
        BY <4>1, <2>5 DEF Queued
      <4>3. i # Head(q)
        BY <4>1, <2>0, <2>1 DEF Queued
      <4>4. \A v \in Cores : p_cm'[v] = IF v = w THEN Head(q) ELSE p_cm[v]
        BY <2>2, MessageTypes
      <4> HIDE DEF q
      <4>5. ~Held(i)'
        BY <4>1, <4>3, <4>4 DEF Held
      <4> QED BY <4>1, <4>2, <4>5
    <3>2. ASSUME NEW c \in Cores, NEW d \in Cores,
                 NEW j \in DOMAIN mailbox'[c], NEW k \in DOMAIN mailbox'[d],
                 mailbox'[c][j] = mailbox'[d][k]
          PROVE  c = d /\ j = k
      <4>1. PICK j1 \in DOMAIN mailbox[c] : mailbox'[c][j] = mailbox[c][j1]
                /\ (c = w => j1 = j + 1 /\ j1 # 1) /\ (c # w => j1 = j)
        BY <2>5
      <4>2. PICK k1 \in DOMAIN mailbox[d] : mailbox'[d][k] = mailbox[d][k1]
                /\ (d = w => k1 = k + 1 /\ k1 # 1) /\ (d # w => k1 = k)
        BY <2>5
      <4>3. c = d /\ j1 = k1
        <5>1. mailbox[c][j1] = mailbox[d][k1]
          BY <4>1, <4>2, <3>2
        <5>2. QueuedOnce
          BY DEF IInv, ItemOwnedOnce
        <5> HIDE DEF q
        <5> QED BY <5>1, <5>2, Zenon DEF QueuedOnce
      <4>4. j \in Int /\ k \in Int
        <5>1. mailbox'[c] \in Seq(Items) /\ mailbox'[d] \in Seq(Items)
          BY <2>3 DEF TypeOK
        <5> QED BY <5>1, ElementOfSeq
      <4> QED BY <4>1, <4>2, <4>3, <4>4
    <3>3. \A c, v \in Cores : \A k \in DOMAIN mailbox'[c] : mailbox'[c][k] # p_cm'[v]
      <4> SUFFICES ASSUME NEW c \in Cores, NEW v \in Cores, NEW k \in DOMAIN mailbox'[c]
                   PROVE  mailbox'[c][k] # p_cm'[v]
        OBVIOUS
      <4>1. PICK j \in DOMAIN mailbox[c] : mailbox'[c][k] = mailbox[c][j]
                /\ (c = w => j = k + 1 /\ j # 1) /\ (c # w => j = k)
        BY <2>5, ZenonT(40)
      <4>2. CASE v = w
        <5>1. p_cm'[v] = mailbox[w][1] /\ 1 \in DOMAIN mailbox[w]
          BY <4>2, <2>0, <2>1, <2>2, MessageTypes
        <5>2. c # w \/ j # 1
          BY <4>1
        <5> QED BY <4>1, <5>1, <5>2, Parts DEF QueuedOnce
      <4>3. CASE v # w
        <5>1. p_cm'[v] = p_cm[v]
          BY <4>3, <2>2, MessageTypes
        <5> QED BY <4>1, <5>1, Parts DEF QueuedNotHeld
      <4> QED BY <4>2, <4>3
    <3>4. HeldOnce'
      <4>1. \A v \in Cores : p_cm'[v] = IF v = w THEN Head(q) ELSE p_cm[v]
        BY <2>2, MessageTypes
      <4>2. \A v \in Cores : p_cm[v] # Head(q)
        <5>1. Head(q) = mailbox[w][1] /\ 1 \in DOMAIN mailbox[w]
          BY <2>1
        <5>2. QueuedNotHeld
          BY Parts
        <5> HIDE DEF q
        <5> QED BY <5>1, <5>2, <2>0, Zenon DEF QueuedNotHeld
      <4> HIDE DEF q
      <4> QED BY <4>1, <4>2, Parts DEF HeldOnce
    <3> QED BY <3>1, <3>2, <3>3, <3>4 DEF ItemOwnedOnce, QueuedOnce, QueuedNotHeld
  <2>7. HandOK'
    <3> SUFFICES ASSUME NEW v \in Cores  PROVE Hand(v)'
      BY DEF HandOK
    <3>1. CASE v = w
      <4>1. pc'[w] = "handle" /\ p_cm'[w] = Head(q)
        BY <2>0, <2>2, MessageTypes
      <4>2. msg[Head(q)] \in Message /\ msg[Head(q)].producer_id = Head(q)[1]
        <5>1. Head(q) = mailbox[w][1] /\ 1 \in DOMAIN mailbox[w]
          BY <2>1
        <5>2. QueueOK
          BY Parts
        <5> HIDE DEF q
        <5>3. /\ msg[mailbox[w][1]] \in Message
              /\ msg[mailbox[w][1]].producer_id = mailbox[w][1][1]
          BY <5>1, <5>2, <2>0, ZenonT(40) DEF QueueOK
        <5> QED BY <5>1, <5>3
      <4>3. Head(q) # Local(w)
        BY <2>0, <2>1
      <4> HIDE DEF q
      <4> QED BY <3>1, <4>1, <4>2, <4>3, <2>1, <2>2, <2>4 DEF Hand, InHandPCs
    <3>2. CASE v # w
      <4>1. pc'[v] = pc[v] /\ p_cm'[v] = p_cm[v] /\ msg' = msg
        BY <3>2, <2>2, MessageTypes
      <4> QED BY <4>1, Parts DEF HandOK, Hand
    <3> QED BY <3>1, <3>2
  <2>8. QueueOK'
    <3> HIDE DEF q
    <3> QED BY <2>2, <2>5, Parts DEF QueueOK
  <2> QED BY <2>3, <2>6, <2>7, <2>8 DEF IInv
<1> QED BY <1>1, <1>2

(* An item goes back to the buffer it came from, or to nobody.             *)
LEMMA ReturnItemInvariant ==
    ASSUME IInv, NEW w \in Running, ReturnItem(w)  PROVE IInv'
<1> USE CoresAssumption, IdFacts
<1>i. PICK i \in Items : i = p_cm[w]
  BY DEF IInv, HandOK, Hand, ReturnItem
<1>0. /\ w \in Cores /\ i = p_cm[w] /\ i # NoMessage
      /\ msg[i].producer_id = i[1]
      /\ pc' = [pc EXCEPT ![w] = "mailbox"]
      /\ p_cm' = [p_cm EXCEPT ![w] = NoMessage]
      /\ mailbox' = mailbox
  BY <1>i, Parts DEF HandOK, Hand, ReturnItem
\* The other workers keep what they have.
<1>h. /\ pc'[w] = "mailbox" /\ p_cm'[w] = NoMessage
      /\ \A v \in Cores : v # w => pc'[v] = pc[v] /\ p_cm'[v] = p_cm[v]
  BY <1>0, MessageTypes
\* The item came from this core's buffer and goes back there, or stays.
<1>1. \/ /\ i[1] = w
         /\ message_buffer' = [message_buffer EXCEPT ![w] = @ \cup {i}]
         /\ msg' = [msg EXCEPT ![i] = NoMessage]
      \/ UNCHANGED <<message_buffer, msg>>
  BY <1>0 DEF ReturnItem, FromHere
<1>2. \A j \in MessageIds : j # i => msg'[j] = msg[j]
  BY <1>1, MessageTypes
<1>3. TypeOK'
  <2>1. msg' \in [MessageIds -> Message \cup {NoMessage}]
    BY <1>0, <1>1 DEF IInv, TypeOK
  <2>a. message_buffer' \in [Cores -> SUBSET Items]
    <3>1. message_buffer[w] \cup {i} \in SUBSET Items
      BY <1>0 DEF IInv, TypeOK
    <3>2. CASE message_buffer' = [message_buffer EXCEPT ![w] = @ \cup {i}]
      BY <3>1, <3>2, <1>0 DEF IInv, TypeOK
    <3>3. CASE message_buffer' = message_buffer
      BY <3>3 DEF IInv, TypeOK
    <3> QED BY <1>1, <3>2, <3>3
  <2>2. pc' \in [Cores -> PCs] /\ p_cm' \in [Cores -> MessageIds \cup {NoMessage}]
    BY <1>0 DEF IInv, TypeOK, PCs
  <2>3. UNCHANGED <<ret_to, dest, seen, pkts_burst, mailbox, nicVars, stateVars, tableVars>>
    BY DEF ReturnItem
  <2> QED
    BY <2>1, <2>2, <2>3, <2>a, Parts DEF TypeOK, nicVars, stateVars, tableVars
<1>4. ItemOwnedOnce'
  <2>1. FreeInItsBuffer'
    <3>1. ~Queued(i)'
      BY <1>0, Parts DEF QueuedNotHeld, Queued
    <3>6. ~Held(i)'
      BY <1>0, <1>h, Parts DEF HeldOnce, Held
    <3>2. \A j : Queued(j)' <=> Queued(j)
      BY <1>0 DEF Queued
    <3>3. \A j \in Items : Held(j)' => Held(j)
      BY <1>h DEF Held
    <3>4. \A c \in Cores : \A j \in message_buffer'[c] :
             j \in message_buffer[c] \/ (j = i /\ i[1] = c)
      BY <1>0, <1>1, MessageTypes
    <3>5. \A c \in Cores : message_buffer[c] \subseteq Items
      BY MessageTypes
    <3> QED
      BY <3>1, <3>6, <3>2, <3>3, <3>4, <3>5, Parts DEF FreeInItsBuffer
  <2>2. QueuedOnce'
    BY <1>0, Parts DEF QueuedOnce
  <2>3. QueuedNotHeld'
    <3>1. \A c \in Cores : \A k \in DOMAIN mailbox[c] : mailbox[c][k] \in Items
      BY QueuedItems
    <3> QED BY <1>0, <1>h, <3>1, Parts DEF QueuedNotHeld
  <2>4. HeldOnce'
    BY <1>h, Parts DEF HeldOnce
  <2> QED BY <2>1, <2>2, <2>3, <2>4 DEF ItemOwnedOnce
<1>5. HandOK'
  <2> SUFFICES ASSUME NEW v \in Cores  PROVE Hand(v)'
    BY DEF HandOK
  <2>1. CASE v = w
    BY <2>1, <1>h DEF Hand, InHandPCs
  <2>2. CASE v # w
    <3>1. p_cm'[v] = p_cm[v] /\ pc'[v] = pc[v]
      BY <2>2, <1>h
    <3>2. p_cm[v] # NoMessage => p_cm[v] \in MessageIds /\ p_cm[v] # i
      BY <2>2, <1>0, MessageTypes, Parts DEF HeldOnce
    <3>3. p_cm[v] # NoMessage => msg'[p_cm[v]] = msg[p_cm[v]]
      BY <3>2, <1>2
    <3> QED BY <3>1, <3>3, Parts DEF HandOK, Hand
  <2> QED BY <2>1, <2>2
<1>6. QueueOK'
  <2>1. \A c \in Cores : \A k \in DOMAIN mailbox[c] :
           mailbox[c][k] \in MessageIds /\ mailbox[c][k] # i
    BY <1>0, QueuedItems, Parts DEF QueuedNotHeld
  <2> QED BY <1>0, <1>2, <2>1, Parts DEF QueueOK
<1> QED BY <1>3, <1>4, <1>5, <1>6 DEF IInv
(* A step in which w writes no message but the one in its hands and the    *)
(* one on its stack, and keeps, drops or picks up one of these two.        *)
LEMMA OwnMessage ==
    ASSUME IInv, TypeOK', NEW w \in Cores,
           UNCHANGED <<mailbox, message_buffer>>,
           \A v \in Cores : v # w => p_cm'[v] = p_cm[v] /\ pc'[v] = pc[v],
           p_cm'[w] \in {NoMessage, Local(w), p_cm[w]},
           \A j \in MessageIds : j # p_cm[w] /\ j # Local(w) => msg'[j] = msg[j],
           Hand(w)'
    PROVE  IInv'
<1> USE CoresAssumption, IdFacts
\* Nobody else holds either message, and neither stands in a ring.
<1>1. ASSUME NEW v \in Cores, v # w, p_cm[v] # NoMessage
      PROVE  /\ p_cm[v] \in MessageIds
             /\ p_cm[v] # p_cm[w]
             /\ p_cm[v] # Local(w)
  BY <1>1, MessageTypes, Parts DEF HandOK, Hand, HeldOnce
<1>2. ASSUME NEW c \in Cores, NEW k \in DOMAIN mailbox[c]
      PROVE  /\ mailbox[c][k] \in Items
             /\ mailbox[c][k] \in MessageIds
             /\ mailbox[c][k] # p_cm[w]
             /\ mailbox[c][k] # Local(w)
  <2>1. mailbox[c][k] \in Items
    BY <1>2, QueuedItems
  <2>2. mailbox[c][k] # p_cm[w]
    BY <1>2, Parts DEF QueuedNotHeld
  <2> QED BY <2>1, <2>2
<1>3. ItemOwnedOnce'
  <2>1. FreeInItsBuffer'
    <3> SUFFICES ASSUME NEW c \in Cores, NEW j \in message_buffer[c]
                 PROVE  j[1] = c /\ ~Queued(j)' /\ ~Held(j)'
      BY DEF FreeInItsBuffer
    <3>1. j \in Items /\ j[1] = c /\ ~Queued(j) /\ ~Held(j)
      BY MessageTypes, Parts DEF FreeInItsBuffer
    <3>2. ~Queued(j)'
      BY <3>1 DEF Queued
    <3>3. ~Held(j)'
      BY <3>1 DEF Held
    <3> QED BY <3>1, <3>2, <3>3
  <2>2. QueuedOnce'
    BY Parts DEF QueuedOnce
  <2>3. QueuedNotHeld'
    <3> SUFFICES ASSUME NEW c \in Cores, NEW v \in Cores, NEW k \in DOMAIN mailbox[c]
                 PROVE  mailbox[c][k] # p_cm'[v]
      BY DEF QueuedNotHeld
    <3>1. mailbox[c][k] # p_cm[v]
      BY Parts DEF QueuedNotHeld
    <3>2. CASE v = w
      BY <3>1, <3>2, <1>2
    <3>3. CASE v # w
      BY <3>1, <3>3
    <3> QED BY <3>2, <3>3
  <2>4. HeldOnce'
    <3> SUFFICES ASSUME NEW u \in Cores, NEW v \in Cores,
                        p_cm'[u] = p_cm'[v], p_cm'[u] # NoMessage
                 PROVE  u = v
      BY DEF HeldOnce
    <3>1. CASE u # w /\ v # w
      <4>1. p_cm[u] = p_cm[v] /\ p_cm[u] # NoMessage
        BY <3>1
      <4>2. HeldOnce
        BY Parts
      <4> QED BY <4>1, <4>2, Zenon DEF HeldOnce
    <3>2. CASE u = w \/ v = w
      BY <3>2, <1>1
    <3> QED BY <3>1, <3>2
  <2> QED BY <2>1, <2>2, <2>3, <2>4 DEF ItemOwnedOnce
<1>4. HandOK'
  <2> SUFFICES ASSUME NEW v \in Cores, v # w  PROVE Hand(v)'
    BY DEF HandOK
  <2>1. p_cm[v] # NoMessage => msg'[p_cm[v]] = msg[p_cm[v]]
    BY <1>1
  <2> QED BY <2>1, Parts DEF HandOK, Hand
<1>5. QueueOK'
  <2>1. \A c \in Cores : \A k \in DOMAIN mailbox[c] : msg'[mailbox[c][k]] = msg[mailbox[c][k]]
    BY <1>2
  <2> QED BY <2>1, Parts DEF QueueOK
<1> QED BY <1>3, <1>4, <1>5 DEF IInv

(* A packet fills the message on the stack of its worker.                  *)
LEMMA NextPacketInvariant ==
    ASSUME IInv, NEW w \in Running, NextPacket(w)  PROVE IInv'
<1> USE CoresAssumption, IdFacts
<1>0. w \in Cores /\ pkts_burst[w] \in Seq(Packets)
  BY DEF IInv, TypeOK
<1>1. CASE pkts_burst[w] = <<>>
  <2>1. TypeOK' /\ UNCHANGED <<p_cm, messageVars>>
    BY <1>1 DEF IInv, TypeOK, NextPacket, PCs, messageVars, nicVars, stateVars, tableVars
  <2>2. \A v \in Cores : pc'[v] \in InHandPCs <=> pc[v] \in InHandPCs
    BY <1>1 DEF IInv, TypeOK, NextPacket, InHandPCs
  <2>3. \A v \in Cores : pc'[v] \in {"enqueue", "return"} => p_cm[v] \in Items
    BY <1>1 DEF IInv, TypeOK, HandOK, Hand, NextPacket
  <2> QED BY <2>1, <2>2, <2>3, MessagesUnmoved
<1>2. CASE pkts_burst[w] # <<>>
  <2>1. PICK p \in Packets : p = Head(pkts_burst[w])
    BY <1>0, <1>2, HeadTailProperties
  <2>2. Tail(pkts_burst[w]) \in Seq(Packets)
    BY <1>0, <1>2, HeadTailProperties
  <2>3. PICK m \in Message :
           m = [m |-> p, producer_id |-> LocalProducer,
                action_id |-> buckets[w][RssHash[p]]]
    <3>1. buckets[w][RssHash[p]] \in Actions
      <4>1. RssHash[p] \in Buckets /\ buckets[w] \in [Buckets -> Actions]
        BY <1>0, TrafficAssumption
      <4> QED BY <4>1
    <3> QED BY <3>1 DEF Message
  <2>4. /\ pc' = [pc EXCEPT ![w] = "handle"]
        /\ p_cm' = [p_cm EXCEPT ![w] = Local(w)]
        /\ pkts_burst' = [pkts_burst EXCEPT ![w] = Tail(pkts_burst[w])]
        /\ msg' = [msg EXCEPT ![Local(w)] = m]
    BY <1>2, <2>1, <2>3 DEF NextPacket, StackMessage, IInv, TypeOK
  <2>5. TypeOK'
    <3>1. /\ pc' \in [Cores -> PCs]
          /\ p_cm' \in [Cores -> MessageIds \cup {NoMessage}]
          /\ pkts_burst' \in [Cores -> Seq(Packets)]
          /\ msg' \in [MessageIds -> Message \cup {NoMessage}]
      BY <1>0, <2>2, <2>4 DEF IInv, TypeOK, PCs
    <3> QED
      BY <3>1, <1>2 DEF IInv, TypeOK, NextPacket, nicVars, stateVars, tableVars
  <2>6. Hand(w)'
    BY <1>0, <2>3, <2>4 DEF IInv, TypeOK, Hand, InHandPCs
  <2>7. UNCHANGED <<mailbox, message_buffer>>
    BY DEF NextPacket
  <2>8. \A v \in Cores : v # w => p_cm'[v] = p_cm[v] /\ pc'[v] = pc[v]
    BY <2>4 DEF IInv, TypeOK
  <2>9. /\ p_cm'[w] = Local(w)
        /\ \A j \in MessageIds : j # Local(w) => msg'[j] = msg[j]
    BY <1>0, <2>4 DEF IInv, TypeOK
  <2> QED BY <1>0, <2>5, <2>6, <2>7, <2>8, <2>9, OwnMessage
<1> QED BY <1>1, <1>2

(* A message in hand that claims to be on the stack is on the stack.       *)
LEMMA LocalInHand ==
    ASSUME IInv, NEW w \in Running, pc[w] \in InHandPCs
    PROVE  /\ w \in Cores
           /\ p_cm[w] \in MessageIds /\ p_cm[w] # NoMessage
           /\ msg[p_cm[w]] \in Message
           /\ Action(w) \in Actions
           /\ msg[p_cm[w]].producer_id = LocalProducer <=> p_cm[w] = Local(w)
           /\ p_cm[w] # Local(w) => p_cm[w] \in Items /\ msg[p_cm[w]].producer_id = p_cm[w][1]
<1> USE CoresAssumption, IdFacts
<1>1. w \in Cores /\ p_cm[w] # NoMessage /\ Hand(w)
  BY DEF IInv, HandOK, Hand
<1>2. p_cm[w] \in MessageIds /\ msg[p_cm[w]] \in Message
  BY <1>1 DEF IInv, TypeOK, Hand
<1>3. Action(w) \in Actions
  BY <1>2 DEF Action, Message
<1> QED BY <1>1, <1>2, <1>3 DEF Hand

(* A packet that is freed empties the message on the stack.                *)
LEMMA FreePacketInvariant ==
    ASSUME IInv, NEW w \in Running, FreePacket(w)  PROVE IInv'
<1> USE CoresAssumption, IdFacts
<1>1. /\ w \in Cores /\ p_cm[w] = Local(w)
      /\ msg[p_cm[w]] \in Message
  BY LocalInHand DEF FreePacket, InHandPCs
<1>2. TypeOK'
  <2>1. msg[p_cm[w]].m \in Packets
    BY <1>1 DEF Message
  <2>2. /\ pc' \in [Cores -> PCs]
        /\ p_cm' \in [Cores -> MessageIds \cup {NoMessage}]
        /\ msg' \in [MessageIds -> Message \cup {NoMessage}]
        /\ freed' \in SUBSET Packets
    BY <1>1, <2>1 DEF IInv, TypeOK, FreePacket, PCs
  <2> QED BY <2>2 DEF IInv, TypeOK, FreePacket, stateVars, tableVars
<1>3. pc'[w] \in {"mailbox", "next"} /\ p_cm'[w] = NoMessage
  BY <1>1 DEF IInv, TypeOK, FreePacket
<1>4. Hand(w)'
  BY <1>1, <1>3 DEF Hand, InHandPCs
<1>5. \A v \in Cores : v # w => p_cm'[v] = p_cm[v] /\ pc'[v] = pc[v]
  BY DEF IInv, TypeOK, FreePacket
<1>6. \A j \in MessageIds : j # p_cm[w] => msg'[j] = msg[j]
  BY DEF IInv, TypeOK, FreePacket
<1> QED BY <1>1, <1>2, <1>3, <1>4, <1>5, <1>6, OwnMessage DEF FreePacket
(* Rewriting one field of a message.                                       *)
LEMMA MessageExcept ==
    ASSUME NEW r \in Message
    PROVE  /\ \A a \in Actions :
                [r EXCEPT !.action_id = a] \in Message
                /\ [r EXCEPT !.action_id = a].producer_id = r.producer_id
           /\ \A c \in Cores :
                [r EXCEPT !.producer_id = c] \in Message
                /\ [r EXCEPT !.producer_id = c].producer_id = c
BY DEF Message

(* A function that names the next action of the message in hand.           *)
LEMMA NextActionInvariant ==
    ASSUME IInv, NEW w \in Running, pc[w] = "run",
           StateOf[Action(w)] \in States,
           NEW i \in 0..2, NextAction(w, i),
           counter' \in [States -> Int], n_message' \in [States -> Int]
    PROVE  IInv'
<1> USE CoresAssumption, IdFacts
<1>1. /\ w \in Cores /\ p_cm[w] \in MessageIds /\ p_cm[w] # NoMessage
      /\ msg[p_cm[w]] \in Message
      /\ p_cm[w] = Local(w) => msg[p_cm[w]].producer_id = LocalProducer
      /\ p_cm[w] # Local(w) => p_cm[w] \in Items /\ msg[p_cm[w]].producer_id = p_cm[w][1]
  BY LocalInHand DEF InHandPCs
<1>2. PICK a \in Actions : a = simple_path[StateOf[Action(w)]][i]
  BY TableAssumption
<1>3. PICK m \in Message : /\ m = [msg[p_cm[w]] EXCEPT !.action_id = a]
                           /\ m.producer_id = msg[p_cm[w]].producer_id
  BY <1>1, MessageExcept, ZenonT(40)
<1>4. msg' = [msg EXCEPT ![p_cm[w]] = m]
  BY <1>2, <1>3 DEF NextAction
<1>5. TypeOK'
  <2>1. msg' \in [MessageIds -> Message \cup {NoMessage}]
    BY <1>1, <1>4 DEF IInv, TypeOK
  <2>2. pc' \in [Cores -> PCs] /\ seen' \in [Cores -> Int]
    BY <1>1, MessageTypes, Parts, SMTT(30) DEF NextAction, TypeOK, PCs
  <2> QED
    BY <2>1, <2>2 DEF IInv, TypeOK, NextAction, nicVars, tableVars
<1>6. pc'[w] = "handle" /\ p_cm'[w] = p_cm[w] /\ msg'[p_cm[w]] = m
  BY <1>1, <1>4 DEF IInv, TypeOK, NextAction
<1>7. Hand(w)'
  BY <1>1, <1>3, <1>6 DEF Hand, InHandPCs
<1>8. \A v \in Cores : v # w => p_cm'[v] = p_cm[v] /\ pc'[v] = pc[v]
  BY DEF IInv, TypeOK, NextAction
<1>9. \A j \in MessageIds : j # p_cm[w] => msg'[j] = msg[j]
  BY <1>4 DEF IInv, TypeOK
<1>10. UNCHANGED <<mailbox, message_buffer>>
  BY DEF NextAction
<1> QED BY <1>1, <1>5, <1>6, <1>7, <1>8, <1>9, <1>10, OwnMessage

(* The classifier keeps its counter an integer and names a path.           *)
LEMMA ClassifierType ==
    ASSUME NEW f \in Int, NEW n \in Int
    PROVE  ClassifierPath(f, n) \in 0..2 /\ ClassifierCounter(f, n) \in Int
<1>1. ClassifierPath(f, n) \in 0..2
  BY DEF ClassifierPath, ControlPath, DataPath
<1>2. ClassifierCounter(f, n) \in Int
  BY DEF ClassifierCounter
<1> QED BY <1>1, <1>2

(* A function rewrites only the message in hand.                           *)
LEMMA FunctionInvariant ==
    ASSUME IInv, NEW w \in Running, Classify(w) \/ RunControl(w) \/ RunData(w)
    PROVE  IInv'
<1> USE CoresAssumption
<1>1. w \in Cores /\ Action(w) \in Actions /\ seen[w] \in Int /\ pc[w] = "run"
  <2>1. pc[w] = "run"
    BY DEF Classify, RunControl, RunData
  <2> QED BY <2>1, LocalInHand DEF IInv, TypeOK, InHandPCs
<1>2. StateOf[Action(w)] \in States
  <2>1. Kind[Action(w)] # "packet_out"
    BY DEF Classify, RunControl, RunData
  <2> QED BY <1>1, <2>1, TableAssumption
<1>3. counter \in [States -> Int] /\ n_message \in [States -> Int]
  BY DEF IInv, TypeOK
<1>4. CASE Classify(w)
  <2>1. control_frequency[StateOf[Action(w)]] \in Int
    BY <1>2, TableAssumption
  <2>2. counter' \in [States -> Int] /\ n_message' \in [States -> Int]
    BY <1>1, <1>2, <1>3, <1>4, <2>1, ClassifierType DEF Classify
  <2>3. ClassifierPath(control_frequency[StateOf[Action(w)]], seen[w]) \in 0..2
    BY <1>1, <2>1, ClassifierType
  <2> QED BY <1>1, <1>2, <1>4, <2>2, <2>3, NextActionInvariant DEF Classify
<1>5. CASE RunControl(w)
  <2>1. counter' \in [States -> Int] /\ n_message' \in [States -> Int]
    BY <1>1, <1>2, <1>3, <1>5 DEF RunControl
  <2>2. NextAction(w, 0) /\ 0 \in 0..2
    BY <1>5 DEF RunControl, DataPath
  <2> QED BY <1>1, <1>2, <2>1, <2>2, NextActionInvariant
<1>6. CASE RunData(w)
  <2>1. counter' \in [States -> Int] /\ n_message' \in [States -> Int]
    BY <1>1, <1>2, <1>3, <1>6 DEF RunData
  <2> QED BY <1>1, <1>2, <1>6, <2>1, NextActionInvariant DEF RunData, OutPath
<1> QED BY <1>4, <1>5, <1>6

(* packet_out empties the stack, or hands the item on to be returned.      *)
LEMMA TransmitInvariant ==
    ASSUME IInv, NEW w \in Running, Transmit(w)  PROVE IInv'
<1> USE CoresAssumption, IdFacts
<1>1. /\ w \in Cores /\ p_cm[w] \in MessageIds /\ p_cm[w] # NoMessage
      /\ msg[p_cm[w]] \in Message /\ Action(w) \in Actions
      /\ p_cm[w] # Local(w) => p_cm[w] \in Items /\ msg[p_cm[w]].producer_id = p_cm[w][1]
  BY LocalInHand DEF Transmit, InHandPCs
<1>2. PICK s \in Cores : s = StateOf[Action(w)]
  BY <1>1, TableAssumption DEF Transmit
<1>3. PICK buf \in Seq(Packets) : buf = Append(txb[s], msg[p_cm[w]].m)
  <2>1. msg[p_cm[w]].m \in Packets
    BY <1>1 DEF Message
  <2>2. txb[s] \in Seq(Packets)
    BY DEF IInv, TypeOK
  <2> QED BY <2>1, <2>2, AppendProperties
<1>a. \/ txb' = [txb EXCEPT ![s] = buf] /\ UNCHANGED <<sent, freed>>
      \/ txb' = [txb EXCEPT ![s] = <<>>] /\ \E k \in 0..Len(buf) : Leave(buf, k)
  BY <1>2, <1>3 DEF Transmit
<1>b. /\ txb' \in [Cores -> Seq(Packets)]
      /\ sent' \in SUBSET Packets /\ freed' \in SUBSET Packets
  <2>0. /\ txb \in [Cores -> Seq(Packets)]
        /\ sent \in SUBSET Packets /\ freed \in SUBSET Packets
    BY DEF IInv, TypeOK
  <2>1. CASE txb' = [txb EXCEPT ![s] = buf] /\ UNCHANGED <<sent, freed>>
    BY <2>0, <2>1
  <2>2. CASE txb' = [txb EXCEPT ![s] = <<>>] /\ \E k \in 0..Len(buf) : Leave(buf, k)
    <3>1. sent' \in SUBSET Packets /\ freed' \in SUBSET Packets
      BY <2>0, <2>2, LeaveType
    <3>2. <<>> \in Seq(Packets)
      OBVIOUS
    <3> QED BY <2>0, <2>2, <3>1, <3>2
  <2> QED BY <1>a, <2>1, <2>2
<1>4. pc' \in [Cores -> PCs] /\ p_cm' \in [Cores -> MessageIds \cup {NoMessage}]
      /\ msg' \in [MessageIds -> Message \cup {NoMessage}]
      /\ seen' \in [Cores -> Int]
  <2>1. seen' \in [Cores -> Int]
    BY DEF Transmit, IInv, TypeOK
  <2>2. CASE p_cm[w] = Local(w)
    <3>1. /\ pc' = [pc EXCEPT ![w] = "next"]
          /\ p_cm' = [p_cm EXCEPT ![w] = NoMessage]
          /\ msg' = [msg EXCEPT ![p_cm[w]] = NoMessage]
      BY <2>2 DEF Transmit
    <3> QED BY <1>1, <2>1, <3>1 DEF IInv, TypeOK, PCs
  <2>3. CASE p_cm[w] # Local(w)
    <3>1. /\ pc' = [pc EXCEPT ![w] = "return"]
          /\ UNCHANGED <<p_cm, msg>>
      BY <2>3 DEF Transmit
    <3> QED BY <1>1, <2>1, <3>1 DEF IInv, TypeOK, PCs
  <2> QED BY <2>2, <2>3
<1>5. TypeOK'
  BY <1>b, <1>4 DEF Transmit, IInv, TypeOK, stateVars, tableVars
<1>6. Hand(w)' /\ p_cm'[w] \in {NoMessage, p_cm[w]}
  <2>1. CASE p_cm[w] = Local(w)
    <3>1. pc'[w] = "next" /\ p_cm'[w] = NoMessage
      BY <1>1, <2>1 DEF Transmit, IInv, TypeOK
    <3> QED BY <1>1, <3>1 DEF Hand, InHandPCs
  <2>2. CASE p_cm[w] # Local(w)
    <3>1. pc'[w] = "return" /\ p_cm'[w] = p_cm[w] /\ msg' = msg
      BY <1>1, <2>2 DEF Transmit, IInv, TypeOK
    <3> QED BY <1>1, <2>2, <3>1 DEF Hand, InHandPCs
  <2> QED BY <2>1, <2>2
<1>7. \A v \in Cores : v # w => p_cm'[v] = p_cm[v] /\ pc'[v] = pc[v]
  BY MessageTypes, SMTT(30) DEF Transmit
<1>8. \A j \in MessageIds : j # p_cm[w] => msg'[j] = msg[j]
  BY DEF IInv, TypeOK, Transmit
<1>9. UNCHANGED <<mailbox, message_buffer>>
  BY DEF Transmit
<1> QED BY <1>1, <1>5, <1>6, <1>7, <1>8, <1>9, OwnMessage
(* The message on the stack moves into an item of w's own buffer.          *)
LEMMA CopyInvariant ==
    ASSUME IInv, NEW w \in Running, CopyToItem(w)  PROVE IInv'
<1> USE CoresAssumption, IdFacts
<1>1. /\ w \in Cores /\ p_cm[w] = Local(w) /\ msg[p_cm[w]] \in Message
      /\ Action(w) \in Actions
  BY LocalInHand DEF CopyToItem, InHandPCs
<1>2. PICK i \in message_buffer[w] :
         /\ message_buffer' = [message_buffer EXCEPT ![w] = @ \ {i}]
         /\ msg' = [msg EXCEPT ![i] = [msg[p_cm[w]] EXCEPT !.producer_id = w],
                              ![p_cm[w]] = NoMessage]
         /\ p_cm' = [p_cm EXCEPT ![w] = i]
  BY DEF CopyToItem, FreeItems, BufferWithout
<1>3. i \in Items /\ i \in MessageIds /\ i # Local(w) /\ i # NoMessage
      /\ i[1] = w /\ ~Queued(i) /\ ~Held(i)
  BY <1>1, <1>2 DEF IInv, TypeOK, ItemOwnedOnce, FreeInItsBuffer
<1>4. PICK m \in Message : /\ m = [msg[p_cm[w]] EXCEPT !.producer_id = w]
                           /\ m.producer_id = w
  BY <1>1, MessageExcept, ZenonT(40)
<1>5. /\ \A j \in MessageIds : j # i /\ j # Local(w) => msg'[j] = msg[j]
      /\ msg'[i] = m
      /\ msg' \in [MessageIds -> Message \cup {NoMessage}]
  BY <1>1, <1>2, <1>3, <1>4, MessageTypes, ZenonT(40)
<1>6. pc' = [pc EXCEPT ![w] = "enqueue"] /\ mailbox' = mailbox
  BY DEF CopyToItem
<1>7. TypeOK'
  <2>1. core_id[Action(w)] \in Cores
    BY <1>1 DEF IInv, TypeOK
  <2>2. dest' \in [Cores -> Cores] /\ pc' \in [Cores -> PCs]
    <3>1. dest' = [dest EXCEPT ![w] = core_id[Action(w)]]
      BY DEF CopyToItem
    <3>2. dest' \in [Cores -> Cores]
      BY <2>1, <3>1 DEF IInv, TypeOK
    <3>3. pc' \in [Cores -> PCs]
      BY <1>6 DEF IInv, TypeOK, PCs
    <3> QED BY <3>2, <3>3
  <2>3. message_buffer' \in [Cores -> SUBSET Items]
    <3>1. message_buffer[w] \ {i} \in SUBSET Items
      BY <1>1 DEF IInv, TypeOK
    <3> QED BY <1>2, <3>1 DEF IInv, TypeOK
  <2>4. p_cm' \in [Cores -> MessageIds \cup {NoMessage}]
    BY <1>2, <1>3 DEF IInv, TypeOK
  <2> QED
    BY <1>5, <2>2, <2>3, <2>4 DEF CopyToItem, IInv, TypeOK, nicVars, stateVars, tableVars
<1>8. \A v \in Cores : /\ v # w => p_cm'[v] = p_cm[v] /\ pc'[v] = pc[v]
                       /\ v = w => p_cm'[v] = i /\ pc'[v] = "enqueue"
  BY <1>2, <1>6 DEF IInv, TypeOK
<1>9. ItemOwnedOnce'
  <2>1. FreeInItsBuffer'
    <3>1. \A c \in Cores : \A j \in message_buffer'[c] : j \in message_buffer[c] /\ j # i
      <4> SUFFICES ASSUME NEW c \in Cores, NEW j \in message_buffer'[c]
                   PROVE  j \in message_buffer[c] /\ j # i
        OBVIOUS
      <4>1. CASE c = w
        BY <4>1, <1>1, <1>2 DEF IInv, TypeOK
      <4>2. CASE c # w
        <5>1. j \in message_buffer[c]
          BY <4>2, <1>2 DEF IInv, TypeOK
        <5>2. j[1] = c
          BY <5>1 DEF IInv, ItemOwnedOnce, FreeInItsBuffer
        <5> QED BY <5>1, <5>2, <4>2, <1>3
      <4> QED BY <4>1, <4>2
    <3>2. \A j : Queued(j)' <=> Queued(j)
      BY <1>6 DEF Queued
    <3>3. \A j : Held(j)' => Held(j) \/ j = i
      BY <1>8 DEF Held
    <3> QED BY <3>1, <3>2, <3>3 DEF IInv, ItemOwnedOnce, FreeInItsBuffer
  <2>2. QueuedOnce'
    BY <1>6 DEF IInv, ItemOwnedOnce, QueuedOnce
  <2>3. QueuedNotHeld'
    BY <1>3, <1>6, <1>8 DEF IInv, ItemOwnedOnce, QueuedNotHeld, Queued
  <2>4. HeldOnce'
    BY <1>3, <1>8 DEF IInv, ItemOwnedOnce, HeldOnce, Held
  <2> QED BY <2>1, <2>2, <2>3, <2>4 DEF ItemOwnedOnce
<1>10. HandOK'
  <2> SUFFICES ASSUME NEW v \in Cores  PROVE Hand(v)'
    BY DEF HandOK
  <2>1. CASE v = w
    <3>1. p_cm'[w] = i /\ pc'[w] = "enqueue"
      BY <1>1, <1>8
    <3>2. msg'[i] \in Message /\ msg'[i].producer_id = i[1]
      BY <1>3, <1>4, <1>5
    <3> QED BY <2>1, <3>1, <3>2, <1>3 DEF Hand, InHandPCs
  <2>2. CASE v # w
    <3>1. p_cm[v] # NoMessage => p_cm[v] \in MessageIds /\ p_cm[v] # i /\ p_cm[v] # Local(w)
      BY <1>1, <1>3, <2>2 DEF IInv, TypeOK, HandOK, Hand, Held
    <3>2. p_cm[v] # NoMessage => msg'[p_cm[v]] = msg[p_cm[v]]
      BY <3>1, <1>5
    <3> QED BY <2>2, <1>8, <3>2 DEF IInv, HandOK, Hand
  <2> QED BY <2>1, <2>2
<1>11. QueueOK'
  <2>1. \A c \in Cores : \A k \in DOMAIN mailbox[c] : mailbox[c][k] \in Items
    BY QueuedItems
  <2>2. \A c \in Cores : \A k \in DOMAIN mailbox[c] :
           msg'[mailbox[c][k]] = msg[mailbox[c][k]]
    BY <1>1, <1>3, <1>5, <2>1 DEF Queued
  <2> QED BY <1>6, <2>2 DEF IInv, QueueOK
<1> QED BY <1>7, <1>9, <1>10, <1>11 DEF IInv

(* The item in hand goes to the tail of another core's mailbox.            *)
LEMMA EnqueueInvariant ==
    ASSUME IInv, NEW w \in Running, Enqueue(w)  PROVE IInv'
<1> USE CoresAssumption, IdFacts
<1>0. w \in Cores
  OBVIOUS
<1>1. PICK d \in Cores : d = dest[w]
  BY DEF IInv, TypeOK
<1>2. PICK i \in Items : i = p_cm[w]
  BY DEF IInv, HandOK, Hand, Enqueue
<1>3. /\ i # NoMessage /\ msg[i] \in Message /\ msg[i].producer_id = i[1]
  BY <1>0, <1>2 DEF IInv, HandOK, Hand, Enqueue
<1>4. /\ mailbox' = [mailbox EXCEPT ![d] = Append(mailbox[d], i)]
      /\ p_cm' = [p_cm EXCEPT ![w] = NoMessage]
      /\ UNCHANGED <<msg, message_buffer>>
  BY <1>1, <1>2 DEF Enqueue, IInv, TypeOK
<1>5. mailbox[d] \in Seq(Items) /\ Append(mailbox[d], i) \in Seq(Items)
  BY DEF IInv, TypeOK
<1>6. /\ \A v \in Cores : v # w => p_cm'[v] = p_cm[v] /\ pc'[v] = pc[v]
      /\ p_cm'[w] = NoMessage /\ pc'[w] \in {"mailbox", "next"}
  BY <1>0, <1>4 DEF Enqueue, IInv, TypeOK
<1>7. TypeOK'
  <2>1. mailbox' \in [Cores -> Seq(Items)] /\ p_cm' \in [Cores -> MessageIds \cup {NoMessage}]
    BY <1>4, <1>5 DEF IInv, TypeOK
  <2>2. pc' \in [Cores -> PCs]
    BY <1>0 DEF IInv, TypeOK, Enqueue, PCs
  <2> QED
    BY <2>1, <2>2 DEF IInv, TypeOK, Enqueue, nicVars, stateVars, tableVars
\* Positions keep what they held; the only new one holds i.
<1>8. \A c \in Cores : \A k \in DOMAIN mailbox'[c] :
         \/ k \in DOMAIN mailbox[c] /\ mailbox'[c][k] = mailbox[c][k]
         \/ c = d /\ k = Len(mailbox[d]) + 1 /\ mailbox'[c][k] = i
  <2> SUFFICES ASSUME NEW c \in Cores, NEW k \in DOMAIN mailbox'[c]
               PROVE  \/ k \in DOMAIN mailbox[c] /\ mailbox'[c][k] = mailbox[c][k]
                      \/ c = d /\ k = Len(mailbox[d]) + 1 /\ mailbox'[c][k] = i
    OBVIOUS
  <2>1. CASE c = d
    <3>1. mailbox'[c] = Append(mailbox[d], i)
      BY <1>4, <2>1 DEF IInv, TypeOK
    <3> QED BY <1>5, <2>1, <3>1
  <2>2. CASE c # d
    BY <1>4, <2>2 DEF IInv, TypeOK
  <2> QED BY <2>1, <2>2
<1>9. ~Queued(i) /\ i \notin message_buffer[i[1]] /\ \A v \in Cores : v # w => p_cm[v] # i
  <2>1. ~Queued(i)
    BY <1>0, <1>2 DEF IInv, ItemOwnedOnce, QueuedNotHeld, Queued
  <2>2. i \notin message_buffer[i[1]]
    <3>1. Held(i) /\ i[1] \in Cores
      BY <1>0, <1>2 DEF Held
    <3> QED BY <3>1 DEF IInv, ItemOwnedOnce, FreeInItsBuffer
  <2>3. \A v \in Cores : v # w => p_cm[v] # i
    BY <1>0, <1>2, <1>3 DEF IInv, ItemOwnedOnce, HeldOnce
  <2> QED BY <2>1, <2>2, <2>3
<1>10. ItemOwnedOnce'
  <2>1. FreeInItsBuffer'
    <3> SUFFICES ASSUME NEW c \in Cores, NEW j \in message_buffer[c]
                 PROVE  j[1] = c /\ ~Queued(j)' /\ ~Held(j)'
      BY <1>4 DEF FreeInItsBuffer
    <3>1. j \in Items /\ j[1] = c /\ ~Queued(j) /\ ~Held(j)
      BY DEF IInv, TypeOK, ItemOwnedOnce, FreeInItsBuffer
    <3>2. j # i
      BY <3>1, <1>9
    <3>3. ~Queued(j)'
      BY <3>1, <3>2, <1>8 DEF Queued
    <3>4. ~Held(j)'
      BY <3>1, <1>6 DEF Held
    <3> QED BY <3>1, <3>3, <3>4
  <2>2. QueuedOnce'
    <3> SUFFICES ASSUME NEW b \in Cores, NEW c \in Cores,
                        NEW j \in DOMAIN mailbox'[b], NEW k \in DOMAIN mailbox'[c],
                        mailbox'[b][j] = mailbox'[c][k]
                 PROVE  b = c /\ j = k
      BY DEF QueuedOnce
    <3>1. QueuedOnce
      BY DEF IInv, ItemOwnedOnce
    <3>2. CASE j \in DOMAIN mailbox[b] /\ mailbox'[b][j] = mailbox[b][j]
      <4>1. k \in DOMAIN mailbox[c] /\ mailbox'[c][k] = mailbox[c][k]
        <5>1. mailbox[b][j] # i
          BY <3>2, <1>9 DEF Queued
        <5>2. mailbox'[c][k] # i
          BY <3>2, <5>1
        <5> QED BY <5>2, <1>8
      <4>2. mailbox[b][j] = mailbox[c][k]
        BY <3>2, <4>1
      <4>3. PICK j1 \in DOMAIN mailbox[b] : j1 = j /\ mailbox[b][j1] = mailbox[b][j]
        BY <3>2
      <4>4. PICK k1 \in DOMAIN mailbox[c] : k1 = k /\ mailbox[c][k1] = mailbox[c][k]
        BY <4>1
      <4>5. mailbox[b][j1] = mailbox[c][k1]
        BY <4>2, <4>3, <4>4
      <4>6. b = c /\ j1 = k1
        BY <3>1, <4>5, OnePosition
      <4> QED BY <4>3, <4>4, <4>6
    <3>3. CASE b = d /\ j = Len(mailbox[d]) + 1 /\ mailbox'[b][j] = i
      BY <3>3, <1>8, <1>9 DEF Queued
    <3> QED BY <1>8, <3>2, <3>3
  <2>3. QueuedNotHeld'
    <3>1. \A c, v \in Cores : \A k \in DOMAIN mailbox'[c] : v # w => mailbox'[c][k] # p_cm'[v]
      BY <1>6, <1>8, <1>9 DEF IInv, ItemOwnedOnce, QueuedNotHeld
    <3>2. \A c \in Cores : \A k \in DOMAIN mailbox'[c] : mailbox'[c][k] # NoMessage
      BY QueuedItems, <1>3, <1>8
    <3> QED BY <3>1, <3>2, <1>6 DEF QueuedNotHeld
  <2>4. HeldOnce'
    BY <1>6 DEF IInv, ItemOwnedOnce, HeldOnce
  <2> QED BY <2>1, <2>2, <2>3, <2>4 DEF ItemOwnedOnce
<1>11. HandOK'
  <2> SUFFICES ASSUME NEW v \in Cores  PROVE Hand(v)'
    BY DEF HandOK
  <2>1. CASE v = w
    BY <2>1, <1>6 DEF Hand, InHandPCs
  <2>2. CASE v # w
    BY <2>2, <1>4, <1>6 DEF IInv, HandOK, Hand
  <2> QED BY <2>1, <2>2
<1>12. QueueOK'
  BY <1>3, <1>4, <1>8 DEF IInv, QueueOK
<1> QED BY <1>7, <1>10, <1>11, <1>12 DEF IInv
-----------------------------------------------------------------------------
(* Steps around the workers *)

(* An arrival touches no message.                                          *)
LEMMA ArriveInvariant ==
    ASSUME IInv, NEW p \in Packets, Arrive(p)  PROVE IInv'
<1>1. TypeOK'
  <2>1. PICK c \in Cores : c = reta[RssHash[p]]
    BY TrafficAssumption
  <2>2. rxq' = [rxq EXCEPT ![c] = Append(rxq[c], p)]
    BY <2>1 DEF Arrive
  <2>3. rxq[c] \in Seq(Packets)
    BY DEF IInv, TypeOK
  <2>4. Append(rxq[c], p) \in Seq(Packets)
    BY <2>3, AppendProperties
  <2>5. rxq' \in [Cores -> Seq(Packets)]
    BY <2>2, <2>4 DEF IInv, TypeOK
  <2>6. wire' \in SUBSET Packets
    BY DEF IInv, TypeOK, Arrive
  <2> QED
    BY <2>5, <2>6 DEF IInv, TypeOK, Arrive, loopVars, messageVars, stateVars, tableVars
<1>2. UNCHANGED <<pc, p_cm, messageVars>>
  BY DEF Arrive, loopVars
<1>3. \A v \in Cores : pc'[v] \in {"enqueue", "return"} => p_cm[v] \in Items
  BY <1>2 DEF IInv, HandOK, Hand
<1> QED BY <1>1, <1>2, <1>3, MessagesUnmoved

(* Nor do the timer, a migration or the signal.                            *)
LEMMA TableStepInvariant ==
    ASSUME IInv,
           \/ \E a \in Actions, c \in Cores : Migrate(a, c)
           \/ DrainTick \/ Quit \/ UNCHANGED vars
    PROVE  IInv'
<1>1. UNCHANGED <<loopVars, messageVars, nicVars, stateVars>>
  BY DEF Migrate, DrainTick, Quit, vars
<1>2. core_id' \in [Actions -> Cores] /\ drain_due' \in BOOLEAN /\ dp_quit' \in BOOLEAN
  BY DEF IInv, TypeOK, Migrate, DrainTick, Quit, vars, tableVars
<1>3. TypeOK'
  BY <1>1, <1>2 DEF IInv, TypeOK, loopVars, messageVars, nicVars, stateVars
<1>4. UNCHANGED <<pc, p_cm>>
  BY <1>1 DEF loopVars
<1>5. \A v \in Cores : pc'[v] \in {"enqueue", "return"} => p_cm[v] \in Items
  BY <1>4 DEF IInv, HandOK, Hand
<1> QED BY <1>1, <1>3, <1>4, <1>5, MessagesUnmoved

(* Every step of a worker keeps the invariant.                             *)
LEMMA StepInvariant ==
    ASSUME IInv, NEW w \in Running, Step(w)  PROVE IInv'
BY LoopTestInvariant, FlushInvariant, DequeueInvariant, ReturnItemInvariant,
   RxBurstInvariant, NextPacketInvariant, SelectActionInvariant, CopyInvariant,
   FreePacketInvariant, PassItemInvariant, EnqueueInvariant, FunctionInvariant,
   TransmitInvariant DEF Step, Run
-----------------------------------------------------------------------------
(* The invariant and what follows from it *)

(* And so does every step.                                                 *)
LEMMA NextInvariant == IInv /\ [Next]_vars => IInv'
<1> SUFFICES ASSUME IInv, [Next]_vars  PROVE IInv'
  OBVIOUS
<1>1. CASE \E w \in Running : Step(w)
  BY <1>1, StepInvariant
<1>2. CASE \E p \in Packets : Arrive(p)
  BY <1>2, ArriveInvariant
<1>3. CASE \E m \in Migrations : Migrate(m[1], m[2])
  <2>1. \A m \in Migrations : m[1] \in Actions /\ m[2] \in Cores
    BY TableAssumption
  <2> QED BY <1>3, <2>1, TableStepInvariant
<1>4. CASE DrainTick \/ Quit \/ Exit \/ UNCHANGED vars
  BY <1>4, TableStepInvariant DEF Exit
<1> QED BY <1>1, <1>2, <1>3, <1>4 DEF Next

(* The inductive invariant holds throughout.                               *)
THEOREM Invariant == Spec => []IInv
<1>1. Init => IInv
  BY InitInvariant
<1>2. IInv /\ [Next]_vars => IInv'
  BY NextInvariant
<1> QED BY <1>1, <1>2, PTL DEF Spec

(* Every variable of the worker loop keeps its type, for any table and any *)
(* placement, migrations included.                                         *)
THEOREM TypeCorrect == Spec => []TypeOK
<1>1. IInv => TypeOK
  BY DEF IInv
<1> QED BY <1>1, Invariant, PTL

(* A message item is never owned twice (worker.h, event_handler and        *)
(* worker_action; zbuffer and mailbox operations).                         *)
THEOREM ItemsOwnedOnce == Spec => []ItemOwnedOnce
<1>1. IInv => ItemOwnedOnce
  BY DEF IInv
<1> QED BY <1>1, Invariant, PTL

-----------------------------------------------------------------------------
(* States are exclusive where the placement keeps their actions together   *)

(* A worker's step leaves alone what the other workers have in their hands.*)
LEMMA NoInterference ==
    ASSUME IInv, NEW w \in Running, Step(w), NEW v \in Running, v # w, p_cm[v] # NoMessage
    PROVE  pc'[v] = pc[v] /\ Action(v)' = Action(v)
<1> USE CoresAssumption, IdFacts
<1>1. /\ p_cm[v] \in MessageIds /\ p_cm[v] # p_cm[w] /\ p_cm[v] # Local(w)
      /\ p_cm[v] \notin message_buffer[w]
  <2>1. p_cm[v] \in MessageIds
    BY DEF IInv, TypeOK
  <2>2. p_cm[v] # p_cm[w]
    BY DEF IInv, ItemOwnedOnce, HeldOnce
  <2>3. p_cm[v] # Local(w)
    BY DEF IInv, HandOK, Hand
  <2>4. p_cm[v] \notin message_buffer[w]
    BY DEF IInv, ItemOwnedOnce, FreeInItsBuffer, Held
  <2> QED BY <2>1, <2>2, <2>3, <2>4
<1>2. pc'[v] = pc[v] /\ p_cm'[v] = p_cm[v] /\ msg'[p_cm[v]] = msg[p_cm[v]]
  <2> USE DEF IInv, TypeOK
  <2>1. CASE LoopTest(w)
    BY <2>1 DEF LoopTest, messageVars
  <2>2. CASE FlushTxBuffer(w)
    BY <2>2 DEF FlushTxBuffer, messageVars
  <2>3. CASE DequeueMailbox(w)
    BY <2>3 DEF DequeueMailbox
  <2>4. CASE ReturnItem(w)
    BY <2>4, <1>1 DEF ReturnItem
  <2>5. CASE RxBurst(w)
    BY <2>5 DEF RxBurst, messageVars
  <2>6. CASE NextPacket(w)
    BY <2>6, <1>1 DEF NextPacket
  <2>7. CASE SelectAction(w)
    BY <2>7 DEF SelectAction, messageVars
  <2>8. CASE CopyToItem(w)
    <3>1. PICK i \in message_buffer[w] :
             /\ p_cm' = [p_cm EXCEPT ![w] = i]
             /\ \A j \in MessageIds : j # i /\ j # p_cm[w] => msg'[j] = msg[j]
      BY <2>8 DEF CopyToItem, FreeItems
    <3>2. pc' = [pc EXCEPT ![w] = "enqueue"]
      BY <2>8 DEF CopyToItem
    <3> QED BY <3>1, <3>2, <1>1
  <2>9. CASE FreePacket(w)
    BY <2>9, <1>1 DEF FreePacket
  <2>10. CASE PassItem(w)
    BY <2>10 DEF PassItem, messageVars
  <2>11. CASE Enqueue(w)
    BY <2>11 DEF Enqueue
  <2>12. CASE Run(w)
    <3>1. CASE \E i \in 0..2 : NextAction(w, i)
      BY <3>1, <1>1 DEF NextAction
    <3>2. CASE Transmit(w)
      <4>1. CASE p_cm[w] = Local(w)
        BY <3>2, <4>1, <1>1 DEF Transmit
      <4>2. CASE p_cm[w] # Local(w)
        BY <3>2, <4>2, <1>1 DEF Transmit
      <4> QED BY <4>1, <4>2
    <3>3. CASE Classify(w)
      <4>1. \A f, n : ClassifierPath(f, n) \in 0..2
        BY DEF ClassifierPath, ControlPath, DataPath
      <4> QED BY <3>1, <3>3, <4>1 DEF Classify
    <3>4. CASE RunControl(w)
      BY <3>1, <3>4 DEF RunControl, DataPath
    <3>5. CASE RunData(w)
      BY <3>1, <3>5 DEF RunData, OutPath
    <3> QED BY <2>12, <3>2, <3>3, <3>4, <3>5 DEF Run
  <2> QED
    BY <2>1, <2>2, <2>3, <2>4, <2>5, <2>6, <2>7, <2>8, <2>9, <2>10, <2>11, <2>12 DEF Step
<1> QED BY <1>2 DEF Action

(* A running worker runs an action that lives on its core.                 *)
AtHome ==
    /\ core_id \in Placements
    /\ \A w \in Running : pc[w] = "run" => core_id[Action(w)] = w

(* Nobody runs a function at the start.                                    *)
LEMMA AtHomeInit == Init => AtHome
BY CoresAssumption DEF Init, AtHome

(* A function is entered on its core, and without migration stays there.   *)
LEMMA AtHomeNext ==
    ASSUME Migrations = {}, IInv, AtHome, [Next]_vars  PROVE AtHome'
<1> USE CoresAssumption
<1>1. core_id' = core_id
  BY ZenonT(40) DEF Next, Step, Run, LoopTest, FlushTxBuffer, DequeueMailbox, ReturnItem, RxBurst,
         NextPacket, SelectAction, CopyToItem, FreePacket, PassItem, Enqueue, Classify,
         RunControl, RunData, NextAction, Transmit, Arrive, DrainTick, Quit, Exit, vars,
         tableVars
<1>2. ASSUME NEW w \in Running, Step(w), NEW v \in Running, pc'[v] = "run"
      PROVE  core_id[Action(v)'] = v
  <2>1. CASE v # w
    <3>1. p_cm[v] # NoMessage \/ pc'[v] = pc[v]
      BY <1>2, <2>1 DEF IInv, TypeOK, Step, Run, LoopTest, FlushTxBuffer, DequeueMailbox,
         ReturnItem, RxBurst, NextPacket, SelectAction, CopyToItem, FreePacket, PassItem,
         Enqueue, Classify, RunControl, RunData, NextAction, Transmit
    <3>2. p_cm[v] # NoMessage
      BY <1>2, <3>1 DEF IInv, HandOK, Hand, InHandPCs
    <3> QED BY <1>2, <2>1, <3>2, NoInterference DEF AtHome
  <2>2. CASE v = w
    <3>1. SelectAction(w)
      <4> SUFFICES ASSUME ~SelectAction(w)
                   PROVE  \E x \in PCs \ {"run"} : pc' = [pc EXCEPT ![w] = x]
        BY <1>2, <2>2, MessageTypes
      <4>1. ret_to[w] \in {"mailbox", "next"}
        BY DEF IInv, TypeOK
      <4>2. CASE LoopTest(w)
        BY <4>2 DEF LoopTest, PCs
      <4>3. CASE FlushTxBuffer(w) \/ ReturnItem(w) \/ RxBurst(w)
        BY <4>3 DEF FlushTxBuffer, ReturnItem, RxBurst, PCs
      <4>4. CASE DequeueMailbox(w)
        BY <4>4 DEF DequeueMailbox, PCs
      <4>5. CASE NextPacket(w)
        BY <4>5 DEF NextPacket, PCs
      <4>6. CASE CopyToItem(w) \/ PassItem(w)
        BY <4>6 DEF CopyToItem, PassItem, PCs
      <4>7. CASE FreePacket(w) \/ Enqueue(w)
        BY <4>1, <4>7 DEF FreePacket, Enqueue, PCs
      <4>8. CASE Run(w)
        <5>1. CASE Transmit(w)
          BY <5>1 DEF Transmit, PCs
        <5> QED BY <4>8, <5>1 DEF Run, Classify, RunControl, RunData, NextAction, PCs
      <4> QED BY <1>2, <4>2, <4>3, <4>4, <4>5, <4>6, <4>7, <4>8 DEF Step
    <3> QED BY <3>1, <2>2 DEF SelectAction, LivesHere, messageVars, Action
  <2> QED BY <2>1, <2>2
<1>3. CASE \E w \in Running : Step(w)
  BY <1>1, <1>2, <1>3 DEF AtHome
<1>4. CASE ~ \E w \in Running : Step(w)
  <2>1. UNCHANGED <<loopVars, messageVars>>
    BY <1>4 DEF Next, Arrive, DrainTick, Quit, Exit, vars
  <2> QED BY <1>1, <2>1 DEF AtHome, Action, loopVars, messageVars
<1> QED BY <1>3, <1>4

(* Workers at home share no state where states share no core.              *)
LEMMA AtHomeExclusive ==
    ASSUME Colocated, IInv, AtHome  PROVE StateExclusive
<1> USE CoresAssumption
<1> SUFFICES ASSUME NEW v \in Running, NEW w \in Running, NEW s \in States \cup LastAction,
                    Inside(v, s), Inside(w, s)
             PROVE  v = w
  BY DEF StateExclusive
\* Whoever is inside s stands on the one core the placement gives s.
<1>1. ASSUME NEW u \in Running, pc[u] = "run"
      PROVE  Action(u) \in Actions /\ core_id[Action(u)] = u
  BY <1>1, LocalInHand DEF AtHome, InHandPCs
<1>2. CASE pc[v] = "run" /\ pc[w] = "run"
  BY <1>1, <1>2 DEF Inside, Colocated, AtHome
<1>3. ASSUME NEW u \in Running, pc[u] = "run", StateOf[Action(u)] \in Cores
      PROVE  u = StateOf[Action(u)]
  <2>1. Kind[Action(u)] = "packet_out"
    BY <1>1, <1>3, TableAssumption
  <2> QED BY <1>1, <1>3, <2>1 DEF Colocated, AtHome
<1>4. CASE pc[v] = "flush" /\ pc[w] = "run"
  BY <1>3, <1>4 DEF Inside
<1>5. CASE pc[v] = "run" /\ pc[w] = "flush"
  BY <1>3, <1>5 DEF Inside
<1>6. CASE pc[v] = "flush" /\ pc[w] = "flush"
  BY <1>6 DEF Inside
<1> QED BY <1>2, <1>4, <1>5, <1>6 DEF Inside

(* The states of the network functions and the transmit buffers have no    *)
(* locks; colocating the actions of a state is what makes them exclusive.  *)
THEOREM StatesExclusive ==
    ASSUME Colocated  PROVE Spec => []StateExclusive
<1>1. Init => AtHome
  BY AtHomeInit
<1>2. IInv /\ AtHome /\ [Next]_vars => AtHome'
  BY AtHomeNext DEF Colocated
<1>3. IInv /\ AtHome => StateExclusive
  BY AtHomeExclusive
<1> QED BY <1>1, <1>2, <1>3, Invariant, PTL DEF Spec

-------------------------------------------------------------------------------
(***************************************************************************)
(* What travels through the worker loop: a packet is in one place, an item *)
(* in flight comes from a core that takes packets, an item comes home      *)
(* where the chain of its packet does, and the loop implements the         *)
(* pipeline where the placement keeps the actions of a state together.     *)
(*                                                                         *)
(* The loop has two modes that no variable names: serving the mailbox and  *)
(* serving a burst.  BurstOK says which mode a worker is in from what it   *)
(* holds; the other invariants follow the packets and the items.           *)
(***************************************************************************)
(* In the mode of a burst a worker returns to the burst from wherever it   *)
(* is; only there does it hold the message on its stack or packets.        *)
Burst1(w) ==
    /\ pkts_burst[w] # <<>> \/ pc[w] = "next" \/ p_cm[w] = Local(w) => ret_to[w] = "next"
    /\ ret_to[w] = "next" => pc[w] = "next" \/ pc[w] = "enqueue" \/ p_cm[w] = Local(w)
    \* only a core that takes packets is ever in that mode
    /\ ret_to[w] = "next" \/ pc[w] = "poll" => w \in FirstAction

BurstOK == \A w \in Cores : Burst1(w)

(* Packet p is at position k of what core c has of kind t; core and        *)
(* position are 0 where there is only one.                                 *)
At(p, t, c, k) ==
    \/ t = "wire" /\ c = 0 /\ k = 0 /\ p \in wire
    \/ t = "sent" /\ c = 0 /\ k = 0 /\ p \in sent
    \/ t = "freed" /\ c = 0 /\ k = 0 /\ p \in freed
    \/ t = "rxq" /\ c \in Cores /\ k \in DOMAIN rxq[c] /\ rxq[c][k] = p
    \/ t = "burst" /\ c \in Cores /\ k \in DOMAIN pkts_burst[c] /\ pkts_burst[c][k] = p
    \/ t = "txb" /\ c \in Cores /\ k \in DOMAIN txb[c] /\ txb[c][k] = p
    \/ t = "queued" /\ c \in Cores /\ k \in DOMAIN mailbox[c] /\ msg[mailbox[c][k]].m = p
    \/ /\ t = "held" /\ c \in Cores /\ k = 0
       /\ pc[c] \in {"handle", "run", "enqueue"} /\ msg[p_cm[c]].m = p

(* A packet is in one place and no other.                                  *)
OnePlace(p) ==
    \E t, c, k : \A t2, c2, k2 : At(p, t2, c2, k2) <=> t2 = t /\ c2 = c /\ k2 = k

-----------------------------------------------------------------------------
(* The mode of the loop *)

(* A step of one worker moves no other.                                    *)
LEMMA StepOthers ==
    ASSUME IInv, BurstOK, NEW w \in Running, Step(w), NEW v \in Cores, v # w
    PROVE  /\ pc'[v] = pc[v] /\ p_cm'[v] = p_cm[v] /\ ret_to'[v] = ret_to[v]
           /\ pkts_burst'[v] = pkts_burst[v]
<1> USE CoresAssumption
<1>1. /\ pc \in [Cores -> PCs]
      /\ p_cm \in [Cores -> MessageIds \cup {NoMessage}]
      /\ ret_to \in [Cores -> {"mailbox", "next"}]
      /\ pkts_burst \in [Cores -> Seq(Packets)]
  BY DEF IInv, TypeOK
<1>2. CASE LoopTest(w) \/ FlushTxBuffer(w)
  BY <1>1, <1>2 DEF LoopTest, FlushTxBuffer
<1>3. CASE DequeueMailbox(w) \/ ReturnItem(w)
  BY <1>1, <1>3 DEF DequeueMailbox, ReturnItem
<1>4. CASE RxBurst(w)
  BY <1>1, <1>4 DEF RxBurst
<1>5. CASE NextPacket(w)
  BY <1>1, <1>5 DEF NextPacket
<1>6. CASE SelectAction(w) \/ PassItem(w)
  BY <1>1, <1>6 DEF SelectAction, PassItem
<1>7. CASE CopyToItem(w)
  <2>1. \E i : p_cm' = [p_cm EXCEPT ![w] = i]
    BY <1>7 DEF CopyToItem
  <2> QED BY <1>1, <1>7, <2>1 DEF CopyToItem
<1>8. CASE FreePacket(w) \/ Enqueue(w)
  BY <1>1, <1>8 DEF FreePacket, Enqueue
<1>9. CASE Run(w)
  <2>1. CASE Transmit(w)
    BY <1>1, <2>1 DEF Transmit
  <2>2. CASE ~Transmit(w)
    <3>1. UNCHANGED <<p_cm, ret_to, pkts_burst>> /\ pc' = [pc EXCEPT ![w] = "handle"]
      BY <1>9, <2>2 DEF Run, Classify, RunControl, RunData, NextAction
    <3> QED BY <1>1, <3>1
  <2> QED BY <2>1, <2>2
<1> QED BY <1>2, <1>3, <1>4, <1>5, <1>6, <1>7, <1>8, <1>9 DEF Step

(* A step of a worker keeps every worker in a mode its state accounts for. *)
LEMMA BurstStep ==
    ASSUME IInv, BurstOK, NEW w \in Running, Step(w)  PROVE BurstOK'
<1> USE CoresAssumption, IdFacts
<1>1. /\ pc \in [Cores -> PCs]
      /\ p_cm \in [Cores -> MessageIds \cup {NoMessage}]
      /\ ret_to \in [Cores -> {"mailbox", "next"}]
      /\ pkts_burst \in [Cores -> Seq(Packets)]
      /\ w \in Cores /\ Burst1(w)
      /\ pc[w] \in InHandPCs <=> p_cm[w] # NoMessage
  BY DEF IInv, TypeOK, BurstOK, HandOK, Hand
<1>2. ASSUME NEW v \in Cores, v # w  PROVE Burst1(v)'
  <2>1. /\ pc'[v] = pc[v] /\ p_cm'[v] = p_cm[v] /\ ret_to'[v] = ret_to[v]
        /\ pkts_burst'[v] = pkts_burst[v]
    BY <1>2, StepOthers
  <2> QED BY <2>1 DEF BurstOK, Burst1, Local
<1>3. Local(w)' = Local(w) /\ Local(w) # NoMessage
  BY DEF Local
<1> HIDE DEF Local
<1>4. Burst1(w)'
  <2>1. CASE LoopTest(w) \/ FlushTxBuffer(w)
    BY <1>1, <1>3, <2>1 DEF LoopTest, FlushTxBuffer, Burst1, InHandPCs
  <2>2. CASE DequeueMailbox(w)
    <3>1. ret_to[w] # "next" /\ pkts_burst[w] = <<>>
      BY <1>1, <1>3, <2>2 DEF DequeueMailbox, Burst1, InHandPCs
    <3>2. CASE mailbox[w] = <<>>
      BY <1>1, <1>3, <2>2, <3>1, <3>2 DEF DequeueMailbox, Burst1, InHandPCs
    <3>3. CASE mailbox[w] # <<>>
      <4>1. Head(mailbox[w]) \in Items
        BY <1>1, <3>3, MessageTypes, HeadTailProperties
      <4>2. /\ p_cm'[w] = Head(mailbox[w]) /\ pc'[w] = "handle"
            /\ ret_to' = ret_to /\ pkts_burst' = pkts_burst
        BY <1>1, <2>2, <3>3 DEF DequeueMailbox
      <4>3. p_cm'[w] # Local(w)
        BY <1>1, <4>1, <4>2
      <4> QED BY <1>3, <3>1, <4>2, <4>3 DEF Burst1
    <3> QED BY <3>2, <3>3
  <2>3. CASE ReturnItem(w)
    <3>1. p_cm[w] \in Items /\ p_cm[w] # Local(w)
      BY <1>1, <2>3 DEF IInv, HandOK, Hand, ReturnItem
    <3> QED BY <1>1, <1>3, <2>3, <3>1 DEF ReturnItem, Burst1
  <2>4. CASE RxBurst(w)
    <3>1. pc'[w] = "next" /\ ret_to'[w] = "next" /\ p_cm' = p_cm
      BY <1>1, <2>4 DEF RxBurst
    <3> QED BY <1>1, <1>3, <2>4, <3>1 DEF RxBurst, Burst1
  <2>5. CASE NextPacket(w)
    <3>1. CASE pkts_burst[w] = <<>>
      BY <1>1, <1>3, <2>5, <3>1 DEF NextPacket, Burst1, InHandPCs
    <3>2. CASE pkts_burst[w] # <<>>
      <4>1. pc'[w] = "handle" /\ p_cm'[w] = Local(w) /\ ret_to' = ret_to
        BY <1>1, <2>5, <3>2 DEF NextPacket
      <4> QED BY <1>1, <1>3, <2>5, <4>1 DEF NextPacket, Burst1
    <3> QED BY <3>1, <3>2
  <2>6. CASE SelectAction(w)
    BY <1>1, <1>3, <2>6 DEF SelectAction, Burst1
  <2>7. CASE CopyToItem(w)
    <3>1. p_cm[w] = Local(w)
      BY <2>7, LocalInHand DEF CopyToItem, InHandPCs
    <3>2. PICK i \in message_buffer[w] : p_cm' = [p_cm EXCEPT ![w] = i]
      BY <2>7 DEF CopyToItem, FreeItems
    <3>3. i \in Items /\ p_cm'[w] # Local(w)
      BY <1>1, <3>2, MessageTypes
    <3> QED BY <1>1, <1>3, <2>7, <3>1, <3>3 DEF CopyToItem, Burst1
  <2>8. CASE FreePacket(w)
    <3>1. p_cm[w] = Local(w)
      BY <2>8, LocalInHand DEF FreePacket, InHandPCs
    <3> QED BY <1>1, <1>3, <2>8, <3>1 DEF FreePacket, Burst1
  <2>9. CASE PassItem(w)
    BY <1>1, <1>3, <2>9 DEF PassItem, Burst1
  <2>10. CASE Enqueue(w)
    BY <1>1, <1>3, <2>10 DEF Enqueue, Burst1
  <2>11. CASE Run(w)
    <3>1. CASE Transmit(w)
      <4>1. CASE p_cm[w] = Local(w)
        BY <1>1, <1>3, <3>1, <4>1 DEF Transmit, Burst1
      <4>2. CASE p_cm[w] # Local(w)
        BY <1>1, <1>3, <3>1, <4>2 DEF Transmit, Burst1
      <4> QED BY <4>1, <4>2
    <3>2. CASE ~Transmit(w)
      <4>1. /\ UNCHANGED <<p_cm, ret_to, pkts_burst>> /\ pc' = [pc EXCEPT ![w] = "handle"]
            /\ pc[w] = "run"
        BY <2>11, <3>2 DEF Run, Classify, RunControl, RunData, NextAction
      <4> QED BY <1>1, <1>3, <4>1 DEF Burst1
    <3> QED BY <3>1, <3>2
  <2> QED
    BY <2>1, <2>2, <2>3, <2>4, <2>5, <2>6, <2>7, <2>8, <2>9, <2>10, <2>11 DEF Step
<1> QED BY <1>2, <1>4 DEF BurstOK

(* A step outside the workers leaves their loops and messages alone.       *)
LEMMA AroundUnchanged ==
    ASSUME [Next]_vars, ~ \E w \in Running : Step(w)
    PROVE  UNCHANGED <<loopVars, messageVars>>
BY DEF Next, Arrive, Migrate, DrainTick, Quit, Exit, vars

(* So does every step.                                                     *)
LEMMA BurstNext == IInv /\ BurstOK /\ [Next]_vars => BurstOK'
<1> SUFFICES ASSUME IInv, BurstOK, [Next]_vars  PROVE BurstOK'
  OBVIOUS
<1>1. CASE ~ \E w \in Running : Step(w)
  BY <1>1, AroundUnchanged DEF loopVars, BurstOK, Burst1, Local
<1> QED BY <1>1, BurstStep

(* All workers start in the mode of the mailbox.                           *)
LEMMA BurstInit == Init => BurstOK
BY IdFacts DEF Init, BurstOK, Burst1
-----------------------------------------------------------------------------
(* Positions of a sequence *)

(* Positions after an element is added at the end.                         *)
LEMMA AppendAt ==
    ASSUME NEW S, NEW q \in Seq(S), NEW x \in S
    PROVE  \A k : /\ k \in DOMAIN Append(q, x) <=> k \in DOMAIN q \/ k = Len(q) + 1
                  /\ k \in DOMAIN q => Append(q, x)[k] = q[k] /\ k # Len(q) + 1
                  /\ k = Len(q) + 1 => Append(q, x)[k] = x
<1>1. DOMAIN q = 1..Len(q) /\ Len(q) \in Nat
  OBVIOUS
<1>2. DOMAIN Append(q, x) = 1..(Len(q) + 1)
  BY <1>1
<1>3. \A k \in 1..Len(q) : Append(q, x)[k] = q[k]
  OBVIOUS
<1>4. Append(q, x)[Len(q) + 1] = x
  OBVIOUS
<1>5. \A k : k \in 1..(Len(q) + 1) <=> k \in 1..Len(q) \/ k = Len(q) + 1
  BY <1>1
<1>6. Len(q) + 1 \notin 1..Len(q)
  BY <1>1
<1> QED BY <1>1, <1>2, <1>3, <1>4, <1>5, <1>6

(* Positions after the first element is taken.                             *)
LEMMA TailAt ==
    ASSUME NEW S, NEW q \in Seq(S), q # <<>>
    PROVE  /\ 1 \in DOMAIN q /\ Head(q) = q[1]
           /\ \A k \in DOMAIN Tail(q) :
                 k \in Nat /\ k + 1 \in DOMAIN q /\ k + 1 # 1 /\ Tail(q)[k] = q[k + 1]
           /\ \A k \in DOMAIN q : k # 1 =>
                 k \in Nat /\ k - 1 \in DOMAIN Tail(q) /\ Tail(q)[k - 1] = q[k]
<1>1. /\ DOMAIN q = 1..Len(q) /\ Len(q) \in Nat /\ Len(q) > 0
      /\ DOMAIN Tail(q) = 1..(Len(q) - 1)
  OBVIOUS
<1>2. \A k \in 1..(Len(q) - 1) : Tail(q)[k] = q[k + 1]
  OBVIOUS
<1> QED BY <1>1, <1>2

(* Positions in the two halves of a sequence.                              *)
LEMMA SplitAt ==
    ASSUME NEW S, NEW q \in Seq(S), NEW n \in Nat, n <= Len(q)
    PROVE  /\ SubSeq(q, 1, n) \in Seq(S) /\ SubSeq(q, n + 1, Len(q)) \in Seq(S)
           /\ DOMAIN q = 1..Len(q) /\ Len(q) \in Nat
           /\ DOMAIN SubSeq(q, 1, n) = 1..n
           /\ \A k \in 1..n : SubSeq(q, 1, n)[k] = q[k]
           /\ DOMAIN SubSeq(q, n + 1, Len(q)) = 1..(Len(q) - n)
           /\ \A k \in 1..(Len(q) - n) : SubSeq(q, n + 1, Len(q))[k] = q[n + k]
<1>1. DOMAIN q = 1..Len(q) /\ Len(q) \in Nat
  OBVIOUS
<1>a. \A i \in 1..Len(q) : q[i] \in S
  BY ElementOfSeq
<1>2. SubSeq(q, 1, n) \in Seq(S) /\ Len(SubSeq(q, 1, n)) = n
      /\ \A k \in 1..n : SubSeq(q, 1, n)[k] = q[k]
  <2> DEFINE t == SubSeq(q, 1, n)
  <2>1. \A i \in 1..n : q[i] \in S
    BY <1>1, <1>a
  <2>2. /\ t \in Seq(S)
        /\ Len(t) = IF 1 <= n THEN n - 1 + 1 ELSE 0
        /\ \A k \in 1..(n - 1 + 1) : t[k] = q[1 + k - 1]
    BY <2>1, SubSeqProperties
  <2>3. n - 1 + 1 = n /\ \A k \in 1..n : 1 + k - 1 = k
    OBVIOUS
  <2>4. ASSUME NEW k \in 1..n  PROVE t[k] = q[k]
    <3> HIDE DEF t
    <3>1. t[k] = q[1 + k - 1]
      BY <2>2, <2>3
    <3> QED BY <3>1
  <2>5. Len(t) = n
    <3> HIDE DEF t
    <3> QED BY <2>2
  <2> QED BY <2>2, <2>4, <2>5
<1>3. /\ SubSeq(q, n + 1, Len(q)) \in Seq(S) /\ Len(SubSeq(q, n + 1, Len(q))) = Len(q) - n
      /\ \A k \in 1..(Len(q) - n) : SubSeq(q, n + 1, Len(q))[k] = q[n + k]
  <2> DEFINE l == Len(q)  m == n + 1  t == SubSeq(q, m, l)
  <2>1. l \in Nat /\ n <= l /\ m \in Int /\ \A i \in m..l : q[i] \in S
    BY <1>1, <1>a
  <2>2. /\ t \in Seq(S)
        /\ Len(t) = IF m <= l THEN l - m + 1 ELSE 0
        /\ \A k \in 1..(l - m + 1) : t[k] = q[m + k - 1]
    <3> HIDE DEF l, m
    <3> QED BY <2>1, SubSeqProperties
  <2>3. /\ (IF m <= l THEN l - m + 1 ELSE 0) = l - n
        /\ l - m + 1 = l - n
        /\ \A k \in 1..(l - n) : m + k - 1 = n + k
    <3> HIDE DEF l, t
    <3> QED BY <2>1
  <2>4. \A k \in 1..(l - n) : t[k] = q[n + k]
    <3> HIDE DEF l, m, t
    <3> QED BY <2>2, <2>3, Zenon
  <2>5. Len(t) = l - n
    <3> HIDE DEF l, m, t
    <3> QED BY <2>2, <2>3
  <2> QED BY <2>2, <2>4, <2>5
<1>4. \A s \in Seq(S) : DOMAIN s = 1..Len(s)
  OBVIOUS
<1>5. /\ DOMAIN SubSeq(q, 1, n) = 1..n
      /\ DOMAIN SubSeq(q, n + 1, Len(q)) = 1..(Len(q) - n)
  <2> DEFINE s1 == SubSeq(q, 1, n)  s2 == SubSeq(q, n + 1, Len(q))
  <2>1. s1 \in Seq(S) /\ s2 \in Seq(S) /\ Len(s1) = n /\ Len(s2) = Len(q) - n
    BY <1>2, <1>3
  <2> HIDE DEF s1, s2
  <2>2. DOMAIN s1 = 1..n /\ DOMAIN s2 = 1..(Len(q) - n)
    BY <2>1, <1>4
  <2> QED BY <2>2 DEF s1, s2
<1> QED BY <1>1, <1>2, <1>3, <1>5
-----------------------------------------------------------------------------
(* A packet moves from one place to one place *)

(* The places of the run's property are those At names.                    *)
LEMMA HoldersAt ==
    ASSUME NEW p, OnePlace(p)  PROVE Cardinality(Holders(p)) = 1
<1> DEFINE U1 == {<<"wire", 0, 0>> : x \in wire \cap {p}}
           U2 == {<<"sent", 0, 0>> : x \in sent \cap {p}}
           U3 == {<<"freed", 0, 0>> : x \in freed \cap {p}}
           U4 == UNION {{<<"rxq", c, k>> : k \in {j \in DOMAIN rxq[c] : rxq[c][j] = p}} : c \in Cores}
           U5 == UNION {{<<"burst", c, k>> : k \in {j \in DOMAIN pkts_burst[c] : pkts_burst[c][j] = p}} : c \in Cores}
           U6 == UNION {{<<"txb", c, k>> : k \in {j \in DOMAIN txb[c] : txb[c][j] = p}} : c \in Cores}
           U7 == UNION {{<<"queued", c, k>> : k \in {j \in DOMAIN mailbox[c] : msg[mailbox[c][j]].m = p}} : c \in Cores}
           U8 == {<<"held", w, 0>> : w \in {v \in Cores : /\ pc[v] \in {"handle", "run", "enqueue"}
                                                        /\ msg[p_cm[v]].m = p}}
<1>0. Holders(p) = U1 \cup U2 \cup U3 \cup U4 \cup U5 \cup U6 \cup U7 \cup U8
  BY DEF Holders
<1>1. PICK t, c, k : \A t2, c2, k2 : At(p, t2, c2, k2) <=> t2 = t /\ c2 = c /\ k2 = k
  BY DEF OnePlace
<1>2. ASSUME NEW y \in Holders(p)  PROVE \E a, b, n : y = <<a, b, n>> /\ At(p, a, b, n)
  <2>1. CASE y \in U1 \/ y \in U2 \/ y \in U3
    BY <2>1 DEF At
  <2>2. CASE y \in U4
    BY <2>2 DEF At
  <2>3. CASE y \in U5
    BY <2>3 DEF At
  <2>4. CASE y \in U6
    BY <2>4 DEF At
  <2>5. CASE y \in U7
    BY <2>5 DEF At
  <2>6. CASE y \in U8
    BY <2>6 DEF At
  <2> HIDE DEF U1, U2, U3, U4, U5, U6, U7, U8
  <2> QED BY <1>0, <1>2, <2>1, <2>2, <2>3, <2>4, <2>5, <2>6
<1>3. <<t, c, k>> \in Holders(p)
  <2>1. At(p, t, c, k)
    BY <1>1
  <2>2. CASE t = "wire"
    <3>1. c = 0 /\ k = 0 /\ p \in wire
      BY <2>1, <2>2 DEF At
    <3> QED BY <2>2, <3>1, <1>0
  <2>3. CASE t = "sent"
    <3>1. c = 0 /\ k = 0 /\ p \in sent
      BY <2>1, <2>3 DEF At
    <3> QED BY <2>3, <3>1, <1>0
  <2>4. CASE t = "freed"
    <3>1. c = 0 /\ k = 0 /\ p \in freed
      BY <2>1, <2>4 DEF At
    <3> QED BY <2>4, <3>1, <1>0
  <2>5. CASE t = "rxq"
    <3>1. c \in Cores /\ k \in DOMAIN rxq[c] /\ rxq[c][k] = p
      BY <2>1, <2>5 DEF At
    <3>2. <<"rxq", c, k>> \in {<<"rxq", c, n>> : n \in {j \in DOMAIN rxq[c] : rxq[c][j] = p}}
      BY <3>1
    <3>3. <<"rxq", c, k>> \in U4
      BY <3>1, <3>2, Zenon
    <3> HIDE DEF U1, U2, U3, U4, U5, U6, U7, U8
    <3> QED BY <2>5, <3>3, <1>0
  <2>6. CASE t = "burst"
    <3>1. c \in Cores /\ k \in DOMAIN pkts_burst[c] /\ pkts_burst[c][k] = p
      BY <2>1, <2>6 DEF At
    <3>2. <<"burst", c, k>> \in {<<"burst", c, n>> : n \in {j \in DOMAIN pkts_burst[c] : pkts_burst[c][j] = p}}
      BY <3>1
    <3>3. <<"burst", c, k>> \in U5
      BY <3>1, <3>2, Zenon
    <3> HIDE DEF U1, U2, U3, U4, U5, U6, U7, U8
    <3> QED BY <2>6, <3>3, <1>0
  <2>7. CASE t = "txb"
    <3>1. c \in Cores /\ k \in DOMAIN txb[c] /\ txb[c][k] = p
      BY <2>1, <2>7 DEF At
    <3>2. <<"txb", c, k>> \in {<<"txb", c, n>> : n \in {j \in DOMAIN txb[c] : txb[c][j] = p}}
      BY <3>1
    <3>3. <<"txb", c, k>> \in U6
      BY <3>1, <3>2, Zenon
    <3> HIDE DEF U1, U2, U3, U4, U5, U6, U7, U8
    <3> QED BY <2>7, <3>3, <1>0
  <2>8. CASE t = "queued"
    <3>1. c \in Cores /\ k \in DOMAIN mailbox[c] /\ msg[mailbox[c][k]].m = p
      BY <2>1, <2>8 DEF At
    <3>2. <<"queued", c, k>> \in {<<"queued", c, n>> : n \in {j \in DOMAIN mailbox[c] : msg[mailbox[c][j]].m = p}}
      BY <3>1
    <3>3. <<"queued", c, k>> \in U7
      BY <3>1, <3>2, Zenon
    <3> HIDE DEF U1, U2, U3, U4, U5, U6, U7, U8
    <3> QED BY <2>8, <3>3, <1>0
  <2>9. CASE t = "held"
    <3>1. k = 0 /\ <<"held", c, 0>> \in U8
      BY <2>1, <2>9 DEF At
    <3> HIDE DEF U1, U2, U3, U4, U5, U6, U7, U8
    <3> QED BY <2>9, <3>1, <1>0
  <2> QED BY <2>1, <2>2, <2>3, <2>4, <2>5, <2>6, <2>7, <2>8, <2>9 DEF At
<1>4. Holders(p) = {<<t, c, k>>}
  BY <1>1, <1>2, <1>3
<1> QED BY <1>4, FS_Singleton

(* Every packet starts on the wire and nowhere else.                       *)
LEMMA InitOnePlace == Init => \A p \in Packets : OnePlace(p)
<1> SUFFICES ASSUME Init, NEW p \in Packets  PROVE OnePlace(p)
  OBVIOUS
<1>1. \A t2, c2, k2 : At(p, t2, c2, k2) <=> t2 = "wire" /\ c2 = 0 /\ k2 = 0
  BY DEF Init, At
<1> QED BY <1>1 DEF OnePlace

(* A step after which p is where it was.                                   *)
LEMMA Stays ==
    ASSUME NEW p, OnePlace(p), \A t, c, k : At(p, t, c, k)' <=> At(p, t, c, k)
    PROVE  OnePlace(p)'
BY DEF OnePlace

(* A step that brings p somewhere and leaves it nowhere else.              *)
LEMMA Moves ==
    ASSUME NEW p, NEW t, NEW c, NEW k, At(p, t, c, k)',
           \A a, b, n : At(p, a, b, n)' => a = t /\ b = c /\ n = k
    PROVE  OnePlace(p)'
BY DEF OnePlace

(* The place of a packet is unique.                                        *)
LEMMA ThePlace ==
    ASSUME NEW p, OnePlace(p)
    PROVE  \E t, c, k : At(p, t, c, k)
                        /\ \A a, b, n : At(p, a, b, n) => a = t /\ b = c /\ n = k
BY DEF OnePlace

(* What a worker holds or a mailbox queues is not what another holds.      *)
LEMMA OwnHand ==
    ASSUME IInv, NEW w \in Cores, p_cm[w] # NoMessage
    PROVE  /\ p_cm[w] \in MessageIds
           /\ \A v \in Cores : v # w => p_cm[v] # p_cm[w]
           /\ \A v \in Cores : v # w => p_cm[v] # Local(w)
           /\ \A c \in Cores : \A k \in DOMAIN mailbox[c] : mailbox[c][k] # p_cm[w]
<1> USE IdFacts
<1>1. p_cm[w] \in MessageIds
  BY MessageTypes
<1>2. \A v \in Cores : v # w => p_cm[v] # p_cm[w]
  BY Parts DEF HeldOnce
<1>3. \A v \in Cores : v # w => p_cm[v] # Local(w)
  BY Parts DEF HandOK, Hand
<1>4. \A c \in Cores : \A k \in DOMAIN mailbox[c] : mailbox[c][k] # p_cm[w]
  BY Parts DEF QueuedNotHeld
<1> QED BY <1>1, <1>2, <1>3, <1>4

(* The packets of the messages in the rings and in the hands.              *)
InHand(p, v) == pc[v] \in {"handle", "run", "enqueue"} /\ msg[p_cm[v]].m = p
InRing(p, c, k) == k \in DOMAIN mailbox[c] /\ msg[mailbox[c][k]].m = p

(* A step that touches only messages.                                      *)
LEMMA MessagesMove ==
    ASSUME NEW p, UNCHANGED <<wire, sent, freed, rxq, pkts_burst, txb>>
    PROVE  \A t, c, k :
              /\ t # "queued" /\ t # "held" => (At(p, t, c, k)' <=> At(p, t, c, k))
              /\ At(p, "queued", c, k)' <=> c \in Cores /\ InRing(p, c, k)'
              /\ At(p, "queued", c, k) <=> c \in Cores /\ InRing(p, c, k)
              /\ At(p, "held", c, k)' <=> c \in Cores /\ k = 0 /\ InHand(p, c)'
              /\ At(p, "held", c, k) <=> c \in Cores /\ k = 0 /\ InHand(p, c)
<1>1. \A t, c, k : t # "queued" /\ t # "held" => (At(p, t, c, k)' <=> At(p, t, c, k))
  BY DEF At
<1>2. \A c, k : /\ At(p, "queued", c, k)' <=> c \in Cores /\ InRing(p, c, k)'
                /\ At(p, "queued", c, k) <=> c \in Cores /\ InRing(p, c, k)
  BY DEF At, InRing
<1>3. \A c, k : /\ At(p, "held", c, k)' <=> c \in Cores /\ k = 0 /\ InHand(p, c)'
                /\ At(p, "held", c, k) <=> c \in Cores /\ k = 0 /\ InHand(p, c)
  BY DEF At, InHand
<1> QED BY <1>1, <1>2, <1>3

(* A step in which w writes no message of another core or of a ring.       *)
LEMMA OthersKept ==
    ASSUME IInv, NEW p, NEW w \in Cores, NEW X,
           \A v \in Cores : v # w => pc'[v] = pc[v] /\ p_cm'[v] = p_cm[v],
           \A v \in Cores : v # w => p_cm[v] \notin X,
           \A c \in Cores : \A k \in DOMAIN mailbox[c] : mailbox[c][k] \notin X,
           \A j \in MessageIds \ X : msg'[j] = msg[j]
    PROVE  /\ mailbox' = mailbox => \A c \in Cores : \A k : InRing(p, c, k)' <=> InRing(p, c, k)
           /\ \A v \in Cores : v # w => (InHand(p, v)' <=> InHand(p, v))
<1> USE IdFacts
<1>1. ASSUME mailbox' = mailbox, NEW c \in Cores, NEW k
      PROVE  InRing(p, c, k)' <=> InRing(p, c, k)
  <2>1. ASSUME k \in DOMAIN mailbox[c]  PROVE msg'[mailbox[c][k]] = msg[mailbox[c][k]]
    <3>1. mailbox[c][k] \in Items /\ mailbox[c][k] \notin X
      BY <2>1, QueuedItems
    <3> QED BY <3>1
  <2> QED BY <1>1, <2>1 DEF InRing
<1>2. ASSUME NEW v \in Cores, v # w  PROVE InHand(p, v)' <=> InHand(p, v)
  <2>1. ASSUME pc[v] \in {"handle", "run", "enqueue"}  PROVE msg'[p_cm[v]] = msg[p_cm[v]]
    <3>1. p_cm[v] # NoMessage
      BY <2>1, Parts DEF HandOK, Hand, InHandPCs
    <3>2. p_cm[v] \in MessageIds /\ p_cm[v] \notin X
      BY <1>2, <3>1, MessageTypes
    <3> QED BY <3>2
  <2>2. pc'[v] = pc[v] /\ p_cm'[v] = p_cm[v]
    BY <1>2
  <2> QED BY <2>1, <2>2 DEF InHand
<1> QED BY <1>1, <1>2

(* A step in which w rewrites its own messages and keeps their packet.     *)
LEMMA HandKept ==
    ASSUME IInv, NEW p, OnePlace(p), NEW w \in Cores, NEW X,
           UNCHANGED <<wire, sent, freed, rxq, pkts_burst, txb, mailbox>>,
           \A v \in Cores : v # w => pc'[v] = pc[v] /\ p_cm'[v] = p_cm[v],
           \A v \in Cores : v # w => p_cm[v] \notin X,
           \A c \in Cores : \A k \in DOMAIN mailbox[c] : mailbox[c][k] \notin X,
           \A j \in MessageIds \ X : msg'[j] = msg[j],
           InHand(p, w)' <=> InHand(p, w)
    PROVE  OnePlace(p)'
<1>1. /\ \A c \in Cores : \A k : InRing(p, c, k)' <=> InRing(p, c, k)
      /\ \A v \in Cores : v # w => (InHand(p, v)' <=> InHand(p, v))
  BY OthersKept
<1>2. \A v \in Cores : InHand(p, v)' <=> InHand(p, v)
  BY <1>1
<1>3. \A t, c, k : At(p, t, c, k)' <=> At(p, t, c, k)
  BY <1>1, <1>2, MessagesMove
<1> QED BY <1>3, Stays

(* Steps that only move a program counter move no packet.                  *)
LEMMA PlaceLoopTest ==
    ASSUME IInv, NEW p \in Packets, OnePlace(p), NEW w \in Running,
           LoopTest(w) \/ SelectAction(w) \/ PassItem(w)
    PROVE  OnePlace(p)'
<1> USE CoresAssumption
<1>1. /\ UNCHANGED <<p_cm, messageVars, nicVars, pkts_burst>>
      /\ \A v \in Cores : pc'[v] \in {"handle", "run", "enqueue"} <=>
                             pc[v] \in {"handle", "run", "enqueue"}
  BY MessageTypes DEF LoopTest, SelectAction, PassItem
<1>2. UNCHANGED <<wire, sent, freed, rxq, pkts_burst, txb>>
  BY <1>1 DEF nicVars
<1>3. \A c, k : InRing(p, c, k)' <=> InRing(p, c, k)
  BY <1>1 DEF InRing, messageVars
<1>4. \A v \in Cores : InHand(p, v)' <=> InHand(p, v)
  BY <1>1 DEF InHand, messageVars
<1>5. \A t, c, k : At(p, t, c, k)' <=> At(p, t, c, k)
  BY <1>2, <1>3, <1>4, MessagesMove
<1> QED BY <1>5, Stays

(* A function that names the next action keeps its packet in hand.         *)
LEMMA PlaceNextAction ==
    ASSUME IInv, NEW p \in Packets, OnePlace(p), NEW w \in Running, pc[w] = "run",
           NEW i, NextAction(w, i)
    PROVE  OnePlace(p)'
<1> USE CoresAssumption
<1>1. /\ p_cm[w] \in MessageIds /\ p_cm[w] # NoMessage /\ msg[p_cm[w]] \in Message
      /\ w \in Cores
  BY LocalInHand DEF InHandPCs
<1>2. /\ UNCHANGED <<wire, sent, freed, rxq, pkts_burst, txb, mailbox, p_cm>>
      /\ pc' = [pc EXCEPT ![w] = "handle"]
  BY DEF NextAction, nicVars
<1> DEFINE a == simple_path[StateOf[Action(w)]][i]
<1>3. msg' = [msg EXCEPT ![p_cm[w]].action_id = a]
  BY DEF NextAction
<1> HIDE DEF a
<1>4. \A j \in MessageIds : j # p_cm[w] => msg'[j] = msg[j]
  BY <1>1, <1>3, MessageTypes
<1>5. msg'[p_cm[w]].m = msg[p_cm[w]].m
  <2>1. msg'[p_cm[w]] = [msg[p_cm[w]] EXCEPT !.action_id = a]
    BY <1>1, <1>3, MessageTypes
  <2> QED BY <1>1, <2>1 DEF Message
<1>6. InHand(p, w)' <=> InHand(p, w)
  BY <1>1, <1>2, <1>5, MessageTypes DEF InHand
<1>7. \A v \in Cores : v # w => pc'[v] = pc[v] /\ p_cm'[v] = p_cm[v]
  BY <1>2, MessageTypes
<1> DEFINE X == {p_cm[w]}
<1>8. /\ \A v \in Cores : v # w => p_cm[v] \notin X
      /\ \A c \in Cores : \A k \in DOMAIN mailbox[c] : mailbox[c][k] \notin X
      /\ \A j \in MessageIds \ X : msg'[j] = msg[j]
  BY <1>1, <1>4, OwnHand
<1> HIDE DEF X
<1> QED BY <1>1, <1>2, <1>6, <1>7, <1>8, HandKept

(* The item that goes back carries no packet: packet_out has had it.       *)
LEMMA PlaceReturnItem ==
    ASSUME IInv, NEW p \in Packets, OnePlace(p), NEW w \in Running, ReturnItem(w)
    PROVE  OnePlace(p)'
<1> USE CoresAssumption
<1>1. /\ p_cm[w] \in MessageIds /\ p_cm[w] # NoMessage /\ w \in Cores
  BY LocalInHand DEF InHandPCs, ReturnItem
<1>2. /\ UNCHANGED <<wire, sent, freed, rxq, pkts_burst, txb, mailbox>>
      /\ pc' = [pc EXCEPT ![w] = "mailbox"] /\ pc[w] = "return"
      /\ p_cm' = [p_cm EXCEPT ![w] = NoMessage]
  BY DEF ReturnItem, nicVars
<1>3. \A j \in MessageIds : j # p_cm[w] => msg'[j] = msg[j]
  BY <1>1, MessageTypes DEF ReturnItem
<1>4. ~InHand(p, w)' /\ ~InHand(p, w)
  BY <1>1, <1>2, MessageTypes DEF InHand
<1>5. \A v \in Cores : v # w => pc'[v] = pc[v] /\ p_cm'[v] = p_cm[v]
  BY <1>2, MessageTypes
<1> DEFINE X == {p_cm[w]}
<1>6. /\ \A v \in Cores : v # w => p_cm[v] \notin X
      /\ \A c \in Cores : \A k \in DOMAIN mailbox[c] : mailbox[c][k] \notin X
      /\ \A j \in MessageIds \ X : msg'[j] = msg[j]
  BY <1>1, <1>3, OwnHand
<1> HIDE DEF X
<1> QED BY <1>1, <1>2, <1>4, <1>5, <1>6, HandKept

(* A packet leaves the head of a ring for the hands of the core.           *)
LEMMA PlaceDequeue ==
    ASSUME IInv, NEW p \in Packets, OnePlace(p), NEW w \in Running, DequeueMailbox(w)
    PROVE  OnePlace(p)'
<1> USE CoresAssumption
<1>0. /\ UNCHANGED <<wire, sent, freed, rxq, pkts_burst, txb, msg>>
      /\ w \in Cores /\ pc[w] = "mailbox" /\ mailbox[w] \in Seq(Items)
  BY MessageTypes DEF DequeueMailbox, nicVars
<1>1. CASE mailbox[w] = <<>>
  <2>1. \A c, k : InRing(p, c, k)' <=> InRing(p, c, k)
    BY <1>0, <1>1 DEF InRing, DequeueMailbox
  <2>2. \A v \in Cores : InHand(p, v)' <=> InHand(p, v)
    BY <1>0, <1>1, MessageTypes DEF InHand, DequeueMailbox
  <2>3. \A t, c, k : At(p, t, c, k)' <=> At(p, t, c, k)
    BY <1>0, <2>1, <2>2, MessagesMove
  <2> QED BY <2>3, Stays
<1>2. CASE mailbox[w] # <<>>
  <2> DEFINE q == mailbox[w]
  <2>1. /\ p_cm' = [p_cm EXCEPT ![w] = Head(q)]
        /\ mailbox' = [mailbox EXCEPT ![w] = Tail(q)]
        /\ pc' = [pc EXCEPT ![w] = "handle"]
    BY <1>0, <1>2, MessageTypes DEF DequeueMailbox
  <2>2. /\ 1 \in DOMAIN q /\ Head(q) = q[1]
        /\ \A k \in DOMAIN Tail(q) :
              k \in Nat /\ k + 1 \in DOMAIN q /\ k + 1 # 1 /\ Tail(q)[k] = q[k + 1]
        /\ \A k \in DOMAIN q : k # 1 =>
              k \in Nat /\ k - 1 \in DOMAIN Tail(q) /\ Tail(q)[k - 1] = q[k]
    BY <1>0, <1>2, TailAt
  <2>3. /\ mailbox'[w] = Tail(q) /\ \A c \in Cores : c # w => mailbox'[c] = mailbox[c]
        /\ p_cm'[w] = Head(q) /\ pc'[w] = "handle"
        /\ \A c \in Cores : c # w => p_cm'[c] = p_cm[c] /\ pc'[c] = pc[c]
    BY <1>0, <2>1, MessageTypes
  <2> HIDE DEF q
  <2>4. \A c \in Cores : \A k : c # w => (InRing(p, c, k)' <=> InRing(p, c, k))
    BY <1>0, <2>3 DEF InRing
  <2>5. \A k : InRing(p, w, k)' => k \in Nat /\ InRing(p, w, k + 1) /\ k + 1 # 1
    BY <1>0, <2>2, <2>3 DEF InRing, q
  <2>6. \A k : InRing(p, w, k) /\ k # 1 => k \in Nat /\ InRing(p, w, k - 1)'
    BY <1>0, <2>2, <2>3 DEF InRing, q
  <2>7. \A v \in Cores : v # w => (InHand(p, v)' <=> InHand(p, v))
    BY <1>0, <2>3 DEF InHand
  <2>8. (InHand(p, w)' <=> InRing(p, w, 1)) /\ ~InHand(p, w)
    BY <1>0, <2>2, <2>3 DEF InHand, InRing, q
  \* Where p is now it was before, or one position further from the head.
  <2>m. \A a, b, n :
              /\ a # "queued" /\ a # "held" => (At(p, a, b, n)' <=> At(p, a, b, n))
              /\ At(p, "queued", b, n)' <=> b \in Cores /\ InRing(p, b, n)'
              /\ At(p, "queued", b, n) <=> b \in Cores /\ InRing(p, b, n)
              /\ At(p, "held", b, n)' <=> b \in Cores /\ n = 0 /\ InHand(p, b)'
              /\ At(p, "held", b, n) <=> b \in Cores /\ n = 0 /\ InHand(p, b)
    BY <1>0, MessagesMove
  <2>9. ASSUME NEW a, NEW b, NEW n, At(p, a, b, n)'
        PROVE  \/ a = "queued" /\ b = w /\ n \in Nat /\ At(p, "queued", w, n + 1) /\ n + 1 # 1
               \/ a = "held" /\ b = w /\ n = 0 /\ At(p, "queued", w, 1)
               \/ (a = "queued" \/ a = "held" => b # w) /\ At(p, a, b, n)
    <3> HIDE DEF InRing, InHand
    <3>1. CASE a = "queued"
      BY <1>0, <2>4, <2>5, <2>9, <2>m, <3>1
    <3>2. CASE a = "held"
      <4>1. b \in Cores /\ n = 0 /\ InHand(p, b)'
        BY <2>9, <2>m, <3>2
      <4>2. CASE b = w
        <5>1. InRing(p, w, 1)
          BY <2>8, <4>1, <4>2
        <5>2. At(p, "queued", w, 1)
          BY <1>0, <2>m, <5>1
        <5> QED BY <3>2, <4>1, <4>2, <5>2
      <4>3. CASE b # w
        <5>1. InHand(p, b)
          BY <2>7, <4>1, <4>3
        <5>2. At(p, "held", b, n)
          BY <2>m, <4>1, <5>1
        <5> QED BY <3>2, <4>3, <5>2
      <4> QED BY <4>2, <4>3
    <3>3. CASE a # "queued" /\ a # "held"
      BY <2>9, <2>m, <3>3
    <3> QED BY <3>1, <3>2, <3>3
  <2>10. PICK t, c, k : At(p, t, c, k)
                        /\ \A a, b, n : At(p, a, b, n) => a = t /\ b = c /\ n = k
    BY ThePlace
  <2>11. CASE t = "queued" /\ c = w /\ k = 1
    <3>1. At(p, "held", w, 0)'
      BY <1>0, <2>8, <2>10, <2>11, <2>m
    <3>2. \A a, b, n : At(p, a, b, n)' => a = "held" /\ b = w /\ n = 0
      BY <2>9, <2>10, <2>11
    <3> QED BY <3>1, <3>2, Moves
  <2>12. CASE t = "queued" /\ c = w /\ k # 1
    <3>1. k \in Nat /\ At(p, "queued", w, k - 1)'
      BY <1>0, <2>6, <2>10, <2>12, <2>m
    <3>2. ASSUME NEW a, NEW b, NEW n, At(p, a, b, n)'
          PROVE  a = "queued" /\ b = w /\ n = k - 1
      BY <2>9, <2>10, <2>12, <3>1, <3>2
    <3> QED BY <3>1, <3>2, Moves
  <2>13. CASE t # "queued" \/ c # w
    <3>1. At(p, t, c, k)'
      <4>1. CASE t = "queued"
        BY <2>4, <2>10, <2>13, <2>m, <4>1
      <4>2. CASE t = "held"
        <5>1. c \in Cores /\ k = 0 /\ InHand(p, c)
          BY <2>10, <2>m, <4>2
        <5>2. c # w
          BY <2>8, <5>1
        <5>3. InHand(p, c)'
          BY <2>7, <5>1, <5>2
        <5> QED BY <2>m, <4>2, <5>1, <5>3
      <4>3. CASE t # "queued" /\ t # "held"
        BY <2>10, <2>m, <4>3
      <4> QED BY <4>1, <4>2, <4>3
    <3>2. \A a, b, n : At(p, a, b, n)' => a = t /\ b = c /\ n = k
      BY <2>9, <2>10, <2>13
    <3> QED BY <3>1, <3>2, Moves
  <2> QED BY <2>11, <2>12, <2>13
<1> QED BY <1>1, <1>2

(* The message on the stack moves into an item that nobody has.            *)
LEMMA PlaceCopy ==
    ASSUME IInv, NEW p \in Packets, OnePlace(p), NEW w \in Running, CopyToItem(w)
    PROVE  OnePlace(p)'
<1> USE CoresAssumption, IdFacts
<1>1. /\ p_cm[w] \in MessageIds /\ p_cm[w] # NoMessage /\ w \in Cores
      /\ p_cm[w] = Local(w) /\ msg[p_cm[w]] \in Message
  BY LocalInHand DEF InHandPCs, CopyToItem
<1>2. PICK i \in message_buffer[w] :
         /\ p_cm' = [p_cm EXCEPT ![w] = i]
         /\ msg' = [msg EXCEPT ![i] = [msg[p_cm[w]] EXCEPT !.producer_id = w],
                               ![p_cm[w]] = NoMessage]
  BY DEF CopyToItem, FreeItems
<1>3. i \in Items /\ i \in MessageIds /\ i # p_cm[w]
  BY <1>1, <1>2, MessageTypes
<1> DEFINE X == {p_cm[w], i}
           m == [msg[p_cm[w]] EXCEPT !.producer_id = w]
<1>4. \A j \in MessageIds : msg'[j] = IF j = p_cm[w] THEN NoMessage
                                      ELSE IF j = i THEN m ELSE msg[j]
  <2> HIDE DEF m
  <2>1. msg' = [msg EXCEPT ![i] = m, ![p_cm[w]] = NoMessage]
    BY <1>2 DEF m
  <2> QED BY <1>1, <1>3, <2>1, MessageTypes
<1>5. m.m = msg[p_cm[w]].m
  BY <1>1 DEF Message
<1> HIDE DEF m
<1>6. p_cm'[w] = i /\ msg'[i] = m
  BY <1>1, <1>2, <1>3, <1>4, MessageTypes
<1>7. /\ UNCHANGED <<wire, sent, freed, rxq, pkts_burst, txb, mailbox>>
      /\ pc[w] = "handle" /\ pc' = [pc EXCEPT ![w] = "enqueue"]
  BY DEF CopyToItem, nicVars
<1>8. InHand(p, w)' <=> InHand(p, w)
  BY <1>1, <1>5, <1>6, <1>7, MessageTypes DEF InHand
<1>9. \A v \in Cores : v # w => pc'[v] = pc[v] /\ p_cm'[v] = p_cm[v]
  BY <1>2, <1>7, MessageTypes
<1>10. /\ \A v \in Cores : v # w => p_cm[v] \notin X
       /\ \A c \in Cores : \A k \in DOMAIN mailbox[c] : mailbox[c][k] \notin X
       /\ \A j \in MessageIds \ X : msg'[j] = msg[j]
  <2>1. ~Queued(i) /\ ~Held(i)
    BY <1>1, <1>2, Parts DEF FreeInItsBuffer
  <2>2. /\ \A v \in Cores : p_cm[v] # i
        /\ \A c \in Cores : \A k \in DOMAIN mailbox[c] : mailbox[c][k] # i
    BY <2>1 DEF Queued, Held
  <2> QED BY <1>1, <1>4, <2>2, OwnHand
<1> HIDE DEF X
<1> QED BY <1>1, <1>7, <1>8, <1>9, <1>10, HandKept

(* The packet of the message in hand is given up.                          *)
LEMMA PlaceFree ==
    ASSUME IInv, NEW p \in Packets, OnePlace(p), NEW w \in Running, FreePacket(w)
    PROVE  OnePlace(p)'
<1> USE CoresAssumption, IdFacts
<1>1. /\ p_cm[w] \in MessageIds /\ p_cm[w] # NoMessage /\ w \in Cores
  BY LocalInHand DEF InHandPCs, FreePacket
<1>2. /\ UNCHANGED <<wire, sent, rxq, pkts_burst, txb, mailbox>>
      /\ freed' = freed \cup {msg[p_cm[w]].m}
      /\ pc[w] = "handle" /\ pc' = [pc EXCEPT ![w] = ret_to[w]]
      /\ p_cm' = [p_cm EXCEPT ![w] = NoMessage]
      /\ msg' = [msg EXCEPT ![p_cm[w]] = NoMessage]
      /\ ret_to[w] \in {"mailbox", "next"}
  BY <1>1 DEF FreePacket, IInv, TypeOK
<1> DEFINE X == {p_cm[w]}
<1>3. /\ \A v \in Cores : v # w => p_cm[v] \notin X
      /\ \A c \in Cores : \A k \in DOMAIN mailbox[c] : mailbox[c][k] \notin X
      /\ \A j \in MessageIds \ X : msg'[j] = msg[j]
  BY <1>1, <1>2, OwnHand, MessageTypes
<1>4. \A v \in Cores : v # w => pc'[v] = pc[v] /\ p_cm'[v] = p_cm[v]
  BY <1>2, MessageTypes
<1> HIDE DEF X
<1>5. /\ \A c \in Cores : \A k : InRing(p, c, k)' <=> InRing(p, c, k)
      /\ \A v \in Cores : v # w => (InHand(p, v)' <=> InHand(p, v))
  <2>1. mailbox' = mailbox /\ w \in Cores
    BY <1>1, <1>2
  <2> QED BY <1>3, <1>4, <2>1, OthersKept
<1>6. ~InHand(p, w)'
  BY <1>1, <1>2, MessageTypes DEF InHand
<1>7. p \in freed' <=> p \in freed \/ InHand(p, w)
  BY <1>2 DEF InHand
<1>8. ASSUME NEW a, NEW b, NEW n, At(p, a, b, n)'
      PROVE  \/ a = "freed" /\ b = 0 /\ n = 0 /\ At(p, "held", w, 0)
             \/ At(p, a, b, n) /\ ~(a = "held" /\ b = w)
  <2>1. CASE a = "freed"
    BY <1>1, <1>7, <1>8, <2>1 DEF At, InHand
  <2>2. CASE a = "queued"
    BY <1>5, <1>8, <2>2 DEF At, InRing
  <2>3. CASE a = "held"
    <3>1. b \in Cores /\ n = 0 /\ InHand(p, b)'
      BY <1>8, <2>3 DEF At, InHand
    <3>2. b # w /\ InHand(p, b)
      BY <1>5, <1>6, <3>1
    <3> QED BY <2>3, <3>1, <3>2 DEF At, InHand
  <2>4. CASE a \notin {"freed", "queued", "held"}
    BY <1>2, <1>8, <2>4 DEF At
  <2> QED BY <2>1, <2>2, <2>3, <2>4
<1>9. PICK t, c, k : At(p, t, c, k)
                     /\ \A a, b, n : At(p, a, b, n) => a = t /\ b = c /\ n = k
  BY ThePlace
<1>10. CASE t = "held" /\ c = w
  <2>1. At(p, "freed", 0, 0)'
    <3>1. InHand(p, w)
      BY <1>9, <1>10 DEF At, InHand
    <3> QED BY <1>7, <3>1 DEF At
  <2>2. \A a, b, n : At(p, a, b, n)' => a = "freed" /\ b = 0 /\ n = 0
    BY <1>8, <1>9, <1>10
  <2> QED BY <2>1, <2>2, Moves
<1>11. CASE ~(t = "held" /\ c = w)
  <2>1. At(p, t, c, k)'
    <3>1. CASE t = "queued"
      BY <1>5, <1>9, <3>1 DEF At, InRing
    <3>2. CASE t = "held"
      <4>1. c \in Cores /\ c # w /\ k = 0 /\ InHand(p, c)
        BY <1>9, <1>11, <3>2 DEF At, InHand
      <4>2. InHand(p, c)'
        BY <1>5, <4>1
      <4> QED BY <3>2, <4>1, <4>2 DEF At, InHand
    <3>3. CASE t = "freed"
      BY <1>7, <1>9, <3>3 DEF At
    <3>4. CASE t \notin {"freed", "queued", "held"}
      BY <1>2, <1>9, <3>4 DEF At
    <3> QED BY <3>1, <3>2, <3>3, <3>4
  <2>2. \A a, b, n : At(p, a, b, n)' => a = t /\ b = c /\ n = k
    BY <1>8, <1>9, <1>11
  <2> QED BY <2>1, <2>2, Moves
<1> QED BY <1>10, <1>11

(* The item in hand enters a ring.                                         *)
LEMMA PlaceEnqueue ==
    ASSUME IInv, NEW p \in Packets, OnePlace(p), NEW w \in Running, Enqueue(w)
    PROVE  OnePlace(p)'
<1> USE CoresAssumption, IdFacts
<1>1. p_cm[w] \in Items /\ w \in Cores /\ pc[w] = "enqueue"
  BY Parts DEF HandOK, Hand, Enqueue
<1>2. PICK d \in Cores : d = dest[w]
  BY <1>1 DEF IInv, TypeOK
<1>3. /\ UNCHANGED <<wire, sent, freed, rxq, pkts_burst, txb, msg>>
      /\ mailbox' = [mailbox EXCEPT ![d] = Append(mailbox[d], p_cm[w])]
      /\ p_cm' = [p_cm EXCEPT ![w] = NoMessage]
      /\ pc' = [pc EXCEPT ![w] = ret_to[w]]
      /\ ret_to[w] \in {"mailbox", "next"}
      /\ mailbox[d] \in Seq(Items)
  BY <1>1, <1>2 DEF Enqueue, IInv, TypeOK, nicVars
<1>e. PICK e \in Nat : e = Len(mailbox[d]) + 1
  BY <1>3
<1>4. /\ \A c \in Cores : c # d => mailbox'[c] = mailbox[c]
      /\ mailbox'[d] = Append(mailbox[d], p_cm[w])
      /\ \A v \in Cores : v # w => pc'[v] = pc[v] /\ p_cm'[v] = p_cm[v]
      /\ pc'[w] \in {"mailbox", "next"}
  BY <1>1, <1>3, MessageTypes
<1>5. \A k : /\ k \in DOMAIN Append(mailbox[d], p_cm[w]) <=> k \in DOMAIN mailbox[d] \/ k = e
             /\ k \in DOMAIN mailbox[d] => Append(mailbox[d], p_cm[w])[k] = mailbox[d][k] /\ k # e
             /\ k = e => Append(mailbox[d], p_cm[w])[k] = p_cm[w]
  BY <1>1, <1>3, <1>e, AppendAt
<1>6. ASSUME NEW c \in Cores, NEW k
      PROVE  /\ c # d => (InRing(p, c, k)' <=> InRing(p, c, k))
             /\ c = d /\ k # e => (InRing(p, c, k)' <=> InRing(p, c, k))
             /\ ~InRing(p, d, e)
  BY <1>3, <1>4, <1>5 DEF InRing
<1>7. /\ InHand(p, w) <=> InRing(p, d, e)'
      /\ ~InHand(p, w)'
      /\ \A v \in Cores : v # w => (InHand(p, v)' <=> InHand(p, v))
  <2>1. ~InHand(p, w)'
    BY <1>4 DEF InHand
  <2>2. \A v \in Cores : v # w => (InHand(p, v)' <=> InHand(p, v))
    BY <1>3, <1>4 DEF InHand
  <2>3. e \in DOMAIN mailbox'[d] /\ mailbox'[d][e] = p_cm[w]
    BY <1>4, <1>5
  <2>4. InHand(p, w) <=> InRing(p, d, e)'
    BY <1>1, <1>3, <2>3 DEF InHand, InRing
  <2> QED BY <2>1, <2>2, <2>4
<1>8. ASSUME NEW a, NEW b, NEW n, At(p, a, b, n)'
      PROVE  \/ a = "queued" /\ b = d /\ n = e /\ At(p, "held", w, 0)
             \/ At(p, a, b, n) /\ ~(a = "held" /\ b = w)
  <2>1. CASE a = "queued"
    <3>1. b \in Cores /\ InRing(p, b, n)'
      BY <1>8, <2>1 DEF At, InRing
    <3>2. CASE b = d /\ n = e
      <4>1. InHand(p, w)
        BY <1>7, <3>1, <3>2
      <4>2. At(p, "held", w, 0)
        BY <1>1, <4>1 DEF At, InHand
      <4> QED BY <2>1, <3>2, <4>2
    <3>3. CASE ~(b = d /\ n = e)
      <4>1. InRing(p, b, n)
        BY <1>6, <3>1, <3>3
      <4> QED BY <2>1, <3>1, <4>1 DEF At, InRing
    <3> QED BY <3>2, <3>3
  <2>2. CASE a = "held"
    <3>1. b \in Cores /\ n = 0 /\ InHand(p, b)'
      BY <1>8, <2>2 DEF At, InHand
    <3>2. b # w /\ InHand(p, b)
      BY <1>7, <3>1
    <3> QED BY <2>2, <3>1, <3>2 DEF At, InHand
  <2>3. CASE a \notin {"queued", "held"}
    BY <1>3, <1>8, <2>3 DEF At
  <2> QED BY <2>1, <2>2, <2>3
<1>9. PICK t, c, k : At(p, t, c, k)
                     /\ \A a, b, n : At(p, a, b, n) => a = t /\ b = c /\ n = k
  BY ThePlace
<1>10. CASE t = "held" /\ c = w
  <2>1. At(p, "queued", d, e)'
    <3>1. InHand(p, w)
      BY <1>9, <1>10 DEF At, InHand
    <3> QED BY <1>2, <1>7, <3>1 DEF At, InRing
  <2>2. \A a, b, n : At(p, a, b, n)' => a = "queued" /\ b = d /\ n = e
    BY <1>8, <1>9, <1>10
  <2> QED BY <2>1, <2>2, Moves
<1>11. CASE ~(t = "held" /\ c = w)
  <2>1. At(p, t, c, k)'
    <3>1. CASE t = "queued"
      <4>1. c \in Cores /\ InRing(p, c, k)
        BY <1>9, <3>1 DEF At, InRing
      <4>2. InRing(p, c, k)'
        BY <1>6, <4>1
      <4> QED BY <3>1, <4>1, <4>2 DEF At, InRing
    <3>2. CASE t = "held"
      <4>1. c \in Cores /\ c # w /\ k = 0 /\ InHand(p, c)
        BY <1>9, <1>11, <3>2 DEF At, InHand
      <4>2. InHand(p, c)'
        BY <1>7, <4>1
      <4> QED BY <3>2, <4>1, <4>2 DEF At, InHand
    <3>3. CASE t \notin {"queued", "held"}
      BY <1>3, <1>9, <3>3 DEF At
    <3> QED BY <3>1, <3>2, <3>3
  <2>2. \A a, b, n : At(p, a, b, n)' => a = t /\ b = c /\ n = k
    BY <1>8, <1>9, <1>11
  <2> QED BY <2>1, <2>2, Moves
<1> QED BY <1>10, <1>11

(* The first packet of the burst enters the message on the stack.          *)
LEMMA PlaceNextPacket ==
    ASSUME IInv, NEW p \in Packets, OnePlace(p), NEW w \in Running, NextPacket(w)
    PROVE  OnePlace(p)'
<1> USE CoresAssumption, IdFacts
<1>1. /\ w \in Cores /\ pc[w] = "next" /\ p_cm[w] = NoMessage
      /\ UNCHANGED <<wire, sent, freed, rxq, txb, mailbox>>
      /\ pkts_burst[w] \in Seq(Packets)
  BY Parts DEF HandOK, Hand, InHandPCs, NextPacket, nicVars, TypeOK
<1>2. CASE pkts_burst[w] = <<>>
  <2>1. /\ UNCHANGED <<p_cm, pkts_burst, msg>>
        /\ \A v \in Cores : v # w => pc'[v] = pc[v] /\ p_cm'[v] = p_cm[v]
        /\ ~InHand(p, w)' /\ ~InHand(p, w)
    BY <1>1, <1>2, MessageTypes DEF NextPacket, InHand
  <2> DEFINE X == {}
  <2>2. /\ \A v \in Cores : v # w => p_cm[v] \notin X
        /\ \A c \in Cores : \A k \in DOMAIN mailbox[c] : mailbox[c][k] \notin X
        /\ \A j \in MessageIds \ X : msg'[j] = msg[j]
    BY <2>1
  <2> HIDE DEF X
  <2> QED BY <1>1, <2>1, <2>2, HandKept
<1>3. CASE pkts_burst[w] # <<>>
  <2> DEFINE q == pkts_burst[w]
             X == {Local(w)}
  <2>1. /\ 1 \in DOMAIN q /\ Head(q) = q[1]
        /\ \A k \in DOMAIN Tail(q) :
              k \in Nat /\ k + 1 \in DOMAIN q /\ k + 1 # 1 /\ Tail(q)[k] = q[k + 1]
        /\ \A k \in DOMAIN q : k # 1 =>
              k \in Nat /\ k - 1 \in DOMAIN Tail(q) /\ Tail(q)[k - 1] = q[k]
    BY <1>1, <1>3, TailAt
  <2>2. /\ pc' = [pc EXCEPT ![w] = "handle"]
        /\ p_cm' = [p_cm EXCEPT ![w] = Local(w)]
        /\ pkts_burst' = [pkts_burst EXCEPT ![w] = Tail(q)]
        /\ msg' = [msg EXCEPT ![Local(w)] = StackMessage(w, Head(q))]
    BY <1>3, Parts DEF NextPacket, TypeOK
  <2>3. /\ pkts_burst'[w] = Tail(q)
        /\ \A c \in Cores : c # w => pkts_burst'[c] = pkts_burst[c]
        /\ \A v \in Cores : v # w => pc'[v] = pc[v] /\ p_cm'[v] = p_cm[v]
        /\ pc'[w] = "handle" /\ p_cm'[w] = Local(w)
        /\ msg'[Local(w)] = StackMessage(w, Head(q))
    BY <1>1, <2>2, Parts DEF TypeOK
  <2>4. /\ \A v \in Cores : v # w => p_cm[v] \notin X
        /\ \A c \in Cores : \A k \in DOMAIN mailbox[c] : mailbox[c][k] \notin X
        /\ \A j \in MessageIds \ X : msg'[j] = msg[j]
    <3>1. \A v \in Cores : v # w => p_cm[v] # Local(w)
      BY <1>1, Parts DEF HandOK, Hand
    <3>2. \A c \in Cores : \A k \in DOMAIN mailbox[c] : mailbox[c][k] # Local(w)
      <4>1. Local(w) \notin Items
        BY <1>1
      <4> QED BY <4>1, QueuedItems
    <3> QED BY <2>2, <3>1, <3>2, MessageTypes
  <2> HIDE DEF X
  <2>5. /\ \A c \in Cores : \A k : InRing(p, c, k)' <=> InRing(p, c, k)
        /\ \A v \in Cores : v # w => (InHand(p, v)' <=> InHand(p, v))
    <3>1. mailbox' = mailbox /\ w \in Cores
      BY <1>1
    <3> QED BY <2>3, <2>4, <3>1, OthersKept
  <2>6. ~InHand(p, w) /\ (InHand(p, w)' <=> q[1] = p)
    BY <1>1, <2>1, <2>3 DEF InHand, StackMessage
  <2> HIDE DEF q
  <2>7. ASSUME NEW a, NEW b, NEW n, At(p, a, b, n)'
        PROVE  \/ a = "burst" /\ b = w /\ n \in Nat /\ At(p, "burst", w, n + 1) /\ n + 1 # 1
               \/ a = "held" /\ b = w /\ n = 0 /\ At(p, "burst", w, 1)
               \/ (a = "burst" \/ a = "held" => b # w) /\ At(p, a, b, n)
    <3>1. CASE a = "burst"
      <4>1. b \in Cores /\ n \in DOMAIN pkts_burst'[b] /\ pkts_burst'[b][n] = p
        BY <2>7, <3>1 DEF At
      <4>2. CASE b = w
        <5>1. n \in Nat /\ n + 1 \in DOMAIN pkts_burst[w] /\ n + 1 # 1
              /\ pkts_burst[w][n + 1] = p
          BY <2>1, <2>3, <4>1, <4>2 DEF q
        <5>2. At(p, "burst", w, n + 1)
          BY <1>1, <5>1 DEF At
        <5> QED BY <3>1, <4>2, <5>1, <5>2
      <4>3. CASE b # w
        BY <2>3, <3>1, <4>1, <4>3 DEF At
      <4> QED BY <4>2, <4>3
    <3>2. CASE a = "held"
      <4>1. b \in Cores /\ n = 0 /\ InHand(p, b)'
        BY <2>7, <3>2 DEF At, InHand
      <4>2. CASE b = w
        BY <1>1, <2>1, <2>6, <3>2, <4>1, <4>2 DEF At, q
      <4>3. CASE b # w
        <5>1. InHand(p, b)
          BY <2>5, <4>1, <4>3
        <5> QED BY <3>2, <4>1, <4>3, <5>1 DEF At, InHand
      <4> QED BY <4>2, <4>3
    <3>3. CASE a = "queued"
      BY <2>5, <2>7, <3>3 DEF At, InRing
    <3>4. CASE a \notin {"burst", "held", "queued"}
      BY <1>1, <2>7, <3>4 DEF At
    <3> QED BY <3>1, <3>2, <3>3, <3>4
  <2>8. PICK t, c, k : At(p, t, c, k)
                       /\ \A a, b, n : At(p, a, b, n) => a = t /\ b = c /\ n = k
    BY ThePlace
  <2>9. CASE t = "burst" /\ c = w /\ k = 1
    <3>1. At(p, "held", w, 0)'
      <4>1. q[1] = p
        BY <2>8, <2>9 DEF At, q
      <4> QED BY <1>1, <2>6, <4>1 DEF At, InHand
    <3>2. \A a, b, n : At(p, a, b, n)' => a = "held" /\ b = w /\ n = 0
      BY <2>7, <2>8, <2>9
    <3> QED BY <3>1, <3>2, Moves
  <2>10. CASE t = "burst" /\ c = w /\ k # 1
    <3>1. k \in Nat /\ At(p, "burst", w, k - 1)'
      <4>1. k \in DOMAIN q /\ q[k] = p
        BY <2>8, <2>10 DEF At, q
      <4> QED BY <1>1, <2>1, <2>3, <2>10, <4>1 DEF At
    <3>2. ASSUME NEW a, NEW b, NEW n, At(p, a, b, n)'
          PROVE  a = "burst" /\ b = w /\ n = k - 1
      BY <2>7, <2>8, <2>10, <3>1, <3>2
    <3> QED BY <3>1, <3>2, Moves
  <2>11. CASE t # "burst" \/ c # w
    <3>1. At(p, t, c, k)'
      <4>1. CASE t = "burst"
        BY <2>3, <2>8, <2>11, <4>1 DEF At
      <4>2. CASE t = "held"
        <5>1. c \in Cores /\ k = 0 /\ InHand(p, c)
          BY <2>8, <4>2 DEF At, InHand
        <5>2. InHand(p, c)'
          BY <2>5, <2>6, <5>1
        <5> QED BY <4>2, <5>1, <5>2 DEF At, InHand
      <4>3. CASE t = "queued"
        BY <2>5, <2>8, <4>3 DEF At, InRing
      <4>4. CASE t \notin {"burst", "held", "queued"}
        BY <1>1, <2>8, <4>4 DEF At
      <4> QED BY <4>1, <4>2, <4>3, <4>4
    <3>2. \A a, b, n : At(p, a, b, n)' => a = t /\ b = c /\ n = k
      BY <2>7, <2>8, <2>11
    <3> QED BY <3>1, <3>2, Moves
  <2> QED BY <2>9, <2>10, <2>11
<1> QED BY <1>2, <1>3

(* A step that touches only the NIC's side.                                *)
LEMMA MessagesStay ==
    ASSUME NEW p, UNCHANGED <<msg, mailbox, p_cm>>,
           \A v \in Cores : pc'[v] \in {"handle", "run", "enqueue"} <=>
                               pc[v] \in {"handle", "run", "enqueue"}
    PROVE  \A c, k : /\ At(p, "queued", c, k)' <=> At(p, "queued", c, k)
                     /\ At(p, "held", c, k)' <=> At(p, "held", c, k)
<1>1. \A c, k : At(p, "queued", c, k)' <=> At(p, "queued", c, k)
  BY DEF At
<1>2. \A c, k : At(p, "held", c, k)' <=> At(p, "held", c, k)
  BY DEF At
<1> QED BY <1>1, <1>2

(* The first packets of the queue become the burst; there was none.        *)
LEMMA PlaceRxBurst ==
    ASSUME IInv, BurstOK, NEW p \in Packets, OnePlace(p), NEW w \in Running, RxBurst(w)
    PROVE  OnePlace(p)'
<1> USE CoresAssumption
<1>1. /\ w \in Cores /\ pc[w] = "poll" /\ rxq[w] \in Seq(Packets)
      /\ UNCHANGED <<wire, sent, freed, txb, msg, mailbox, p_cm>>
      /\ pc' = [pc EXCEPT ![w] = "next"]
  BY DEF RxBurst, IInv, TypeOK, messageVars
<1>2. pkts_burst[w] = <<>>
  <2>1. p_cm[w] = NoMessage
    BY <1>1, Parts DEF HandOK, Hand, InHandPCs
  <2>2. p_cm[w] # Local(w)
    BY <1>1, <2>1, IdFacts
  <2> QED BY <1>1, <2>2 DEF BurstOK, Burst1
<1>3. PICK n \in Nat : n = IF Len(rxq[w]) < BurstSize THEN Len(rxq[w]) ELSE BurstSize
  BY <1>1, SizeAssumption
<1>4. n <= Len(rxq[w])
  BY <1>1, <1>3, SizeAssumption
<1> DEFINE q == rxq[w]
           s1 == SubSeq(q, 1, n)
           s2 == SubSeq(q, n + 1, Len(q))
<1>5. pkts_burst' = [pkts_burst EXCEPT ![w] = s1] /\ rxq' = [rxq EXCEPT ![w] = s2]
  BY <1>1, <1>3, Parts DEF RxBurst, Burst, TypeOK
<1>6. PICK l \in Nat : l = Len(q)
  BY <1>1
<1>7. /\ DOMAIN q = 1..l /\ DOMAIN s1 = 1..n /\ DOMAIN s2 = 1..(l - n) /\ n <= l
      /\ \A k \in 1..n : s1[k] = q[k]
      /\ \A k \in 1..(l - n) : s2[k] = q[n + k]
  <2>1. q \in Seq(Packets) /\ n \in Nat /\ n <= Len(q)
    BY <1>1, <1>4
  <2> HIDE DEF q
  <2>2. /\ DOMAIN q = 1..Len(q)
        /\ DOMAIN s1 = 1..n
        /\ \A k \in 1..n : s1[k] = q[k]
        /\ DOMAIN s2 = 1..(Len(q) - n)
        /\ \A k \in 1..(Len(q) - n) : s2[k] = q[n + k]
    BY <2>1, SplitAt
  <2> HIDE DEF s1, s2
  <2> QED BY <1>6, <2>1, <2>2
<1> HIDE DEF s1, s2
<1>8. /\ pkts_burst'[w] = s1 /\ \A c \in Cores : c # w => pkts_burst'[c] = pkts_burst[c]
      /\ rxq'[w] = s2 /\ \A c \in Cores : c # w => rxq'[c] = rxq[c]
  BY <1>1, <1>5, Parts DEF TypeOK
<1> HIDE DEF q
<1>m. \A c, k : /\ At(p, "queued", c, k)' <=> At(p, "queued", c, k)
                /\ At(p, "held", c, k)' <=> At(p, "held", c, k)
  <2>1. \A v \in Cores : pc'[v] \in {"handle", "run", "enqueue"} <=>
                            pc[v] \in {"handle", "run", "enqueue"}
    BY <1>1, MessageTypes
  <2> QED BY <1>1, <2>1, MessagesStay
<1>9. ASSUME NEW a, NEW b, NEW k, At(p, a, b, k)'
      PROVE  \/ a = "burst" /\ b = w /\ k \in 1..n /\ At(p, "rxq", w, k)
             \/ a = "rxq" /\ b = w /\ k \in 1..(l - n) /\ At(p, "rxq", w, n + k)
             \/ ~(a \in {"rxq", "burst"} /\ b = w) /\ At(p, a, b, k)
  <2>1. CASE a = "burst"
    <3>1. b \in Cores /\ k \in DOMAIN pkts_burst'[b] /\ pkts_burst'[b][k] = p
      BY <1>9, <2>1 DEF At
    <3>2. CASE b = w
      <4>1. k \in 1..n /\ k \in DOMAIN rxq[w] /\ rxq[w][k] = p
        BY <1>7, <1>8, <3>1, <3>2 DEF q
      <4> QED BY <1>1, <2>1, <3>2, <4>1 DEF At
    <3>3. CASE b # w
      BY <1>8, <2>1, <3>1, <3>3 DEF At
    <3> QED BY <3>2, <3>3
  <2>2. CASE a = "rxq"
    <3>1. b \in Cores /\ k \in DOMAIN rxq'[b] /\ rxq'[b][k] = p
      BY <1>9, <2>2 DEF At
    <3>2. CASE b = w
      <4>1. k \in 1..(l - n) /\ n + k \in DOMAIN rxq[w] /\ rxq[w][n + k] = p
        BY <1>7, <1>8, <3>1, <3>2 DEF q
      <4> QED BY <1>1, <2>2, <3>2, <4>1 DEF At
    <3>3. CASE b # w
      BY <1>8, <2>2, <3>1, <3>3 DEF At
    <3> QED BY <3>2, <3>3
  <2>3. CASE a = "queued" \/ a = "held"
    BY <1>9, <1>m, <2>3
  <2>4. CASE a \notin {"burst", "rxq", "queued", "held"}
    BY <1>1, <1>9, <2>4 DEF At
  <2> QED BY <2>1, <2>2, <2>3, <2>4
<1>10. PICK t, c, j : At(p, t, c, j)
                      /\ \A a, b, k : At(p, a, b, k) => a = t /\ b = c /\ k = j
  BY ThePlace
<1>11. CASE t = "rxq" /\ c = w
  <2>1. j \in 1..l /\ rxq[w][j] = p
    BY <1>7, <1>10, <1>11 DEF At, q
  <2>2. CASE j <= n
    <3>1. At(p, "burst", w, j)'
      <4>1. j \in DOMAIN pkts_burst'[w] /\ pkts_burst'[w][j] = p
        BY <1>7, <1>8, <2>1, <2>2 DEF q
      <4> QED BY <1>1, <4>1 DEF At
    <3>2. ASSUME NEW a, NEW b, NEW k, At(p, a, b, k)'
          PROVE  a = "burst" /\ b = w /\ k = j
      <4>1. k \in 1..(l - n) => n + k # j
        BY <2>1, <2>2
      <4> QED BY <1>9, <1>10, <1>11, <3>2, <4>1
    <3> QED BY <3>1, <3>2, Moves
  <2>3. CASE ~(j <= n)
    <3>1. j - n \in 1..(l - n) /\ n + (j - n) = j
      BY <2>1, <2>3
    <3>2. At(p, "rxq", w, j - n)'
      <4>1. j - n \in DOMAIN rxq'[w] /\ rxq'[w][j - n] = p
        BY <1>7, <1>8, <2>1, <3>1 DEF q
      <4> QED BY <1>1, <4>1 DEF At
    <3>3. ASSUME NEW a, NEW b, NEW k, At(p, a, b, k)'
          PROVE  a = "rxq" /\ b = w /\ k = j - n
      <4>1. k \in 1..n => k # j
        BY <2>1, <2>3
      <4>2. k \in 1..(l - n) /\ n + k = j => k = j - n
        BY <2>1
      <4> QED BY <1>9, <1>10, <1>11, <3>3, <4>1, <4>2
    <3> QED BY <3>2, <3>3, Moves
  <2> QED BY <2>2, <2>3
<1>12. CASE t # "rxq" \/ c # w
  <2>1. At(p, t, c, j)'
    <3>1. CASE t = "burst"
      <4>1. c # w
        BY <1>2, <1>10, <3>1 DEF At
      <4> QED BY <1>8, <1>10, <3>1, <4>1 DEF At
    <3>2. CASE t = "rxq"
      BY <1>8, <1>10, <1>12, <3>2 DEF At
    <3>3. CASE t = "queued" \/ t = "held"
      BY <1>10, <1>m, <3>3
    <3>4. CASE t \notin {"burst", "rxq", "queued", "held"}
      BY <1>1, <1>10, <3>4 DEF At
    <3> QED BY <3>1, <3>2, <3>3, <3>4
  <2>2. \A a, b, k : At(p, a, b, k)' => a = t /\ b = c /\ k = j
    BY <1>9, <1>10, <1>12
  <2> QED BY <2>1, <2>2, Moves
<1> QED BY <1>11, <1>12

(* A packet on the wire enters the queue its bucket selects.               *)
LEMMA PlaceArrive ==
    ASSUME IInv, NEW p \in Packets, OnePlace(p), NEW r \in Packets, Arrive(r)
    PROVE  OnePlace(p)'
<1>1. PICK d \in Cores : d = reta[RssHash[r]]
  BY TrafficAssumption
<1>2. /\ UNCHANGED <<sent, freed, txb, msg, mailbox, p_cm, pc, pkts_burst>>
      /\ wire' = wire \ {r} /\ r \in wire
      /\ rxq' = [rxq EXCEPT ![d] = Append(rxq[d], r)]
      /\ rxq[d] \in Seq(Packets)
  BY <1>1, Parts DEF Arrive, loopVars, messageVars, TypeOK
<1>3. PICK e \in Nat : e = Len(rxq[d]) + 1
  BY <1>2
<1>4. \A k : /\ k \in DOMAIN Append(rxq[d], r) <=> k \in DOMAIN rxq[d] \/ k = e
             /\ k \in DOMAIN rxq[d] => Append(rxq[d], r)[k] = rxq[d][k] /\ k # e
             /\ k = e => Append(rxq[d], r)[k] = r
  BY <1>2, <1>3, AppendAt
<1>5. rxq'[d] = Append(rxq[d], r) /\ \A c \in Cores : c # d => rxq'[c] = rxq[c]
  BY <1>2, Parts DEF TypeOK
<1>m. \A c, k : /\ At(p, "queued", c, k)' <=> At(p, "queued", c, k)
                /\ At(p, "held", c, k)' <=> At(p, "held", c, k)
  <2>1. \A v \in Cores : pc'[v] \in {"handle", "run", "enqueue"} <=>
                            pc[v] \in {"handle", "run", "enqueue"}
    BY <1>2
  <2> QED BY <1>2, <2>1, MessagesStay
<1>6. ASSUME NEW a, NEW b, NEW k, At(p, a, b, k)'
      PROVE  \/ a = "rxq" /\ b = d /\ k = e /\ p = r
             \/ ~(a = "wire" /\ p = r) /\ At(p, a, b, k)
  <2>1. CASE a = "rxq"
    <3>1. b \in Cores /\ k \in DOMAIN rxq'[b] /\ rxq'[b][k] = p
      BY <1>6, <2>1 DEF At
    <3>2. CASE b = d
      BY <1>4, <1>5, <2>1, <3>1, <3>2 DEF At
    <3>3. CASE b # d
      BY <1>5, <2>1, <3>1, <3>3 DEF At
    <3> QED BY <3>2, <3>3
  <2>2. CASE a = "queued" \/ a = "held"
    BY <1>6, <1>m, <2>2
  <2>3. CASE a \notin {"rxq", "queued", "held"}
    BY <1>2, <1>6, <2>3 DEF At
  <2> QED BY <2>1, <2>2, <2>3
<1>7. PICK t, c, j : At(p, t, c, j)
                     /\ \A a, b, k : At(p, a, b, k) => a = t /\ b = c /\ k = j
  BY ThePlace
<1>8. CASE p = r
  <2>1. At(p, "rxq", d, e)'
    BY <1>4, <1>5, <1>8 DEF At
  <2>2. t = "wire"
    BY <1>2, <1>7, <1>8 DEF At
  <2>3. \A a, b, k : At(p, a, b, k)' => a = "rxq" /\ b = d /\ k = e
    BY <1>6, <1>7, <1>8, <2>2
  <2> QED BY <2>1, <2>3, Moves
<1>9. CASE p # r
  <2>1. At(p, t, c, j)'
    <3>1. CASE t = "rxq"
      <4>1. c \in Cores /\ j \in DOMAIN rxq[c] /\ rxq[c][j] = p
        BY <1>7, <3>1 DEF At
      <4>2. j \in DOMAIN rxq'[c] /\ rxq'[c][j] = p
        BY <1>4, <1>5, <4>1
      <4> QED BY <3>1, <4>1, <4>2 DEF At
    <3>2. CASE t = "queued" \/ t = "held"
      BY <1>7, <1>m, <3>2
    <3>3. CASE t \notin {"rxq", "queued", "held"}
      BY <1>2, <1>7, <1>9, <3>3 DEF At
    <3> QED BY <3>1, <3>2, <3>3
  <2>2. \A a, b, k : At(p, a, b, k)' => a = t /\ b = c /\ k = j
    BY <1>6, <1>7, <1>9
  <2> QED BY <2>1, <2>2, Moves
<1> QED BY <1>8, <1>9

(* A buffer leaves with what it holds, and perhaps with the packet in the  *)
(* hands of w at its end: each of these is sent or freed.                  *)
Leaves(p, w, s, q, k, l) ==
    /\ \A i \in 1..l : q[i] = p => At(p, "txb", s, i) \/ (At(p, "held", w, 0) /\ i = l)
    /\ \A i : At(p, "txb", s, i) => i \in 1..l /\ q[i] = p
    /\ p \in sent' <=> p \in sent \/ \E i \in 1..k : q[i] = p
    /\ p \in freed' <=> p \in freed \/ \E i \in (k + 1)..l : q[i] = p
    /\ UNCHANGED <<wire, rxq, pkts_burst>>
    /\ txb'[s] = <<>>
    /\ \A c \in Cores : c # s => txb'[c] = txb[c]
    /\ \A c, n : At(p, "queued", c, n)' <=> At(p, "queued", c, n)
    /\ \A c, n : c # w => (At(p, "held", c, n)' <=> At(p, "held", c, n))
    /\ At(p, "held", w, 0)' => At(p, "held", w, 0) /\ \A i \in 1..l : q[i] # p
    /\ At(p, "held", w, 0) => At(p, "held", w, 0)' \/ \E i \in 1..l : q[i] = p

(* A buffer that leaves takes each of its packets to one side.             *)
LEMMA BufferLeaves ==
    ASSUME NEW p, OnePlace(p), NEW w \in Cores, NEW s \in Cores, NEW q,
           NEW k \in Nat, NEW l \in Nat, k <= l, Leaves(p, w, s, q, k, l)
    PROVE  OnePlace(p)'
<1>0. /\ \A i \in 1..l : q[i] = p => At(p, "txb", s, i) \/ (At(p, "held", w, 0) /\ i = l)
      /\ \A i : At(p, "txb", s, i) => i \in 1..l /\ q[i] = p
      /\ p \in sent' <=> p \in sent \/ \E i \in 1..k : q[i] = p
      /\ p \in freed' <=> p \in freed \/ \E i \in (k + 1)..l : q[i] = p
      /\ UNCHANGED <<wire, rxq, pkts_burst>>
      /\ txb'[s] = <<>>
      /\ \A c \in Cores : c # s => txb'[c] = txb[c]
      /\ \A c, n : At(p, "queued", c, n)' <=> At(p, "queued", c, n)
      /\ \A c, n : c # w => (At(p, "held", c, n)' <=> At(p, "held", c, n))
      /\ At(p, "held", w, 0)' => At(p, "held", w, 0) /\ \A i \in 1..l : q[i] # p
      /\ At(p, "held", w, 0) => At(p, "held", w, 0)' \/ \E i \in 1..l : q[i] = p
  BY DEF Leaves
<1> USE <1>0
<1>1. PICK t, c, j : At(p, t, c, j)
                     /\ \A a, b, n : At(p, a, b, n) => a = t /\ b = c /\ n = j
  BY ThePlace
<1>2. ASSUME NEW a, NEW b, NEW n, At(p, a, b, n)', a \notin {"sent", "freed"}
      PROVE  /\ At(p, a, b, n) /\ ~(a = "txb" /\ b = s)
             /\ a = "held" /\ b = w => \A i \in 1..l : q[i] # p
  <2>1. CASE a = "txb"
    BY <1>2, <2>1 DEF At
  <2>2. CASE a = "queued"
    BY <1>2, <2>2
  <2>3. CASE a = "held"
    <3>1. n = 0
      BY <1>2, <2>3 DEF At
    <3> QED BY <1>2, <2>3, <3>1
  <2>4. CASE a \notin {"txb", "queued", "held"}
    BY <1>2, <2>4 DEF At
  <2> QED BY <2>1, <2>2, <2>3, <2>4
<1>3. ASSUME NEW a, NEW b, NEW n, a \in {"sent", "freed"}
      PROVE  /\ At(p, a, b, n)' <=> b = 0 /\ n = 0 /\ (a = "sent" => p \in sent')
                                    /\ (a = "freed" => p \in freed')
             /\ At(p, a, b, n) <=> b = 0 /\ n = 0 /\ (a = "sent" => p \in sent)
                                    /\ (a = "freed" => p \in freed)
  BY <1>3 DEF At
<1>4. CASE \E i \in 1..l : q[i] = p
  <2>1. PICK i \in 1..l : q[i] = p
    BY <1>4
  <2>2. \/ t = "txb" /\ c = s /\ j = i
        \/ t = "held" /\ c = w /\ j = 0 /\ i = l
    BY <1>1, <2>1
  <2>3. \A m \in 1..l : q[m] = p => m = i
    BY <1>1, <2>1, <2>2
  <2>4. p \notin sent /\ p \notin freed
    BY <1>1, <1>3, <2>2
  <2>5. p \in sent' <=> i <= k
    BY <2>1, <2>3, <2>4
  <2>6. p \in freed' <=> ~(i <= k)
    BY <2>1, <2>3, <2>4
  <2>7. \A a, b, n : At(p, a, b, n)' => a \in {"sent", "freed"}
    <3> SUFFICES ASSUME NEW a, NEW b, NEW n, At(p, a, b, n)', a \notin {"sent", "freed"}
                 PROVE  FALSE
      OBVIOUS
    <3>1. a = t /\ b = c /\ ~(a = "txb" /\ b = s) /\ ~(a = "held" /\ b = w)
      BY <1>1, <1>2, <2>1
    <3> QED BY <2>2, <3>1
  <2>8. CASE i <= k
    <3>1. At(p, "sent", 0, 0)' /\ ~At(p, "freed", 0, 0)'
      BY <1>3, <2>5, <2>6, <2>8
    <3>2. ASSUME NEW a, NEW b, NEW n, At(p, a, b, n)'  PROVE a = "sent" /\ b = 0 /\ n = 0
      <4>1. a \in {"sent", "freed"}
        BY <2>7, <3>2
      <4> QED BY <1>3, <2>5, <2>6, <2>8, <3>2, <4>1
    <3> QED BY <3>1, <3>2, Moves
  <2>9. CASE ~(i <= k)
    <3>1. At(p, "freed", 0, 0)'
      BY <1>3, <2>6, <2>9
    <3>2. ASSUME NEW a, NEW b, NEW n, At(p, a, b, n)'  PROVE a = "freed" /\ b = 0 /\ n = 0
      <4>1. a \in {"sent", "freed"}
        BY <2>7, <3>2
      <4> QED BY <1>3, <2>5, <2>6, <2>9, <3>2, <4>1
    <3> QED BY <3>1, <3>2, Moves
  <2> QED BY <2>8, <2>9
<1>5. CASE ~ \E i \in 1..l : q[i] = p
  <2>1. (p \in sent' <=> p \in sent) /\ (p \in freed' <=> p \in freed)
    <3>1. \A i \in 1..k : i \in 1..l
      OBVIOUS
    <3>2. \A i \in (k + 1)..l : i \in 1..l
      OBVIOUS
    <3> QED BY <1>5, <3>1, <3>2
  <2>2. \A a, b, n : At(p, a, b, n)' => At(p, a, b, n)
    BY <1>2, <1>3, <2>1
  <2>3. At(p, t, c, j)'
    <3>1. ~(t = "txb" /\ c = s)
      BY <1>1, <1>5
    <3>2. CASE t = "txb"
      BY <1>1, <3>1, <3>2 DEF At
    <3>3. CASE t = "queued"
      BY <1>1, <3>3
    <3>4. CASE t = "held"
      <4>1. j = 0
        BY <1>1, <3>4 DEF At
      <4> QED BY <1>1, <1>5, <3>4, <4>1
    <3>5. CASE t \in {"sent", "freed"}
      BY <1>1, <1>3, <2>1, <3>5
    <3>6. CASE t \notin {"txb", "queued", "held", "sent", "freed"}
      BY <1>1, <3>6 DEF At
    <3> QED BY <3>2, <3>3, <3>4, <3>5, <3>6
  <2>4. \A a, b, n : At(p, a, b, n)' => a = t /\ b = c /\ n = j
    BY <1>1, <2>2
  <2> QED BY <2>3, <2>4, Moves
<1> QED BY <1>4, <1>5

(* What is sent and what is freed when a buffer leaves.                    *)
LEMMA LeaveAt ==
    ASSUME NEW p, NEW buf, NEW k, NEW l,
           sent' = sent \cup {buf[i] : i \in 1..k},
           freed' = freed \cup {buf[i] : i \in (k + 1)..l}
    PROVE  /\ p \in sent' <=> p \in sent \/ \E i \in 1..k : buf[i] = p
           /\ p \in freed' <=> p \in freed \/ \E i \in (k + 1)..l : buf[i] = p
<1>2. p \in {buf[i] : i \in 1..k} <=> \E i \in 1..k : buf[i] = p
  OBVIOUS
<1>3. p \in {buf[i] : i \in (k + 1)..l} <=> \E i \in (k + 1)..l : buf[i] = p
  OBVIOUS
<1> QED BY <1>2, <1>3

(* The drain timer empties the transmit buffer of the worker.              *)
LEMMA PlaceFlush ==
    ASSUME IInv, NEW p \in Packets, OnePlace(p), NEW w \in Running, FlushTxBuffer(w)
    PROVE  OnePlace(p)'
<1> USE CoresAssumption
<1>1. /\ w \in Cores /\ txb[w] \in Seq(Packets)
      /\ UNCHANGED <<wire, rxq, pkts_burst, msg, mailbox, p_cm>>
      /\ txb' = [txb EXCEPT ![w] = <<>>]
      /\ pc[w] = "flush" /\ pc' = [pc EXCEPT ![w] = "mailbox"]
  BY Parts DEF FlushTxBuffer, messageVars, TypeOK
<1>2. PICK q \in Seq(Packets) : q = txb[w]
  BY <1>1
<1>3. PICK l \in Nat : l = Len(q)
  BY <1>2
<1>4. PICK k \in 0..l : /\ sent' = sent \cup {q[i] : i \in 1..k}
                       /\ freed' = freed \cup {q[i] : i \in (k + 1)..l}
  BY <1>2, <1>3 DEF FlushTxBuffer, Leave
<1>5. k \in Nat /\ k <= l /\ l \in Nat
  BY <1>3, <1>4
<1>d. DOMAIN txb[w] = 1..l
  BY <1>2, <1>3
<1>6. /\ p \in sent' <=> p \in sent \/ \E i \in 1..k : q[i] = p
      /\ p \in freed' <=> p \in freed \/ \E i \in (k + 1)..l : q[i] = p
  BY <1>4, LeaveAt
<1>7. /\ \A i \in 1..l : q[i] = p => At(p, "txb", w, i)
      /\ \A i : At(p, "txb", w, i) => i \in 1..l /\ q[i] = p
  BY <1>1, <1>2, <1>d DEF At
<1>8. txb'[w] = <<>> /\ \A c \in Cores : c # w => txb'[c] = txb[c]
  BY <1>1, Parts DEF TypeOK
<1>9. \A c, n : /\ At(p, "queued", c, n)' <=> At(p, "queued", c, n)
                /\ At(p, "held", c, n)' <=> At(p, "held", c, n)
  <2>1. \A v \in Cores : pc'[v] \in {"handle", "run", "enqueue"} <=>
                            pc[v] \in {"handle", "run", "enqueue"}
    BY <1>1, MessageTypes
  <2> QED BY <1>1, <2>1, MessagesStay
<1>10. ~At(p, "held", w, 0)
  BY <1>1 DEF At
<1>11. \A i \in 1..l : q[i] = p => At(p, "txb", w, i) \/ (At(p, "held", w, 0) /\ i = l)
  BY <1>7
<1>12. UNCHANGED <<wire, rxq, pkts_burst>>
  BY <1>1
<1>13. /\ \A c, n : At(p, "queued", c, n)' <=> At(p, "queued", c, n)
       /\ \A c, n : c # w => (At(p, "held", c, n)' <=> At(p, "held", c, n))
       /\ At(p, "held", w, 0)' => At(p, "held", w, 0) /\ \A i \in 1..l : q[i] # p
       /\ At(p, "held", w, 0) => At(p, "held", w, 0)' \/ \E i \in 1..l : q[i] = p
  BY <1>9, <1>10
<1>14. Leaves(p, w, w, q, k, l)
  <2>1. txb'[w] = <<>> /\ \A c \in Cores : c # w => txb'[c] = txb[c]
    BY <1>8
  <2>2. \A i : At(p, "txb", w, i) => i \in 1..l /\ q[i] = p
    BY <1>7
  <2>3. \A i \in 1..l : q[i] = p => At(p, "txb", w, i) \/ (At(p, "held", w, 0) /\ i = l)
    BY <1>11
  <2>4. /\ p \in sent' <=> p \in sent \/ \E i \in 1..k : q[i] = p
        /\ p \in freed' <=> p \in freed \/ \E i \in (k + 1)..l : q[i] = p
        /\ UNCHANGED <<wire, rxq, pkts_burst>>
    BY <1>6, <1>12
  <2>5. /\ \A c, n : At(p, "queued", c, n)' <=> At(p, "queued", c, n)
        /\ \A c, n : c # w => (At(p, "held", c, n)' <=> At(p, "held", c, n))
        /\ At(p, "held", w, 0)' => At(p, "held", w, 0) /\ \A i \in 1..l : q[i] # p
        /\ At(p, "held", w, 0) => At(p, "held", w, 0)' \/ \E i \in 1..l : q[i] = p
    BY <1>13
  <2> QED BY <2>1, <2>2, <2>3, <2>4, <2>5, Zenon DEF Leaves
<1>15. w \in Cores
  BY <1>1
<1> QED BY <1>3, <1>5, <1>14, <1>15, BufferLeaves

(* The packet in hand enters the transmit buffer the entry names, and the  *)
(* buffer leaves when that fills it.                                       *)
LEMMA PlaceTransmit ==
    ASSUME IInv, NEW p \in Packets, OnePlace(p), NEW w \in Running, Transmit(w)
    PROVE  OnePlace(p)'
<1> USE CoresAssumption
<1>1. /\ p_cm[w] \in MessageIds /\ p_cm[w] # NoMessage /\ msg[p_cm[w]] \in Message
      /\ w \in Cores /\ pc[w] = "run"
  BY LocalInHand DEF InHandPCs, Transmit
<1>2. PICK s \in Cores : s = StateOf[Action(w)]
  <2>1. Action(w) \in Actions
    BY <1>1 DEF Action, Message
  <2> QED BY <2>1, TableAssumption DEF Transmit
<1>3. PICK m \in Packets : m = msg[p_cm[w]].m
  BY <1>1 DEF Message
<1>4. PICK q \in Seq(Packets) : q = txb[s]
  BY Parts DEF TypeOK
<1>5. PICK e \in Nat : e = Len(q) + 1
  BY <1>4
<1>6. PICK b \in Seq(Packets) : b = Append(q, m)
  <2>1. Append(q, m) \in Seq(Packets)
    BY <1>3, <1>4
  <2> QED BY <2>1
<1>7. /\ Len(b) = e
      /\ DOMAIN b = 1..e
      /\ \A i : /\ i \in DOMAIN b <=> i \in DOMAIN q \/ i = e
                /\ i \in DOMAIN q => b[i] = q[i] /\ i # e
                /\ i = e => b[i] = m
  <2>1. Len(b) = e /\ DOMAIN b = 1..e
    BY <1>3, <1>4, <1>5, <1>6
  <2>2. \A i : /\ i \in DOMAIN b <=> i \in DOMAIN q \/ i = e
               /\ i \in DOMAIN q => b[i] = q[i] /\ i # e
               /\ i = e => b[i] = m
    BY <1>3, <1>4, <1>5, <1>6, AppendAt
  <2> QED BY <2>1, <2>2
<1>8. /\ UNCHANGED <<wire, rxq, pkts_burst, mailbox>>
      /\ pc'[w] \in {"next", "return"}
      /\ \A v \in Cores : v # w => pc'[v] = pc[v] /\ p_cm'[v] = p_cm[v]
      /\ \A j \in MessageIds : j # p_cm[w] => msg'[j] = msg[j]
  BY <1>1, MessageTypes DEF Transmit
<1>9. ~InHand(p, w)' /\ (InHand(p, w) <=> m = p)
  BY <1>1, <1>3, <1>8 DEF InHand
<1> DEFINE X == {p_cm[w]}
<1>10. /\ \A v \in Cores : v # w => p_cm[v] \notin X
       /\ \A c \in Cores : \A k \in DOMAIN mailbox[c] : mailbox[c][k] \notin X
       /\ \A j \in MessageIds \ X : msg'[j] = msg[j]
  BY <1>1, <1>8, OwnHand
<1> HIDE DEF X
<1>11. /\ mailbox' = mailbox => \A c \in Cores : \A k : InRing(p, c, k)' <=> InRing(p, c, k)
       /\ \A v \in Cores : v # w => (InHand(p, v)' <=> InHand(p, v))
  BY <1>1, <1>8, <1>10, OthersKept
<1>12. \A c, n : At(p, "queued", c, n)' <=> At(p, "queued", c, n)
  <2>1. \A c, n : /\ At(p, "queued", c, n)' <=> c \in Cores /\ InRing(p, c, n)'
                  /\ At(p, "queued", c, n) <=> c \in Cores /\ InRing(p, c, n)
    BY DEF At, InRing
  <2> QED BY <1>8, <1>11, <2>1
<1>13. \A c, n : /\ c # w => (At(p, "held", c, n)' <=> At(p, "held", c, n))
                 /\ ~At(p, "held", w, n)'
                 /\ At(p, "held", w, n) <=> n = 0 /\ m = p
  <2>1. \A c, n : /\ At(p, "held", c, n)' <=> c \in Cores /\ n = 0 /\ InHand(p, c)'
                  /\ At(p, "held", c, n) <=> c \in Cores /\ n = 0 /\ InHand(p, c)
    BY DEF At, InHand
  <2>2. ASSUME NEW c, NEW n, c # w  PROVE At(p, "held", c, n)' <=> At(p, "held", c, n)
    BY <1>11, <2>1, <2>2
  <2>3. ASSUME NEW n  PROVE ~At(p, "held", w, n)' /\ (At(p, "held", w, n) <=> n = 0 /\ m = p)
    BY <1>1, <1>9, <2>1
  <2> QED BY <2>2, <2>3
<1>14. \A i : /\ At(p, "txb", s, i) <=> i \in DOMAIN q /\ q[i] = p
              /\ At(p, "txb", s, i) => i \in 1..e /\ b[i] = p /\ i # e
  BY <1>2, <1>4, <1>7 DEF At
<1>15. CASE e < TxSize
  <2>1. UNCHANGED <<sent, freed>> /\ txb' = [txb EXCEPT ![s] = b]
    BY <1>2, <1>3, <1>4, <1>6, <1>7, <1>15 DEF Transmit
  <2>2. txb'[s] = b /\ \A c \in Cores : c # s => txb'[c] = txb[c]
    BY <1>2, <2>1, Parts DEF TypeOK
  <2>3. \A i : At(p, "txb", s, i)' <=> At(p, "txb", s, i) \/ (i = e /\ m = p)
    BY <1>2, <1>7, <1>14, <2>2 DEF At
  <2>4. ASSUME NEW a, NEW c, NEW n, At(p, a, c, n)'
        PROVE  \/ a = "txb" /\ c = s /\ n = e /\ m = p /\ At(p, "held", w, 0)
               \/ At(p, a, c, n) /\ ~(a = "held" /\ c = w)
    <3>1. CASE a = "txb"
      <4>1. CASE c = s
        BY <1>13, <2>3, <2>4, <3>1, <4>1
      <4>2. CASE c # s
        BY <2>2, <2>4, <3>1, <4>2 DEF At
      <4> QED BY <4>1, <4>2
    <3>2. CASE a = "queued"
      BY <1>12, <2>4, <3>2
    <3>3. CASE a = "held"
      BY <1>13, <2>4, <3>3
    <3>4. CASE a \notin {"txb", "queued", "held"}
      BY <1>8, <2>1, <2>4, <3>4 DEF At
    <3> QED BY <3>1, <3>2, <3>3, <3>4
  <2>5. PICK t, c, j : At(p, t, c, j)
                       /\ \A a, d, n : At(p, a, d, n) => a = t /\ d = c /\ n = j
    BY ThePlace
  <2>6. CASE t = "held" /\ c = w
    <3>1. m = p
      BY <1>13, <2>5, <2>6
    <3>2. At(p, "txb", s, e)'
      BY <2>3, <3>1
    <3>3. \A a, d, n : At(p, a, d, n)' => a = "txb" /\ d = s /\ n = e
      BY <2>4, <2>5, <2>6
    <3> QED BY <3>2, <3>3, Moves
  <2>7. CASE ~(t = "held" /\ c = w)
    <3>1. At(p, t, c, j)'
      <4>1. CASE t = "txb"
        <5>1. CASE c = s
          BY <2>3, <2>5, <4>1, <5>1
        <5>2. CASE c # s
          BY <2>2, <2>5, <4>1, <5>2 DEF At
        <5> QED BY <5>1, <5>2
      <4>2. CASE t = "queued"
        BY <1>12, <2>5, <4>2
      <4>3. CASE t = "held"
        BY <1>13, <2>5, <2>7, <4>3
      <4>4. CASE t \notin {"txb", "queued", "held"}
        BY <1>8, <2>1, <2>5, <4>4 DEF At
      <4> QED BY <4>1, <4>2, <4>3, <4>4
    <3>2. \A a, d, n : At(p, a, d, n)' => a = t /\ d = c /\ n = j
      BY <2>4, <2>5, <2>7
    <3> QED BY <3>1, <3>2, Moves
  <2> QED BY <2>6, <2>7
<1>16. CASE ~(e < TxSize)
  <2>1. PICK k \in 0..e : /\ sent' = sent \cup {b[i] : i \in 1..k}
                          /\ freed' = freed \cup {b[i] : i \in (k + 1)..e}
    <3>1. \E k \in 0..e : Leave(b, k)
      BY <1>2, <1>3, <1>4, <1>6, <1>7, <1>16 DEF Transmit
    <3> QED BY <1>7, <3>1 DEF Leave
  <2>2. k \in Nat /\ k <= e
    BY <1>5, <2>1
  <2>3. txb' = [txb EXCEPT ![s] = <<>>]
    BY <1>2, <1>3, <1>4, <1>6, <1>7, <1>16 DEF Transmit
  <2>4. txb'[s] = <<>> /\ \A c \in Cores : c # s => txb'[c] = txb[c]
    BY <1>2, <2>3, Parts DEF TypeOK
  <2>5. /\ p \in sent' <=> p \in sent \/ \E i \in 1..k : b[i] = p
        /\ p \in freed' <=> p \in freed \/ \E i \in (k + 1)..e : b[i] = p
    BY <2>1, LeaveAt
  <2>6. \A i \in 1..e : b[i] = p => At(p, "txb", s, i) \/ (At(p, "held", w, 0) /\ i = e)
    BY <1>7, <1>13, <1>14
  <2>7. At(p, "held", w, 0) => \E i \in 1..e : b[i] = p
    <3>1. e \in 1..e
      BY <1>5, <1>4
    <3> QED BY <1>7, <1>13, <3>1
  <2>8. \A i : At(p, "txb", s, i) => i \in 1..e /\ b[i] = p
    BY <1>14
  <2>9. /\ \A c, n : At(p, "queued", c, n)' <=> At(p, "queued", c, n)
        /\ \A c, n : c # w => (At(p, "held", c, n)' <=> At(p, "held", c, n))
        /\ At(p, "held", w, 0)' => At(p, "held", w, 0) /\ \A i \in 1..e : b[i] # p
        /\ At(p, "held", w, 0) => At(p, "held", w, 0)' \/ \E i \in 1..e : b[i] = p
    BY <1>12, <1>13, <2>7
  <2>10. UNCHANGED <<wire, rxq, pkts_burst>>
    BY <1>8
  <2>11. Leaves(p, w, s, b, k, e)
    BY <2>4, <2>5, <2>6, <2>8, <2>9, <2>10, Zenon DEF Leaves
  <2> QED BY <1>1, <1>2, <1>5, <2>2, <2>11, BufferLeaves
<1> QED BY <1>15, <1>16

(* No step of the system takes a packet to two places or to none.          *)
LEMMA PlaceNext ==
    ASSUME IInv, BurstOK, NEW p \in Packets, OnePlace(p), [Next]_vars
    PROVE  OnePlace(p)'
<1>1. ASSUME NEW w \in Running, Step(w)  PROVE OnePlace(p)'
  <2>1. CASE LoopTest(w) \/ SelectAction(w) \/ PassItem(w)
    BY <2>1, PlaceLoopTest
  <2>2. CASE FlushTxBuffer(w)
    BY <2>2, PlaceFlush
  <2>3. CASE DequeueMailbox(w)
    BY <2>3, PlaceDequeue
  <2>4. CASE ReturnItem(w)
    BY <2>4, PlaceReturnItem
  <2>5. CASE RxBurst(w)
    BY <2>5, PlaceRxBurst
  <2>6. CASE NextPacket(w)
    BY <2>6, PlaceNextPacket
  <2>7. CASE CopyToItem(w)
    BY <2>7, PlaceCopy
  <2>8. CASE FreePacket(w)
    BY <2>8, PlaceFree
  <2>9. CASE Enqueue(w)
    BY <2>9, PlaceEnqueue
  <2>10. CASE Transmit(w)
    BY <2>10, PlaceTransmit
  <2>11. CASE Classify(w) \/ RunControl(w) \/ RunData(w)
    <3>1. pc[w] = "run" /\ \E i : NextAction(w, i)
      BY <2>11 DEF Classify, RunControl, RunData
    <3> QED BY <3>1, PlaceNextAction
  <2> QED BY <1>1, <2>1, <2>2, <2>3, <2>4, <2>5, <2>6, <2>7, <2>8, <2>9, <2>10, <2>11
         DEF Step, Run
<1>2. ASSUME NEW r \in Packets, Arrive(r)  PROVE OnePlace(p)'
  BY <1>2, PlaceArrive
<1>3. ASSUME \/ \E m \in Migrations : Migrate(m[1], m[2])
             \/ DrainTick \/ Quit \/ Exit \/ UNCHANGED vars
      PROVE  OnePlace(p)'
  <2>1. UNCHANGED <<wire, sent, freed, rxq, pkts_burst, txb, mailbox, msg, pc, p_cm>>
    BY <1>3 DEF Migrate, DrainTick, Quit, Exit, vars, loopVars, messageVars, nicVars
  <2>2. \A t, c, k : At(p, t, c, k)' <=> At(p, t, c, k)
    BY <2>1 DEF At
  <2> QED BY <2>2, Stays
<1> QED BY <1>1, <1>2, <1>3 DEF Next

PacketInv == IInv /\ BurstOK /\ \A p \in Packets : OnePlace(p)

(* The invariant behind the conservation of packets.                       *)
LEMMA PacketInvariance == Spec => []PacketInv
<1>1. Init => PacketInv
  BY InitInvariant, BurstInit, InitOnePlace DEF PacketInv
<1>2. PacketInv /\ [Next]_vars => PacketInv'
  <2> SUFFICES ASSUME IInv, BurstOK, \A p \in Packets : OnePlace(p), [Next]_vars
               PROVE  PacketInv'
    BY DEF PacketInv
  <2>1. IInv' /\ BurstOK'
    BY NextInvariant, BurstNext
  <2>2. \A p \in Packets : OnePlace(p)'
    BY PlaceNext
  <2> QED BY <2>1, <2>2 DEF PacketInv
<1> QED BY <1>1, <1>2, PTL DEF Spec

(* Every packet is in exactly one place, whatever the workers interleave,  *)
(* for any tables, pools, rings and buffers and with entries that migrate: *)
(* what worker.h passes between cores is neither lost nor doubled.         *)
THEOREM PacketsConserved == Spec => []PacketInOnePlace
<1>1. PacketInv => PacketInOnePlace
  BY HoldersAt DEF PacketInv, PacketInOnePlace
<1> QED BY <1>1, PacketInvariance, PTL

-----------------------------------------------------------------------------
(* What travels between the cores *)

(* A core's queue and its burst hold packets of its own buckets.           *)
Mine(c) == {p \in Packets : reta[RssHash[p]] = c}
Steered == \A c \in Cores : rxq[c] \in Seq(Mine(c)) /\ pkts_burst[c] \in Seq(Mine(c))

(* The queues start empty.                                                 *)
LEMMA SteeredInit == Init => Steered
BY DEF Init, Steered

(* A packet is only ever queued on the core its bucket is steered to.      *)
LEMMA SteeredNext == IInv /\ Steered /\ [Next]_vars => Steered'
<1> SUFFICES ASSUME IInv, Steered, [Next]_vars  PROVE Steered'
  OBVIOUS
<1> USE CoresAssumption
<1>1. rxq \in [Cores -> Seq(Packets)] /\ pkts_burst \in [Cores -> Seq(Packets)]
  BY DEF IInv, TypeOK
<1>2. \A c \in Cores : Mine(c)' = Mine(c)
  BY DEF Mine
<1>3. ASSUME UNCHANGED <<rxq, pkts_burst>>  PROVE Steered'
  BY <1>2, <1>3 DEF Steered
<1>4. ASSUME NEW w \in Running, RxBurst(w)  PROVE Steered'
  <2>1. w \in Cores /\ rxq[w] \in Seq(Mine(w))
    BY DEF Steered
  <2>2. PICK q \in Seq(Mine(w)) : q = rxq[w]
    BY <2>1
  <2>3. PICK n \in Nat : n = IF Len(q) < BurstSize THEN Len(q) ELSE BurstSize
    BY SizeAssumption
  <2>4. n <= Len(q)
    BY <2>3, SizeAssumption
  <2>5. SubSeq(q, 1, n) \in Seq(Mine(w)) /\ SubSeq(q, n + 1, Len(q)) \in Seq(Mine(w))
    BY <2>2, <2>3, <2>4, SplitAt
  <2>6. /\ pkts_burst' = [pkts_burst EXCEPT ![w] = SubSeq(q, 1, n)]
        /\ rxq' = [rxq EXCEPT ![w] = SubSeq(q, n + 1, Len(q))]
    BY <1>1, <1>4, <2>1, <2>2, <2>3 DEF RxBurst, Burst
  <2> QED BY <1>1, <1>2, <2>1, <2>5, <2>6 DEF Steered
<1>5. ASSUME NEW w \in Running, NextPacket(w)  PROVE Steered'
  <2>1. CASE pkts_burst[w] = <<>>
    BY <1>3, <1>5, <2>1 DEF NextPacket, nicVars
  <2>2. CASE pkts_burst[w] # <<>>
    <3>1. pkts_burst' = [pkts_burst EXCEPT ![w] = Tail(pkts_burst[w])] /\ rxq' = rxq
      BY <1>1, <1>5, <2>2 DEF NextPacket, nicVars
    <3>2. w \in Cores /\ pkts_burst[w] \in Seq(Mine(w))
      BY DEF Steered
    <3>3. Tail(pkts_burst[w]) \in Seq(Mine(w))
      BY <2>2, <3>2
    <3> QED BY <1>1, <1>2, <3>1, <3>2, <3>3 DEF Steered
  <2> QED BY <2>1, <2>2
<1>6. ASSUME NEW p \in Packets, Arrive(p)  PROVE Steered'
  <2>1. PICK c \in Cores : c = reta[RssHash[p]]
    BY TrafficAssumption
  <2>2. /\ rxq' = [rxq EXCEPT ![c] = Append(rxq[c], p)]
        /\ pkts_burst' = pkts_burst
    BY <1>1, <1>6, <2>1 DEF Arrive, loopVars
  <2>3. p \in Mine(c)
    BY <2>1 DEF Mine
  <2>4. rxq[c] \in Seq(Mine(c))
    BY DEF Steered
  <2>5. Append(rxq[c], p) \in Seq(Mine(c))
    BY <2>3, <2>4
  <2> QED BY <1>1, <1>2, <2>2, <2>5 DEF Steered
<1>7. ASSUME NEW w \in Running, Step(w), ~RxBurst(w), ~NextPacket(w)  PROVE Steered'
  <2>1. CASE LoopTest(w) \/ FlushTxBuffer(w) \/ DequeueMailbox(w) \/ ReturnItem(w)
    BY <1>3, <2>1 DEF LoopTest, FlushTxBuffer, DequeueMailbox, ReturnItem, nicVars
  <2>2. CASE SelectAction(w) \/ CopyToItem(w) \/ FreePacket(w) \/ PassItem(w) \/ Enqueue(w)
    BY <1>3, <2>2 DEF SelectAction, CopyToItem, FreePacket, PassItem, Enqueue, nicVars
  <2>3. CASE Transmit(w)
    BY <1>3, <2>3 DEF Transmit
  <2>4. CASE Classify(w) \/ RunControl(w) \/ RunData(w)
    BY <1>3, <2>4 DEF Classify, RunControl, RunData, NextAction, nicVars
  <2> QED BY <1>7, <2>1, <2>2, <2>3, <2>4 DEF Step, Run
<1>8. ASSUME \/ \E m \in Migrations : Migrate(m[1], m[2])
             \/ DrainTick \/ Quit \/ Exit \/ UNCHANGED vars
      PROVE  Steered'
  BY <1>3, <1>8 DEF Migrate, DrainTick, Quit, Exit, vars, loopVars, nicVars
<1> QED BY <1>4, <1>5, <1>6, <1>7, <1>8 DEF Next

InUse(i) == Queued(i) \/ Held(i)

(* The actions the function of an entry may name next.                     *)
Successors(a) ==
    CASE Kind[a] = "gd_classifier" ->
            {simple_path[StateOf[a]][DataPath], simple_path[StateOf[a]][ControlPath]}
      [] Kind[a] = "gd_control" -> {simple_path[StateOf[a]][DataPath]}
      [] Kind[a] = "gd_data" -> {simple_path[StateOf[a]][OutPath]}
      [] OTHER -> {}

(* A message in use after a step of w was in use before, and names what it *)
(* named or what w's function made it name; or it is w's own: the message  *)
(* on its stack, filled from the burst, or an item, filled from the stack. *)
Kept(j) == InUse(j) /\ msg'[j].action_id = msg[j].action_id
Rewritten(w, j) == /\ p_cm[w] = j /\ pc[w] = "run" /\ InUse(j)
                   /\ msg'[j].action_id \in Successors(Action(w))
Filled(w, j) == /\ w \in FirstAction /\ j = Local(w)
                /\ \E p \in Mine(w) : msg'[j].action_id = buckets[w][RssHash[p]]
Copied(w, j) == /\ w \in FirstAction /\ j \in Items /\ j[1] = w /\ p_cm[w] = Local(w)
                /\ msg'[j].action_id = msg[Local(w)].action_id

(* Those four cases are all there are, for a step of any worker.           *)
LEMMA InUseStep ==
    ASSUME IInv, BurstOK, Steered, NEW w \in Running, Step(w),
           NEW j \in MessageIds, InUse(j)'
    PROVE  Kept(j) \/ Rewritten(w, j) \/ Filled(w, j) \/ Copied(w, j)
<1> USE CoresAssumption, IdFacts
<1>1. w \in Cores
  OBVIOUS
<1>2. CASE LoopTest(w) \/ FlushTxBuffer(w) \/ RxBurst(w) \/ SelectAction(w) \/ PassItem(w)
  <2>1. UNCHANGED <<msg, mailbox, p_cm>>
    BY <1>2 DEF LoopTest, FlushTxBuffer, RxBurst, SelectAction, PassItem, messageVars
  <2> QED BY <2>1 DEF InUse, Queued, Held, Kept
<1>3. CASE DequeueMailbox(w)
  <2>1. UNCHANGED msg
    BY <1>3 DEF DequeueMailbox
  <2>2. CASE mailbox[w] = <<>>
    <3>1. UNCHANGED <<mailbox, p_cm>>
      BY <1>3, <2>2 DEF DequeueMailbox
    <3> QED BY <2>1, <3>1 DEF InUse, Queued, Held, Kept
  <2>3. CASE mailbox[w] # <<>>
    <3> DEFINE q == mailbox[w]
    <3>1. q \in Seq(Items)
      BY <1>1, MessageTypes
    <3>2. /\ 1 \in DOMAIN q /\ Head(q) = q[1]
          /\ \A k \in DOMAIN Tail(q) : k + 1 \in DOMAIN q /\ Tail(q)[k] = q[k + 1]
      BY <2>3, <3>1, TailAt
    <3>3. p_cm' = [p_cm EXCEPT ![w] = Head(q)] /\ mailbox' = [mailbox EXCEPT ![w] = Tail(q)]
      BY <1>1, <1>3, <2>3, MessageTypes DEF DequeueMailbox
    <3>4. CASE Held(j)'
      <4>1. PICK v \in Cores : p_cm'[v] = j
        BY <3>4 DEF Held
      <4>2. CASE v = w
        <5>1. 1 \in DOMAIN mailbox[w] /\ mailbox[w][1] = j
          BY <1>1, <3>2, <3>3, <4>1, <4>2, MessageTypes
        <5>2. Queued(j)
          BY <1>1, <5>1 DEF Queued
        <5> QED BY <2>1, <5>2 DEF InUse, Kept
      <4>3. CASE v # w
        <5>1. p_cm[v] = j
          BY <3>3, <4>1, <4>3, MessageTypes
        <5> QED BY <2>1, <5>1 DEF InUse, Held, Kept
      <4> QED BY <4>2, <4>3
    <3>5. CASE Queued(j)'
      <4>1. PICK c \in Cores : \E k \in DOMAIN mailbox'[c] : mailbox'[c][k] = j
        BY <3>5 DEF Queued
      <4>2. PICK k \in DOMAIN mailbox'[c] : mailbox'[c][k] = j
        BY <4>1
      <4>3. CASE c = w
        <5>1. mailbox'[w] = Tail(q)
          BY <1>1, <3>3, MessageTypes
        <5>2. k + 1 \in DOMAIN mailbox[w] /\ mailbox[w][k + 1] = j
          BY <3>2, <4>2, <4>3, <5>1
        <5>3. Queued(j)
          BY <1>1, <5>2 DEF Queued
        <5> QED BY <2>1, <5>3 DEF InUse, Kept
      <4>4. CASE c # w
        <5>1. mailbox'[c] = mailbox[c]
          BY <3>3, <4>4, MessageTypes
        <5>2. Queued(j)
          BY <4>2, <5>1 DEF Queued
        <5> QED BY <2>1, <5>2 DEF InUse, Kept
      <4> QED BY <4>3, <4>4
    <3> QED BY <3>4, <3>5 DEF InUse
  <2> QED BY <2>2, <2>3
\* Steps that let go of the message in hand.
<1>4. CASE ReturnItem(w) \/ FreePacket(w) \/ (Transmit(w) /\ p_cm[w] = Local(w))
  <2>1. p_cm[w] # NoMessage
    BY <1>4, LocalInHand DEF InHandPCs, ReturnItem, FreePacket, Transmit
  <2>2. /\ p_cm' = [p_cm EXCEPT ![w] = NoMessage] /\ mailbox' = mailbox
        /\ \A i \in MessageIds : i # p_cm[w] => msg'[i] = msg[i]
    BY <1>1, <1>4, <2>1, MessageTypes DEF ReturnItem, FreePacket, Transmit
  <2>3. j # p_cm[w]
    <3>1. ASSUME NEW v \in Cores, p_cm'[v] = p_cm[w]  PROVE FALSE
      <4>1. v # w
        BY <1>1, <2>1, <2>2, <3>1, MessageTypes
      <4>2. p_cm[v] = p_cm[w]
        BY <2>2, <3>1, <4>1, MessageTypes
      <4> QED BY <1>1, <2>1, <4>1, <4>2, OwnHand
    <3>2. ASSUME NEW c \in Cores, NEW k \in DOMAIN mailbox[c], mailbox[c][k] = p_cm[w]
          PROVE  FALSE
      BY <1>1, <2>1, <3>2, OwnHand
    <3>3. CASE j = p_cm[w]
      <4>1. CASE Held(j)'
        BY <3>1, <3>3, <4>1 DEF Held
      <4>2. CASE Queued(j)'
        BY <2>2, <3>2, <3>3, <4>2 DEF Queued
      <4> QED BY <4>1, <4>2 DEF InUse
    <3> QED BY <3>3
  <2>4. InUse(j)
    <3>1. CASE Queued(j)'
      BY <2>2, <3>1 DEF InUse, Queued
    <3>2. CASE Held(j)'
      <4>1. PICK v \in Cores : p_cm'[v] = j
        BY <3>2 DEF Held
      <4>2. p_cm[v] = j
        BY <1>1, <2>2, <4>1, MessageTypes
      <4> QED BY <4>2 DEF InUse, Held
    <3> QED BY <3>1, <3>2 DEF InUse
  <2> QED BY <2>2, <2>3, <2>4 DEF Kept
<1>5. CASE Transmit(w) /\ p_cm[w] # Local(w)
  <2>1. UNCHANGED <<msg, mailbox, p_cm>>
    BY <1>5 DEF Transmit
  <2> QED BY <2>1 DEF InUse, Queued, Held, Kept
<1>6. CASE NextPacket(w)
  <2>1. CASE pkts_burst[w] = <<>>
    <3>1. UNCHANGED <<msg, mailbox, p_cm>>
      BY <1>6, <2>1 DEF NextPacket
    <3> QED BY <3>1 DEF InUse, Queued, Held, Kept
  <2>2. CASE pkts_burst[w] # <<>>
    <3>1. PICK p \in Mine(w) : p = Head(pkts_burst[w])
      <4>1. pkts_burst[w] \in Seq(Mine(w))
        BY <1>1 DEF Steered
      <4>2. Head(pkts_burst[w]) \in Mine(w)
        BY <2>2, <4>1
      <4> QED BY <4>2
    <3>2. /\ p_cm' = [p_cm EXCEPT ![w] = Local(w)] /\ mailbox' = mailbox
          /\ msg' = [msg EXCEPT ![Local(w)] = StackMessage(w, p)]
      BY <1>6, <2>2, <3>1 DEF NextPacket
    <3>3. CASE j = Local(w)
      <4>1. w \in FirstAction
        BY <1>1, <1>6, <2>2 DEF BurstOK, Burst1
      <4>2. msg'[j].action_id = buckets[w][RssHash[p]]
        BY <1>1, <3>2, <3>3, MessageTypes DEF StackMessage
      <4> QED BY <3>3, <4>1, <4>2 DEF Filled
    <3>4. CASE j # Local(w)
      <4>1. msg'[j] = msg[j]
        BY <3>2, <3>4, MessageTypes
      <4>2. InUse(j)
        <5>1. CASE Queued(j)'
          BY <3>2, <5>1 DEF InUse, Queued
        <5>2. CASE Held(j)'
          <6>1. PICK v \in Cores : p_cm'[v] = j
            BY <5>2 DEF Held
          <6>2. p_cm[v] = j
            BY <1>1, <3>2, <3>4, <6>1, MessageTypes
          <6> QED BY <6>2 DEF InUse, Held
        <5> QED BY <5>1, <5>2 DEF InUse
      <4> QED BY <4>1, <4>2 DEF Kept
    <3> QED BY <3>3, <3>4
  <2> QED BY <2>1, <2>2
<1>7. CASE CopyToItem(w)
  <2>1. /\ p_cm[w] = Local(w) /\ msg[p_cm[w]] \in Message /\ p_cm[w] # NoMessage
        /\ pc[w] = "handle"
    BY <1>7, LocalInHand DEF CopyToItem, InHandPCs
  <2>2. PICK i \in message_buffer[w] :
           /\ msg' = [msg EXCEPT ![i] = [msg[p_cm[w]] EXCEPT !.producer_id = w],
                                ![p_cm[w]] = NoMessage]
           /\ p_cm' = [p_cm EXCEPT ![w] = i]
    BY <1>7 DEF CopyToItem, FreeItems, BufferWithout
  <2>3. i \in Items /\ i \in MessageIds /\ i # Local(w) /\ i[1] = w /\ mailbox' = mailbox
    BY <1>1, <1>7, <2>2, Parts, MessageTypes DEF FreeInItsBuffer, CopyToItem
  <2>4. PICK m \in Message : /\ m = [msg[p_cm[w]] EXCEPT !.producer_id = w]
                             /\ m.producer_id = w
                             /\ m.action_id = msg[p_cm[w]].action_id
    <3>1. [msg[p_cm[w]] EXCEPT !.producer_id = w] \in Message
      BY <1>1, <2>1 DEF Message
    <3> QED BY <1>1, <2>1, <3>1 DEF Message
  <2>5. /\ \A k \in MessageIds : k # i /\ k # Local(w) => msg'[k] = msg[k]
        /\ msg'[i] = m
    BY <1>1, <2>1, <2>2, <2>3, <2>4, MessageTypes, ZenonT(40)
  <2>6. w \in FirstAction
    BY <1>1, <2>1 DEF BurstOK, Burst1
  <2>7. CASE j = i
    BY <2>1, <2>3, <2>4, <2>5, <2>6, <2>7 DEF Copied
  <2>8. CASE j # i
    <3>1. InUse(j) /\ j # Local(w)
      <4>1. CASE Queued(j)'
        <5>1. PICK c \in Cores : \E k \in DOMAIN mailbox[c] : mailbox[c][k] = j
          BY <2>3, <4>1 DEF Queued
        <5>2. j # Local(w)
          BY <1>1, <2>1, <5>1, OwnHand
        <5> QED BY <5>1, <5>2 DEF InUse, Queued
      <4>2. CASE Held(j)'
        <5>1. PICK v \in Cores : p_cm'[v] = j
          BY <4>2 DEF Held
        <5>2. v # w /\ p_cm[v] = j
          BY <1>1, <2>2, <2>8, <5>1, MessageTypes
        <5>3. j # Local(w)
          BY <1>1, <2>1, <5>2, OwnHand
        <5> QED BY <5>2, <5>3 DEF InUse, Held
      <4> QED BY <4>1, <4>2 DEF InUse
    <3>2. msg'[j] = msg[j]
      BY <2>5, <2>8, <3>1
    <3> QED BY <3>1, <3>2 DEF Kept
  <2> QED BY <2>7, <2>8
<1>8. CASE Enqueue(w)
  <2>1. p_cm[w] \in Items /\ p_cm[w] # NoMessage /\ dest[w] \in Cores
    BY <1>1, <1>8, Parts DEF HandOK, Hand, Enqueue, TypeOK
  <2>2. PICK d \in Cores : d = dest[w]
    BY <2>1
  <2>3. /\ UNCHANGED msg
        /\ mailbox' = [mailbox EXCEPT ![d] = Append(mailbox[d], p_cm[w])]
        /\ p_cm' = [p_cm EXCEPT ![w] = NoMessage]
    BY <1>8, <2>2, MessageTypes DEF Enqueue
  <2>4. InUse(j)
    <3>1. CASE Queued(j)'
      <4>1. PICK c \in Cores : \E k \in DOMAIN mailbox'[c] : mailbox'[c][k] = j
        BY <3>1 DEF Queued
      <4>2. PICK k \in DOMAIN mailbox'[c] : mailbox'[c][k] = j
        BY <4>1
      <4>3. CASE c = d
        <5>1. mailbox'[c] = Append(mailbox[d], p_cm[w]) /\ mailbox[d] \in Seq(Items)
          BY <2>3, <4>3, MessageTypes
        <5>2. \/ k \in DOMAIN mailbox[d] /\ mailbox[d][k] = j
              \/ j = p_cm[w]
          BY <2>1, <4>2, <5>1, AppendAt
        <5> QED BY <1>1, <5>2 DEF InUse, Queued, Held
      <4>4. CASE c # d
        <5>1. mailbox'[c] = mailbox[c]
          BY <2>3, <4>4, MessageTypes
        <5> QED BY <4>2, <5>1 DEF InUse, Queued
      <4> QED BY <4>3, <4>4
    <3>2. CASE Held(j)'
      <4>1. PICK v \in Cores : p_cm'[v] = j
        BY <3>2 DEF Held
      <4>2. p_cm[v] = j
        BY <1>1, <2>3, <4>1, MessageTypes
      <4> QED BY <4>2 DEF InUse, Held
    <3> QED BY <3>1, <3>2 DEF InUse
  <2> QED BY <2>3, <2>4 DEF Kept
<1>9. CASE Classify(w) \/ RunControl(w) \/ RunData(w)
  <2>1. /\ p_cm[w] \in MessageIds /\ p_cm[w] # NoMessage /\ msg[p_cm[w]] \in Message
        /\ pc[w] = "run"
    BY <1>9, LocalInHand DEF InHandPCs, Classify, RunControl, RunData
  <2>2. PICK x \in Successors(Action(w)) : msg' = [msg EXCEPT ![p_cm[w]].action_id = x]
    <3>1. CASE Classify(w)
      <4>1. PICK i \in {DataPath, ControlPath} : NextAction(w, i)
        <5>1. ClassifierPath(control_frequency[StateOf[Action(w)]], seen[w])
                 \in {DataPath, ControlPath}
          BY DEF ClassifierPath
        <5> QED BY <3>1, <5>1 DEF Classify
      <4>2. simple_path[StateOf[Action(w)]][i] \in Successors(Action(w))
        BY <3>1, <4>1 DEF Classify, Successors
      <4> QED BY <4>1, <4>2 DEF NextAction
    <3>2. CASE RunControl(w)
      BY <3>2 DEF RunControl, NextAction, Successors
    <3>3. CASE RunData(w)
      BY <3>3 DEF RunData, NextAction, Successors
    <3> QED BY <1>9, <3>1, <3>2, <3>3
  <2>3. UNCHANGED <<mailbox, p_cm>>
    BY <1>9 DEF Classify, RunControl, RunData, NextAction
  <2>4. InUse(j)
    BY <2>3 DEF InUse, Queued, Held
  <2>5. CASE j = p_cm[w]
    <3>1. msg'[j] = [msg[j] EXCEPT !.action_id = x]
      BY <2>1, <2>2, <2>5, MessageTypes
    <3>2. msg'[j].action_id = x
      BY <2>1, <2>5, <3>1 DEF Message
    <3> QED BY <2>1, <2>2, <2>4, <2>5, <3>2 DEF Rewritten
  <2>6. CASE j # p_cm[w]
    <3>1. msg'[j] = msg[j]
      BY <2>1, <2>2, <2>6, MessageTypes
    <3> QED BY <2>4, <3>1 DEF Kept
  <2> QED BY <2>5, <2>6
<1> QED BY <1>2, <1>3, <1>4, <1>5, <1>6, <1>7, <1>8, <1>9 DEF Step, Run

-----------------------------------------------------------------------------
(* Items in flight *)

(* The messages in use belong to cores that take packets.                  *)
FromTakers == \A j \in MessageIds : InUse(j) => j[1] \in FirstAction

(* No message is in use at the start.                                      *)
LEMMA FromTakersInit == Init => FromTakers
<1> USE IdFacts
<1>1. ASSUME Init, NEW j \in MessageIds, InUse(j)  PROVE FALSE
  BY <1>1 DEF Init, InUse, Queued, Held
<1> QED BY <1>1 DEF FromTakers

(* Only cores that take packets put messages into use.                     *)
LEMMA FromTakersNext ==
    ASSUME IInv, BurstOK, Steered, FromTakers, [Next]_vars  PROVE FromTakers'
<1> USE CoresAssumption
<1>1. ASSUME NEW w \in Running, Step(w), NEW j \in MessageIds, InUse(j)'
      PROVE  j[1] \in FirstAction
  <2>1. Local(w)[1] = w
    BY DEF Local
  <2>2. InUse(j) => j[1] \in FirstAction
    BY DEF FromTakers
  <2> QED BY <1>1, <2>1, <2>2, InUseStep DEF Kept, Rewritten, Filled, Copied
<1>2. CASE \E w \in Running : Step(w)
  BY <1>1, <1>2 DEF FromTakers
<1>3. CASE ~ \E w \in Running : Step(w)
  <2>1. UNCHANGED <<mailbox, p_cm>>
    BY <1>3, AroundUnchanged DEF loopVars, messageVars
  <2> QED BY <2>1 DEF FromTakers, InUse, Queued, Held
<1> QED BY <1>2, <1>3

(* Workers that spin hold an item each, and the rings they spin on are     *)
(* full of others: all of them are in flight.                              *)
LEMMA SpinnersFill ==
    ASSUME IInv, NEW S \in SUBSET Running, \A w \in S : Spinning(w)
    PROVE  Cardinality(InFlight) >=
               Cardinality(S) + Cardinality({dest[w] : w \in S}) * (RingSize - 1)
<1> USE CoresAssumption, SizeAssumption, IdFacts
<1> DEFINE H == {p_cm[w] : w \in S}
           D == {dest[w] : w \in S}
           R == 1..(RingSize - 1)
           F == {mailbox[x[1]][x[2]] : x \in D \X R}
<1>1. /\ \A w \in S : w \in Cores /\ p_cm[w] \in Items /\ p_cm[w] # NoMessage
                      /\ dest[w] \in Cores /\ ~HasRoom(dest[w])
      /\ S \in SUBSET Cores
  BY Parts DEF Spinning, HandOK, Hand, TypeOK
<1>2. \A d \in D : d \in Cores /\ \A k \in R : k \in DOMAIN mailbox[d] /\ mailbox[d][k] \in Items
  <2> SUFFICES ASSUME NEW w \in S, NEW k \in R
               PROVE  dest[w] \in Cores /\ k \in DOMAIN mailbox[dest[w]]
                      /\ mailbox[dest[w]][k] \in Items
    BY <1>1
  <2>1. PICK q \in Seq(Items) : q = mailbox[dest[w]]
    BY <1>1, MessageTypes
  <2>2. Len(q) >= RingSize - 1
    BY <1>1, <2>1 DEF HasRoom
  <2>3. k \in DOMAIN q /\ q[k] \in Items
    BY <2>1, <2>2
  <2> QED BY <1>1, <2>1, <2>3
<1>3. IsFiniteSet(S) /\ IsFiniteSet(InFlight) /\ IsFiniteSet(D)
  <2>1. IsFiniteSet(Items)
    <3>1. IsFiniteSet(1..PoolSize)
      BY FS_Interval
    <3> QED BY <3>1, FS_Product DEF Items
  <2>2. InFlight \in SUBSET Items
    BY DEF InFlight
  <2>3. D \in SUBSET Cores
    BY <1>1
  <2> HIDE DEF D
  <2> QED BY <1>1, <2>1, <2>2, <2>3, FS_Subset
<1>4. IsFiniteSet(H) /\ Cardinality(H) = Cardinality(S)
  <2> DEFINE f == [w \in S |-> p_cm[w]]
  <2>1. f \in [S -> H] /\ \A w \in S : f[w] = p_cm[w]
    OBVIOUS
  <2>2. ASSUME NEW v \in S, NEW w \in S, f[v] = f[w]  PROVE v = w
    <3>1. p_cm[v] = p_cm[w] /\ p_cm[v] # NoMessage /\ v \in Cores /\ w \in Cores
      BY <1>1, <2>2
    <3> QED BY <3>1, Parts DEF HeldOnce
  <2>3. \A h \in H : \E w \in S : f[w] = h
    OBVIOUS
  <2> HIDE DEF f, H
  <2>4. f \in Bijection(S, H)
    BY <2>1, <2>2, <2>3 DEF Bijection, Injection, Surjection, IsInjective
  <2> QED BY <1>3, <2>4, FS_Bijection DEF ExistsBijection
<1>5. IsFiniteSet(F) /\ Cardinality(F) = Cardinality(D) * (RingSize - 1)
  <2> DEFINE f == [x \in D \X R |-> mailbox[x[1]][x[2]]]
  <2>1. f \in [D \X R -> F] /\ \A x \in D \X R : f[x] = mailbox[x[1]][x[2]]
    OBVIOUS
  <2>2. ASSUME NEW x \in D \X R, NEW y \in D \X R, f[x] = f[y]  PROVE x = y
    <3>1. /\ x[1] \in Cores /\ y[1] \in Cores
          /\ x[2] \in DOMAIN mailbox[x[1]] /\ y[2] \in DOMAIN mailbox[y[1]]
          /\ mailbox[x[1]][x[2]] = mailbox[y[1]][y[2]]
      BY <1>2, <2>1, <2>2
    <3>2. QueuedOnce
      BY Parts
    <3> HIDE DEF D, R, f, F
    <3>3. PICK c \in Cores, d \in Cores : c = x[1] /\ d = y[1]
      BY <3>1
    <3>4. PICK j \in DOMAIN mailbox[c], k \in DOMAIN mailbox[d] : j = x[2] /\ k = y[2]
      BY <3>1, <3>3
    <3>5. mailbox[c][j] = mailbox[d][k]
      BY <3>1, <3>3, <3>4
    <3>6. c = d /\ j = k
      BY <3>2, <3>5, OnePosition
    <3>7. x = <<x[1], x[2]>> /\ y = <<y[1], y[2]>>
      OBVIOUS
    <3> QED BY <3>3, <3>4, <3>6, <3>7
  <2>3. \A h \in F : \E x \in D \X R : f[x] = h
    OBVIOUS
  <2> HIDE DEF f, F
  <2>4. f \in Bijection(D \X R, F)
    BY <2>1, <2>2, <2>3 DEF Bijection, Injection, Surjection, IsInjective
  <2>5. IsFiniteSet(R) /\ Cardinality(R) = RingSize - 1
    BY FS_Interval
  <2> HIDE DEF D, R
  <2>6. IsFiniteSet(D \X R) /\ Cardinality(D \X R) = Cardinality(D) * Cardinality(R)
    BY <1>3, <2>5, FS_Product
  <2>7. IsFiniteSet(F) /\ Cardinality(F) = Cardinality(D \X R)
    BY <2>4, <2>6, FS_Bijection DEF ExistsBijection
  <2> QED BY <2>5, <2>6, <2>7
<1>6. H \cap F = {}
  <2> SUFFICES ASSUME NEW w \in S, NEW x \in D \X R, p_cm[w] = mailbox[x[1]][x[2]]
               PROVE  FALSE
    OBVIOUS
  <2>1. x[1] \in Cores /\ x[2] \in DOMAIN mailbox[x[1]] /\ w \in Cores
    BY <1>1, <1>2
  <2> QED BY <2>1, Parts DEF QueuedNotHeld
<1>7. H \cup F \in SUBSET InFlight
  <2>1. ASSUME NEW w \in S  PROVE p_cm[w] \in InFlight
    BY <1>1 DEF InFlight, Held
  <2>2. ASSUME NEW x \in D \X R  PROVE mailbox[x[1]][x[2]] \in InFlight
    BY <1>2 DEF InFlight, Queued
  <2> QED BY <2>1, <2>2
<1> HIDE DEF H, F, D
<1>8. IsFiniteSet(H \cup F) /\ Cardinality(H \cup F) = Cardinality(H) + Cardinality(F)
  <2>1. Cardinality(H \cap F) = 0
    BY <1>6, FS_EmptySet
  <2>2. /\ IsFiniteSet(H \cup F)
        /\ Cardinality(H \cup F) = Cardinality(H) + Cardinality(F) - Cardinality(H \cap F)
    BY <1>4, <1>5, FS_Union
  <2>3. Cardinality(H) \in Nat /\ Cardinality(F) \in Nat
    BY <1>4, <1>5, FS_CardinalityType
  <2> QED BY <2>1, <2>2, <2>3
<1>9. Cardinality(H \cup F) <= Cardinality(InFlight)
  BY <1>3, <1>7, FS_Subset
<1>10. /\ Cardinality(S) \in Nat /\ Cardinality(InFlight) \in Nat
       /\ Cardinality(H \cup F) \in Nat /\ Cardinality(F) \in Nat
  BY <1>3, <1>5, <1>8, FS_CardinalityType
<1>11. Cardinality(InFlight) >= Cardinality(S) + Cardinality(D) * (RingSize - 1)
  BY <1>4, <1>5, <1>8, <1>9, <1>10
<1> QED BY <1>11 DEF D

(* Rings fill up, and workers spin on each other's, only with as many      *)
(* items in flight as fill those rings and hands; and only the buffers of  *)
(* cores that take packets put items into flight.  For any number of       *)
(* cores, tables that migrate, and any sizes.                              *)
THEOREM GridlockBounded == Spec => []GridlockNeedsItems
<1>1. IInv /\ BurstOK /\ [Next]_vars => BurstOK'
  BY BurstNext
<1>2. IInv /\ Steered /\ [Next]_vars => Steered'
  BY SteeredNext
<1>3. IInv /\ BurstOK /\ Steered /\ FromTakers /\ [Next]_vars => FromTakers'
  BY FromTakersNext
<1>4. Init => BurstOK /\ Steered /\ FromTakers
  BY BurstInit, SteeredInit, FromTakersInit
<1>5. IInv /\ FromTakers => GridlockNeedsItems
  <2> SUFFICES ASSUME IInv, FromTakers  PROVE GridlockNeedsItems
    OBVIOUS
  <2>1. \A i \in InFlight : i[1] \in FirstAction
    BY IdFacts DEF FromTakers, InFlight, InUse
  <2> QED BY <2>1, SpinnersFill DEF GridlockNeedsItems
<1> QED BY <1>1, <1>2, <1>3, <1>4, <1>5, Invariant, PTL DEF Spec

-----------------------------------------------------------------------------
(* Items come home *)

(* Tables under which a message ends where it began: R[c] is closed under  *)
(* what the functions name, contains what core c starts its own buckets    *)
(* with, and has every packet_out on c; and nobody migrates.               *)
Homing(R) ==
    /\ Migrations = {}
    /\ \A c \in FirstAction, p \in Packets :
          reta[RssHash[p]] = c => buckets[c][RssHash[p]] \in R[c]
    /\ \A c \in FirstAction : \A a \in R[c] :
          /\ Successors(a) \subseteq R[c]
          /\ Kind[a] = "packet_out" => \A pl \in Placements : pl[a] = c

(* A message in use names an action of the core it comes from.             *)
Chained(R) ==
    \A j \in MessageIds : InUse(j) => j[1] \in FirstAction /\ msg[j].action_id \in R[j[1]]

(* packet_out is reached on the core the item comes from.                  *)
Returns == \A w \in Running : pc[w] = "return" => p_cm[w][1] = w

AllOwned == \A i \in Items : InUse(i) \/ i \in message_buffer[i[1]]

(* The chain of a packet stays within the actions R allows its core.       *)
LEMMA ChainedNext ==
    ASSUME NEW R, Homing(R), IInv, BurstOK, Steered, Chained(R), [Next]_vars
    PROVE  Chained(R)'
<1> USE CoresAssumption, IdFacts
<1>1. ASSUME NEW w \in Running, Step(w), NEW j \in MessageIds, InUse(j)'
      PROVE  j[1] \in FirstAction /\ msg'[j].action_id \in R[j[1]]
  <2>1. Local(w)[1] = w /\ Local(w) \in MessageIds
    BY DEF Local
  <2>2. CASE Kept(j)
    BY <2>2 DEF Kept, Chained
  <2>3. CASE Rewritten(w, j)
    <3>1. j[1] \in FirstAction /\ Action(w) \in R[j[1]]
      BY <2>3 DEF Rewritten, Chained, Action
    <3> QED BY <2>3, <3>1 DEF Rewritten, Homing
  <2>4. CASE Filled(w, j)
    BY <2>1, <2>4 DEF Filled, Homing, Mine
  <2>5. CASE Copied(w, j)
    <3>1. InUse(Local(w))
      BY <2>5 DEF Copied, InUse, Held
    <3> QED BY <2>1, <2>5, <3>1 DEF Copied, Chained
  <2> QED BY <1>1, <2>2, <2>3, <2>4, <2>5, InUseStep
<1>2. CASE \E w \in Running : Step(w)
  BY <1>1, <1>2 DEF Chained
<1>3. CASE ~ \E w \in Running : Step(w)
  <2>1. UNCHANGED <<msg, mailbox, p_cm>>
    BY <1>3, AroundUnchanged DEF loopVars, messageVars
  <2> QED BY <2>1 DEF Chained, InUse, Queued, Held
<1> QED BY <1>2, <1>3

(* A worker reaches packet_out with an item of its own buffer.             *)
LEMMA ReturnsNext ==
    ASSUME NEW R, Homing(R), IInv, BurstOK, AtHome, Chained(R), Returns, [Next]_vars
    PROVE  Returns'
<1> USE CoresAssumption, IdFacts
<1>1. ASSUME NEW w \in Running, Step(w), NEW v \in Running, pc'[v] = "return"
      PROVE  p_cm'[v][1] = v
  <2>1. CASE v # w
    <3>1. pc'[v] = pc[v] /\ p_cm'[v] = p_cm[v]
      BY <1>1, <2>1, StepOthers
    <3> QED BY <1>1, <3>1 DEF Returns
  <2>2. CASE v = w
    <3>1. Transmit(w)
      <4> SUFFICES ASSUME ~Transmit(w)
                   PROVE  \E x \in PCs \ {"return"} : pc' = [pc EXCEPT ![w] = x]
        BY <1>1, <2>2, MessageTypes
      <4>1. ret_to[w] \in {"mailbox", "next"}
        BY DEF IInv, TypeOK
      <4>2. CASE LoopTest(w)
        BY <4>2 DEF LoopTest, PCs
      <4>3. CASE FlushTxBuffer(w) \/ ReturnItem(w) \/ RxBurst(w)
        BY <4>3 DEF FlushTxBuffer, ReturnItem, RxBurst, PCs
      <4>4. CASE DequeueMailbox(w)
        BY <4>4 DEF DequeueMailbox, PCs
      <4>5. CASE NextPacket(w)
        BY <4>5 DEF NextPacket, PCs
      <4>6. CASE CopyToItem(w) \/ PassItem(w) \/ SelectAction(w)
        BY <4>6 DEF CopyToItem, PassItem, SelectAction, PCs
      <4>7. CASE FreePacket(w) \/ Enqueue(w)
        BY <4>1, <4>7 DEF FreePacket, Enqueue, PCs
      <4>8. CASE Run(w)
        BY <4>8 DEF Run, Classify, RunControl, RunData, NextAction, PCs
      <4> QED BY <1>1, <4>2, <4>3, <4>4, <4>5, <4>6, <4>7, <4>8 DEF Step
    <3>2. pc[w] = "run" /\ Kind[Action(w)] = "packet_out"
      BY <3>1 DEF Transmit
    <3>3. p_cm[w] # Local(w) /\ p_cm'[w] = p_cm[w]
      BY <1>1, <2>2, <3>1, MessageTypes DEF Transmit
    <3>4. p_cm[w] \in MessageIds /\ Held(p_cm[w])
      BY <3>2, LocalInHand DEF InHandPCs, Held
    <3>5. p_cm[w][1] \in FirstAction /\ Action(w) \in R[p_cm[w][1]]
      BY <3>4 DEF Chained, InUse, Action
    <3>6. core_id \in Placements /\ core_id[Action(w)] = w
      BY <3>2 DEF AtHome
    <3>7. core_id[Action(w)] = p_cm[w][1]
      <4>1. PICK c \in FirstAction : c = p_cm[w][1]
        BY <3>5
      <4>2. PICK a \in R[c] : a = Action(w)
        BY <3>5, <4>1
      <4>3. \A pl \in Placements : pl[a] = c
        BY <3>2, <4>2 DEF Homing
      <4> QED BY <3>6, <4>1, <4>2, <4>3
    <3> QED BY <2>2, <3>3, <3>6, <3>7
  <2> QED BY <2>1, <2>2
<1>2. CASE \E w \in Running : Step(w)
  BY <1>1, <1>2 DEF Returns
<1>3. CASE ~ \E w \in Running : Step(w)
  <2>1. UNCHANGED <<pc, p_cm>>
    BY <1>3, AroundUnchanged DEF loopVars
  <2> QED BY <2>1 DEF Returns
<1> QED BY <1>2, <1>3

(* An item that stays where it is, or that a step puts in hand.            *)
LEMMA StillHeld ==
    ASSUME IInv, NEW w \in Cores, NEW i, Held(i), p_cm[w] # i,
           \A v \in Cores : v # w => p_cm'[v] = p_cm[v]
    PROVE  Held(i)'
BY DEF Held

(* An item that stays in a mailbox.                                        *)
LEMMA StillQueued ==
    ASSUME NEW i, Queued(i), mailbox' = mailbox  PROVE Queued(i)'
BY DEF Queued

(* A step of a worker leaves no item to nobody.                            *)
LEMMA OwnedStep ==
    ASSUME IInv, BurstOK, Returns, NEW w \in Running, Step(w), NEW i \in Items,
           InUse(i) \/ i \in message_buffer[i[1]]
    PROVE  InUse(i)' \/ i \in message_buffer'[i[1]]
<1> USE CoresAssumption, IdFacts
<1>1. /\ w \in Cores /\ i \in MessageIds /\ i # NoMessage /\ i[1] \in Cores
      /\ \A v \in Cores : v # w => p_cm'[v] = p_cm[v]
  BY StepOthers
<1>2. CASE LoopTest(w) \/ FlushTxBuffer(w) \/ RxBurst(w) \/ SelectAction(w) \/ PassItem(w)
  <2>1. UNCHANGED <<message_buffer, mailbox, p_cm>>
    BY <1>2 DEF LoopTest, FlushTxBuffer, RxBurst, SelectAction, PassItem, messageVars
  <2> QED BY <2>1 DEF InUse, Queued, Held
<1>3. CASE Classify(w) \/ RunControl(w) \/ RunData(w)
  <2>1. UNCHANGED <<message_buffer, mailbox, p_cm>>
    BY <1>3 DEF Classify, RunControl, RunData, NextAction
  <2> QED BY <2>1 DEF InUse, Queued, Held
<1>4. CASE DequeueMailbox(w)
  <2>1. UNCHANGED message_buffer
    BY <1>4 DEF DequeueMailbox
  <2>2. CASE mailbox[w] = <<>>
    <3>1. UNCHANGED <<mailbox, p_cm>>
      BY <1>4, <2>2 DEF DequeueMailbox
    <3> QED BY <2>1, <3>1 DEF InUse, Queued, Held
  <2>3. CASE mailbox[w] # <<>>
    <3> DEFINE q == mailbox[w]
    <3>1. q \in Seq(Items)
      BY <1>1, MessageTypes
    <3>2. /\ 1 \in DOMAIN q /\ Head(q) = q[1]
          /\ \A k \in DOMAIN q : k # 1 =>
                k - 1 \in DOMAIN Tail(q) /\ Tail(q)[k - 1] = q[k]
      BY <2>3, <3>1, TailAt
    <3>3. p_cm' = [p_cm EXCEPT ![w] = Head(q)] /\ mailbox' = [mailbox EXCEPT ![w] = Tail(q)]
      BY <1>1, <1>4, <2>3, MessageTypes DEF DequeueMailbox
    <3>4. CASE Held(i)
      <4>1. p_cm[w] = NoMessage
        BY <1>1, <1>4, Parts DEF DequeueMailbox, HandOK, Hand, InHandPCs
      <4> QED BY <1>1, <3>4, <4>1, StillHeld DEF InUse
    <3>5. CASE Queued(i)
      <4>1. PICK c \in Cores : \E k \in DOMAIN mailbox[c] : mailbox[c][k] = i
        BY <3>5 DEF Queued
      <4>2. PICK k \in DOMAIN mailbox[c] : mailbox[c][k] = i
        BY <4>1
      <4>3. CASE c = w /\ k = 1
        <5>1. p_cm'[w] = i
          BY <1>1, <3>2, <3>3, <4>2, <4>3, MessageTypes
        <5> QED BY <1>1, <5>1 DEF InUse, Held
      <4>4. CASE c = w /\ k # 1
        <5>1. mailbox'[w] = Tail(q)
          BY <1>1, <3>3, MessageTypes
        <5>2. k - 1 \in DOMAIN mailbox'[w] /\ mailbox'[w][k - 1] = i
          BY <3>2, <4>2, <4>4, <5>1
        <5> QED BY <1>1, <5>2 DEF InUse, Queued
      <4>5. CASE c # w
        <5>1. mailbox'[c] = mailbox[c]
          BY <3>3, <4>5, MessageTypes
        <5> QED BY <4>2, <5>1 DEF InUse, Queued
      <4> QED BY <4>3, <4>4, <4>5
    <3> QED BY <2>1, <3>4, <3>5 DEF InUse
  <2> QED BY <2>2, <2>3
<1>5. CASE ReturnItem(w)
  <2>1. pc[w] = "return" /\ mailbox' = mailbox
    BY <1>5 DEF ReturnItem
  <2>2. p_cm[w] \in Items /\ msg[p_cm[w]].producer_id = p_cm[w][1] /\ p_cm[w][1] = w
    BY <1>1, <2>1, Parts DEF HandOK, Hand, Returns
  <2>3. message_buffer' = [message_buffer EXCEPT ![w] = @ \cup {p_cm[w]}]
    BY <1>5, <2>2 DEF ReturnItem, FromHere
  <2>4. CASE i = p_cm[w]
    BY <1>1, <2>2, <2>3, <2>4, MessageTypes
  <2>5. CASE i # p_cm[w]
    <3>1. i \in message_buffer[i[1]] => i \in message_buffer'[i[1]]
      BY <1>1, <2>3, MessageTypes
    <3> QED BY <1>1, <2>1, <2>5, <3>1, StillHeld, StillQueued DEF InUse
  <2> QED BY <2>4, <2>5
<1>6. CASE NextPacket(w) \/ FreePacket(w) \/ Transmit(w)
  <2>1. UNCHANGED <<message_buffer, mailbox>>
    BY <1>6 DEF NextPacket, FreePacket, Transmit
  <2>2. p_cm[w] # i \/ p_cm' = p_cm
    <3>0. Local(w) # i
      <4>1. w \in Cores
        BY CoresAssumption
      <4>2. Local(w) \notin Items
        BY ONLY <4>1, IdFacts
      <4> QED BY <4>2
    <3>1. CASE NextPacket(w)
      <4>1. p_cm[w] = NoMessage
        BY <1>1, <3>1, Parts DEF NextPacket, HandOK, Hand, InHandPCs
      <4> QED BY <1>1, <4>1
    <3>2. CASE FreePacket(w)
      <4>1. p_cm[w] = Local(w)
        BY <3>2, LocalInHand DEF FreePacket, InHandPCs
      <4> QED BY ONLY <3>0, <4>1
    <3>3. CASE Transmit(w)
      <4>1. CASE p_cm[w] = Local(w)
        BY ONLY <3>0, <4>1
      <4>2. CASE p_cm[w] # Local(w)
        BY <3>3, <4>2 DEF Transmit
      <4> QED BY <4>1, <4>2
    <3> QED BY <1>6, <3>1, <3>2, <3>3
  <2>3. Held(i) => Held(i)'
    <3>1. CASE p_cm' = p_cm
      BY <3>1 DEF Held
    <3>2. CASE p_cm[w] # i
      BY <1>1, <3>2, StillHeld
    <3> QED BY <2>2, <3>1, <3>2
  <2> QED BY <2>1, <2>3, StillQueued DEF InUse
<1>7. CASE CopyToItem(w)
  <2>1. p_cm[w] = Local(w) /\ mailbox' = mailbox
    BY <1>7, LocalInHand DEF CopyToItem, InHandPCs
  <2>2. PICK j \in message_buffer[w] :
           /\ message_buffer' = [message_buffer EXCEPT ![w] = @ \ {j}]
           /\ p_cm' = [p_cm EXCEPT ![w] = j]
    BY <1>7 DEF CopyToItem, FreeItems, BufferWithout
  <2>3. CASE i = j
    <3>1. p_cm'[w] = i
      BY <1>1, <2>2, <2>3, MessageTypes
    <3> QED BY <1>1, <3>1 DEF InUse, Held
  <2>4. CASE i # j
    <3>1. i \in message_buffer[i[1]] => i \in message_buffer'[i[1]]
      BY <1>1, <2>2, <2>4, MessageTypes
    <3>2. p_cm[w] # i
      BY <1>1, <2>1
    <3> QED BY <1>1, <2>1, <3>1, <3>2, StillHeld, StillQueued DEF InUse
  <2> QED BY <2>3, <2>4
<1>8. CASE Enqueue(w)
  <2>1. p_cm[w] \in Items /\ dest[w] \in Cores
    BY <1>1, <1>8, Parts DEF HandOK, Hand, Enqueue, TypeOK
  <2>2. PICK d \in Cores : d = dest[w]
    BY <2>1
  <2>3. /\ UNCHANGED message_buffer
        /\ mailbox' = [mailbox EXCEPT ![d] = Append(mailbox[d], p_cm[w])]
        /\ mailbox[d] \in Seq(Items)
    BY <1>8, <2>2, MessageTypes DEF Enqueue
  <2>4. PICK e \in Nat : e = Len(mailbox[d]) + 1
    BY <2>3
  <2>5. \A k : /\ k \in DOMAIN Append(mailbox[d], p_cm[w]) <=> k \in DOMAIN mailbox[d] \/ k = e
               /\ k \in DOMAIN mailbox[d] => Append(mailbox[d], p_cm[w])[k] = mailbox[d][k]
               /\ k = e => Append(mailbox[d], p_cm[w])[k] = p_cm[w]
    BY <2>1, <2>3, <2>4, AppendAt
  <2>6. mailbox'[d] = Append(mailbox[d], p_cm[w])
        /\ \A c \in Cores : c # d => mailbox'[c] = mailbox[c]
    BY <2>3, MessageTypes
  <2>7. CASE i = p_cm[w]
    <3>1. e \in DOMAIN mailbox'[d] /\ mailbox'[d][e] = i
      BY <2>5, <2>6, <2>7
    <3> QED BY <3>1 DEF InUse, Queued
  <2>8. CASE i # p_cm[w]
    <3>1. Queued(i) => Queued(i)'
      <4> SUFFICES ASSUME NEW c \in Cores, NEW k \in DOMAIN mailbox[c], mailbox[c][k] = i
                   PROVE  k \in DOMAIN mailbox'[c] /\ mailbox'[c][k] = i
        BY DEF Queued
      <4> QED BY <2>5, <2>6
    <3> QED BY <1>1, <2>3, <2>8, <3>1, StillHeld DEF InUse
  <2> QED BY <2>7, <2>8
<1> QED BY <1>2, <1>3, <1>4, <1>5, <1>6, <1>7, <1>8 DEF Step, Run

(* Nor does any step.                                                      *)
LEMMA OwnedNext ==
    ASSUME IInv, BurstOK, Returns, AllOwned, [Next]_vars  PROVE AllOwned'
<1>1. CASE \E w \in Running : Step(w)
  BY <1>1, OwnedStep DEF AllOwned
<1>2. CASE ~ \E w \in Running : Step(w)
  <2>1. UNCHANGED <<message_buffer, mailbox, p_cm>>
    BY <1>2, AroundUnchanged DEF loopVars, messageVars
  <2> QED BY <2>1 DEF AllOwned, InUse, Queued, Held
<1> QED BY <1>1, <1>2

(* All items start in their buffers.                                       *)
LEMMA LeakInit == ASSUME NEW R, Init  PROVE Chained(R) /\ Returns /\ AllOwned
<1> USE CoresAssumption, IdFacts
<1>1. ASSUME NEW j \in MessageIds, InUse(j)  PROVE FALSE
  BY <1>1 DEF Init, InUse, Queued, Held
<1>2. Returns
  BY DEF Init, Returns
<1>3. \A i \in Items : i \in message_buffer[i[1]]
  BY DEF Init, Items
<1> QED BY <1>1, <1>2, <1>3 DEF Chained, AllOwned

(* Under tables whose chains end on the core they started from no item is  *)
(* ever left to nobody, for any sets R of actions that show it; ReturnItem *)
(* leaves an item to nobody in the other case.                             *)
THEOREM NoLeak ==
    ASSUME NEW R, Homing(R)  PROVE Spec => []NoItemLeaked
<1> DEFINE Leak == BurstOK /\ Steered /\ AtHome /\ Chained(R) /\ Returns /\ AllOwned
<1>1. Init => Leak
  BY BurstInit, SteeredInit, AtHomeInit, LeakInit
<1>2. IInv /\ Leak /\ [Next]_vars => Leak'
  <2> SUFFICES ASSUME IInv, Leak, [Next]_vars  PROVE Leak'
    OBVIOUS
  <2>1. Migrations = {}
    BY DEF Homing
  <2>2. BurstOK' /\ Steered' /\ AtHome'
    BY <2>1, BurstNext, SteeredNext, AtHomeNext
  <2>3. Chained(R)'
    BY ChainedNext
  <2>4. Returns'
    BY ReturnsNext
  <2>5. AllOwned'
    BY OwnedNext
  <2> QED BY <2>2, <2>3, <2>4, <2>5
<1>3. Leak => NoItemLeaked
  BY IdFacts DEF AllOwned, NoItemLeaked, InUse
<1> HIDE DEF Leak
<1> QED BY <1>1, <1>2, <1>3, Invariant, PTL DEF Spec

-------------------------------------------------------------------------------
(* The pipeline.  Where it sees a packet is what the message that carries  *)
(* it says, so the argument is about messages: one that is neither queued  *)
(* nor in hand carries a packet that has left, and a packet has one        *)
(* carrier.                                                                *)

(* A worker handles message i.                                             *)
Active(i) == \E v \in Cores : p_cm[v] = i /\ pc[v] \in {"handle", "run", "enqueue"}

(* Packet p has reached a transmit buffer, or left.                        *)
Gone(p) == p \in sent \/ p \in freed \/ \E c \in Cores : \E k \in DOMAIN txb[c] : txb[c][k] = p

(* A message that is filled is on its way, or its packet is gone.          *)
CarrierOK ==
    \A i \in MessageIds : msg[i] # NoMessage => Queued(i) \/ Active(i) \/ Gone(msg[i].m)

(* What a function read of its state is still there.                       *)
SeenOK == \A w \in Running : pc[w] = "run" => seen[w] = StateWord(Action(w))

-----------------------------------------------------------------------------
(* Carriers *)

(* A packet that has left stays away.                                      *)
LEMMA GoneStays ==
    ASSUME IInv, [Next]_vars, NEW p, Gone(p)  PROVE Gone(p)'
<1> USE CoresAssumption
<1>1. txb \in [Cores -> Seq(Packets)]
  BY DEF IInv, TypeOK
<1>2. CASE p \in sent \/ p \in freed
  <2>1. sent \subseteq sent' /\ freed \subseteq freed'
    <3>1. ASSUME NEW w \in Running, Step(w)  PROVE sent \subseteq sent' /\ freed \subseteq freed'
      <4>1. CASE FlushTxBuffer(w) \/ Transmit(w)
        BY <4>1 DEF FlushTxBuffer, Transmit, Leave
      <4>2. CASE Classify(w) \/ RunControl(w) \/ RunData(w)
        BY <4>2 DEF Classify, RunControl, RunData, NextAction, nicVars
      <4>3. CASE LoopTest(w) \/ DequeueMailbox(w) \/ ReturnItem(w) \/ RxBurst(w) \/ NextPacket(w)
        BY <4>3 DEF LoopTest, DequeueMailbox, ReturnItem, RxBurst, NextPacket, nicVars
      <4>4. CASE SelectAction(w) \/ CopyToItem(w) \/ FreePacket(w) \/ PassItem(w) \/ Enqueue(w)
        BY <4>4 DEF SelectAction, CopyToItem, FreePacket, PassItem, Enqueue, nicVars
      <4> QED BY <3>1, <4>1, <4>2, <4>3, <4>4 DEF Step, Run
    <3>2. CASE ~ \E w \in Running : Step(w)
      BY <3>2 DEF Next, Arrive, Migrate, DrainTick, Quit, Exit, vars, nicVars
    <3> QED BY <3>1, <3>2
  <2> QED BY <1>2, <2>1 DEF Gone
<1>3. CASE \E c \in Cores : \E k \in DOMAIN txb[c] : txb[c][k] = p
  <2>1. PICK c \in Cores : \E k \in DOMAIN txb[c] : txb[c][k] = p
    BY <1>3
  <2>2. PICK k \in DOMAIN txb[c] : txb[c][k] = p
    BY <2>1
  <2>3. PICK q \in Seq(Packets) : q = txb[c]
    BY <1>1
  <2>4. PICK l \in Nat : l = Len(q) /\ k \in 1..l
    BY <2>2, <2>3
  <2>5. ASSUME NEW b, NEW e \in Nat, \A i \in 1..l : i \in 1..e /\ b[i] = q[i],
               NEW n \in 0..e,
               sent' = sent \cup {b[i] : i \in 1..n}, freed' = freed \cup {b[i] : i \in (n + 1)..e}
        PROVE  Gone(p)'
    <3>1. k \in 1..e /\ b[k] = p
      BY <2>2, <2>3, <2>4, <2>5
    <3>2. k \in 1..n \/ k \in (n + 1)..e
      BY <2>5, <3>1
    <3> QED BY <2>5, <3>1, <3>2 DEF Gone
  <2>6. ASSUME txb'[c] = txb[c]  PROVE Gone(p)'
    BY <2>2, <2>6 DEF Gone
  <2>7. ASSUME NEW w \in Running, FlushTxBuffer(w)  PROVE Gone(p)'
    <3>1. CASE w = c
      <4>1. PICK n \in 0..l : Leave(q, n)
        BY <2>3, <2>4, <2>7, <3>1 DEF FlushTxBuffer
      <4>2. /\ sent' = sent \cup {q[i] : i \in 1..n}
            /\ freed' = freed \cup {q[i] : i \in (n + 1)..l}
        BY <2>4, <4>1 DEF Leave
      <4> QED BY <2>5, <4>2
    <3>2. CASE w # c
      BY <1>1, <2>6, <2>7, <3>2 DEF FlushTxBuffer
    <3> QED BY <3>1, <3>2
  <2>8. ASSUME NEW w \in Running, Transmit(w)  PROVE Gone(p)'
    <3>1. PICK s, m : s = StateOf[Action(w)] /\ m = msg[p_cm[w]].m
      OBVIOUS
    <3>2. CASE s # c
      <4>1. txb'[c] = txb[c]
        BY <1>1, <2>8, <3>1, <3>2 DEF Transmit
      <4> QED BY <2>6, <4>1
    <3>3. CASE s = c
      <4>1. m \in Packets
        <5>1. msg[p_cm[w]] \in Message
          BY <2>8, LocalInHand DEF Transmit, InHandPCs
        <5> QED BY <3>1, <5>1 DEF Message
      <4>2. PICK e \in Nat : e = l + 1
        OBVIOUS
      <4>3. PICK b \in Seq(Packets) : b = Append(q, m)
        <5>1. Append(q, m) \in Seq(Packets)
          BY <4>1
        <5> QED BY <5>1
      <4>4. /\ Len(b) = e /\ DOMAIN b = 1..e
            /\ \A i \in 1..l : i \in 1..e /\ b[i] = q[i]
        BY <2>4, <4>1, <4>2, <4>3
      <4>5. CASE Len(b) < TxSize
        <5>1. txb' = [txb EXCEPT ![c] = b]
          BY <2>3, <2>8, <3>1, <3>3, <4>3, <4>5 DEF Transmit
        <5>2. txb'[c] = b
          BY <1>1, <5>1
        <5>3. k \in DOMAIN txb'[c] /\ txb'[c][k] = p
          BY <2>2, <2>3, <2>4, <4>4, <5>2
        <5> QED BY <5>3 DEF Gone
      <4>6. CASE ~(Len(b) < TxSize)
        <5>1. \E n \in 0..Len(b) : Leave(b, n)
          BY <2>3, <2>8, <3>1, <3>3, <4>3, <4>6 DEF Transmit
        <5>2. PICK n \in 0..e : Leave(b, n)
          BY <4>4, <5>1
        <5>3. /\ sent' = sent \cup {b[i] : i \in 1..n}
              /\ freed' = freed \cup {b[i] : i \in (n + 1)..e}
          BY <4>4, <5>2 DEF Leave
        <5> QED BY <2>5, <4>4, <5>3
      <4> QED BY <4>5, <4>6
    <3> QED BY <3>2, <3>3
  <2>9. ASSUME NEW w \in Running, Step(w), ~FlushTxBuffer(w), ~Transmit(w)  PROVE txb' = txb
    <3>1. CASE Classify(w) \/ RunControl(w) \/ RunData(w)
      BY <3>1 DEF Classify, RunControl, RunData, NextAction, nicVars
    <3>2. CASE LoopTest(w) \/ DequeueMailbox(w) \/ ReturnItem(w) \/ RxBurst(w) \/ NextPacket(w)
      BY <3>2 DEF LoopTest, DequeueMailbox, ReturnItem, RxBurst, NextPacket, nicVars
    <3>3. CASE SelectAction(w) \/ CopyToItem(w) \/ FreePacket(w) \/ PassItem(w) \/ Enqueue(w)
      BY <3>3 DEF SelectAction, CopyToItem, FreePacket, PassItem, Enqueue, nicVars
    <3> QED BY <2>9, <3>1, <3>2, <3>3 DEF Step, Run
  <2>10. CASE ~ \E w \in Running : Step(w)
    <3>1. txb' = txb
      BY <2>10 DEF Next, Arrive, Migrate, DrainTick, Quit, Exit, vars, nicVars
    <3> QED BY <2>6, <3>1
  <2> QED BY <2>6, <2>7, <2>8, <2>9, <2>10
<1> QED BY <1>2, <1>3 DEF Gone

(* Another worker's message stays in its hands.                            *)
LEMMA StillActive ==
    ASSUME NEW w \in Cores, NEW i, Active(i),
           \A v \in Cores : v # w => pc'[v] = pc[v] /\ p_cm'[v] = p_cm[v],
           p_cm[w] # i \/ pc[w] \notin {"handle", "run", "enqueue"}
    PROVE  Active(i)'
BY DEF Active

(* packet_out's packet is in the buffer, or left with it.                  *)
LEMMA TransmitGone ==
    ASSUME IInv, NEW w \in Running, Transmit(w), NEW p \in Packets, p = msg[p_cm[w]].m
    PROVE  Gone(p)'
<1> USE CoresAssumption
<1>1. PICK s \in Cores : s = StateOf[Action(w)]
  <2>1. Action(w) \in Actions
    BY LocalInHand DEF Transmit, InHandPCs
  <2> QED BY <2>1, TableAssumption DEF Transmit
<1>2. PICK q \in Seq(Packets) : q = txb[s]
  BY Parts DEF TypeOK
<1>3. PICK e \in Nat : e = Len(q) + 1
  BY <1>2
<1>4. PICK b \in Seq(Packets) : b = Append(q, p)
  <2>1. Append(q, p) \in Seq(Packets)
    BY <1>2
  <2> QED BY <2>1
<1>5. Len(b) = e /\ DOMAIN b = 1..e /\ e \in 1..e /\ b[e] = p
  BY <1>2, <1>3, <1>4
<1>6. CASE Len(b) < TxSize
  <2>1. txb' = [txb EXCEPT ![s] = b]
    BY <1>1, <1>2, <1>4, <1>6 DEF Transmit
  <2>2. txb'[s] = b
    BY <1>1, <2>1, Parts DEF TypeOK
  <2>3. e \in DOMAIN txb'[s] /\ txb'[s][e] = p
    BY <1>5, <2>2
  <2> QED BY <1>1, <2>3 DEF Gone
<1>7. CASE ~(Len(b) < TxSize)
  <2>1. \E n \in 0..Len(b) : Leave(b, n)
    BY <1>1, <1>2, <1>4, <1>7 DEF Transmit
  <2>2. PICK n \in 0..e : Leave(b, n)
    BY <1>5, <2>1
  <2>3. /\ sent' = sent \cup {b[i] : i \in 1..n}
        /\ freed' = freed \cup {b[i] : i \in (n + 1)..e}
    BY <1>5, <2>2 DEF Leave
  <2>4. e \in 1..n \/ e \in (n + 1)..e
    BY <1>5, <2>2
  <2> QED BY <1>5, <2>3, <2>4 DEF Gone
<1> QED BY <1>6, <1>7

(* After a step of w a filled message is queued, handled, or its packet    *)
(* gone, if that was so before.                                            *)
LEMMA CarrierStep ==
    ASSUME IInv, CarrierOK, [Next]_vars, NEW w \in Running, Step(w),
           \A v \in Cores : v # w => pc'[v] = pc[v] /\ p_cm'[v] = p_cm[v],
           NEW i \in MessageIds, msg'[i] # NoMessage
    PROVE  Queued(i)' \/ Active(i)' \/ \E p \in Packets : p = msg'[i].m /\ Gone(p)'
<1> USE CoresAssumption, IdFacts
<1> DEFINE Ok == Queued(i)' \/ Active(i)' \/ \E p \in Packets : p = msg'[i].m /\ Gone(p)'
<1>0. w \in Cores
  OBVIOUS
<1>1. ASSUME msg'[i] = msg[i]
      PROVE  /\ Queued(i) \/ Active(i) \/ Gone(msg[i].m)
             /\ Gone(msg[i].m) => Ok
  <2>1. msg[i] \in Message
    BY <1>1, MessageTypes
  <2>2. PICK p \in Packets : p = msg[i].m
    BY <2>1 DEF Message
  <2>3. Gone(p) => Gone(p)'
    BY GoneStays
  <2> QED BY <1>1, <2>2, <2>3 DEF CarrierOK
<1>2. ASSUME mailbox' = mailbox  PROVE Queued(i) => Ok
  BY <1>2, StillQueued
<1>3. ASSUME p_cm[w] # i \/ pc[w] \notin {"handle", "run", "enqueue"}  PROVE Active(i) => Ok
  BY <1>0, <1>3, StillActive
<1>4. ASSUME p_cm'[w] = i, pc'[w] \in {"handle", "run", "enqueue"}  PROVE Ok
  BY <1>0, <1>4 DEF Active
<1> SUFFICES Ok
  OBVIOUS
<1> HIDE DEF Ok
<1>5. CASE LoopTest(w) \/ FlushTxBuffer(w) \/ RxBurst(w) \/ SelectAction(w) \/ PassItem(w)
  <2>1. UNCHANGED <<msg, mailbox, p_cm>>
    BY <1>5 DEF LoopTest, FlushTxBuffer, RxBurst, SelectAction, PassItem, messageVars
  <2>2. pc[w] \in {"handle", "run", "enqueue"} => pc'[w] \in {"handle", "run", "enqueue"}
    BY <1>0, <1>5, MessageTypes DEF LoopTest, FlushTxBuffer, RxBurst, SelectAction, PassItem
  <2> QED BY <1>1, <1>2, <1>3, <1>4, <2>1, <2>2
<1>6. CASE Classify(w) \/ RunControl(w) \/ RunData(w)
  <2>1. PICK x : NextAction(w, x)
    BY <1>6 DEF Classify, RunControl, RunData
  <2>2. UNCHANGED <<mailbox, p_cm>> /\ pc'[w] = "handle"
    BY <1>0, <2>1, MessageTypes DEF NextAction
  <2>3. CASE p_cm[w] = i
    BY <1>4, <2>2, <2>3
  <2>4. CASE p_cm[w] # i
    <3>1. msg'[i] = msg[i]
      BY <2>1, <2>4, MessageTypes DEF NextAction
    <3> QED BY <1>1, <1>2, <1>3, <2>2, <2>4, <3>1
  <2> QED BY <2>3, <2>4
<1>7. CASE DequeueMailbox(w)
  <2>1. msg' = msg /\ pc[w] = "mailbox"
    BY <1>7 DEF DequeueMailbox
  <2>2. Queued(i) => Ok
    <3>1. CASE mailbox[w] = <<>>
      <4>1. mailbox' = mailbox
        BY <1>7, <3>1 DEF DequeueMailbox
      <4> QED BY <1>2, <4>1
    <3>2. CASE mailbox[w] # <<>>
      <4> DEFINE q == mailbox[w]
      <4>1. q \in Seq(Items)
        BY <1>0, MessageTypes
      <4>2. /\ 1 \in DOMAIN q /\ Head(q) = q[1]
            /\ \A k \in DOMAIN q : k # 1 =>
                  k - 1 \in DOMAIN Tail(q) /\ Tail(q)[k - 1] = q[k]
        BY <3>2, <4>1, TailAt
      <4>3. /\ p_cm' = [p_cm EXCEPT ![w] = Head(q)] /\ pc' = [pc EXCEPT ![w] = "handle"]
            /\ mailbox' = [mailbox EXCEPT ![w] = Tail(q)]
        BY <1>0, <1>7, <3>2, MessageTypes DEF DequeueMailbox
      <4> SUFFICES ASSUME NEW c \in Cores, NEW k \in DOMAIN mailbox[c], mailbox[c][k] = i
                   PROVE  Ok
        BY DEF Queued
      <4>4. CASE c = w /\ k = 1
        <5>1. p_cm'[w] = i /\ pc'[w] = "handle"
          BY <1>0, <4>2, <4>3, <4>4, MessageTypes
        <5> QED BY <1>4, <5>1
      <4>5. CASE c = w /\ k # 1
        <5>1. mailbox'[w] = Tail(q)
          BY <1>0, <4>3, MessageTypes
        <5>2. k - 1 \in DOMAIN mailbox'[w] /\ mailbox'[w][k - 1] = i
          BY <4>2, <4>5, <5>1
        <5> QED BY <1>0, <5>2 DEF Queued, Ok
      <4>6. CASE c # w
        <5>1. mailbox'[c] = mailbox[c]
          BY <4>3, <4>6, MessageTypes
        <5> QED BY <5>1 DEF Queued, Ok
      <4> QED BY <4>4, <4>5, <4>6
    <3> QED BY <3>1, <3>2
  <2> QED BY <1>1, <1>3, <2>1, <2>2
<1>8. CASE ReturnItem(w)
  <2>1. /\ mailbox' = mailbox /\ pc[w] = "return"
        /\ \A j \in MessageIds : j # p_cm[w] => msg'[j] = msg[j]
    BY <1>8, MessageTypes DEF ReturnItem
  <2>2. msg'[i] = msg[i]
    <3>1. CASE i = p_cm[w]
      BY <1>8, <3>1, MessageTypes DEF ReturnItem
    <3> QED BY <2>1, <3>1
  <2> QED BY <1>1, <1>2, <1>3, <2>1, <2>2
<1>9. CASE FreePacket(w) \/ (Transmit(w) /\ p_cm[w] = Local(w))
  <2>1. p_cm[w] \in MessageIds
    BY <1>9, LocalInHand DEF FreePacket, Transmit, InHandPCs
  <2>2. mailbox' = mailbox /\ msg' = [msg EXCEPT ![p_cm[w]] = NoMessage]
    BY <1>9 DEF FreePacket, Transmit
  <2>3. i # p_cm[w] /\ msg'[i] = msg[i]
    BY <2>1, <2>2, MessageTypes
  <2> QED BY <1>1, <1>2, <1>3, <2>2, <2>3
<1>10. CASE Transmit(w) /\ p_cm[w] # Local(w)
  <2>1. mailbox' = mailbox /\ msg' = msg
    BY <1>10 DEF Transmit
  <2>2. CASE i = p_cm[w]
    <3>1. PICK p \in Packets : p = msg[p_cm[w]].m
      <4>1. msg[p_cm[w]] \in Message
        BY <1>10, LocalInHand DEF Transmit, InHandPCs
      <4> QED BY <4>1 DEF Message
    <3>2. Gone(p)'
      BY <1>10, <3>1, TransmitGone
    <3> QED BY <2>1, <2>2, <3>1, <3>2 DEF Ok
  <2>3. CASE i # p_cm[w]
    BY <1>1, <1>2, <1>3, <2>1, <2>3
  <2> QED BY <2>2, <2>3
<1>11. CASE NextPacket(w)
  <2>1. mailbox' = mailbox /\ pc[w] = "next"
    BY <1>11 DEF NextPacket
  <2>2. CASE msg'[i] = msg[i]
    BY <1>1, <1>2, <1>3, <2>1, <2>2
  <2>3. CASE msg'[i] # msg[i]
    <3>1. pkts_burst[w] # <<>>
      BY <1>11, <2>3 DEF NextPacket
    <3>2. i = Local(w) /\ p_cm'[w] = Local(w) /\ pc'[w] = "handle"
      BY <1>0, <1>11, <2>3, <3>1, MessageTypes DEF NextPacket
    <3> QED BY <1>4, <3>2
  <2> QED BY <2>2, <2>3
<1>12. CASE CopyToItem(w)
  <2>1. /\ p_cm[w] = Local(w) /\ p_cm[w] # NoMessage
        /\ mailbox' = mailbox /\ pc'[w] = "enqueue"
    BY <1>0, <1>12, LocalInHand, MessageTypes DEF CopyToItem, InHandPCs
  <2>2. PICK j \in message_buffer[w] :
           /\ msg' = [msg EXCEPT ![j] = [msg[p_cm[w]] EXCEPT !.producer_id = w],
                                ![p_cm[w]] = NoMessage]
           /\ p_cm' = [p_cm EXCEPT ![w] = j]
    BY <1>12 DEF CopyToItem, FreeItems, BufferWithout
  <2>3. j \in MessageIds /\ j # Local(w) /\ p_cm'[w] = j
    BY <1>0, <2>2, MessageTypes
  <2>4. CASE i = j
    BY <1>4, <2>1, <2>3, <2>4
  <2>5. CASE i # j
    <3> DEFINE y == [msg[p_cm[w]] EXCEPT !.producer_id = w]
    <3>1. msg' = [msg EXCEPT ![j] = y, ![p_cm[w]] = NoMessage]
      BY <2>2
    <3> HIDE DEF y
    <3>2. i # p_cm[w] /\ msg'[i] = msg[i]
      BY <2>1, <2>3, <2>5, <3>1, MessageTypes
    <3> QED BY <1>1, <1>2, <1>3, <2>1, <3>2
  <2> QED BY <2>4, <2>5
<1>13. CASE Enqueue(w)
  <2>1. p_cm[w] \in Items /\ dest[w] \in Cores /\ msg' = msg
    BY <1>0, <1>13, Parts DEF HandOK, Hand, Enqueue, TypeOK
  <2>2. PICK d \in Cores : d = dest[w]
    BY <2>1
  <2>3. /\ mailbox' = [mailbox EXCEPT ![d] = Append(mailbox[d], p_cm[w])]
        /\ mailbox[d] \in Seq(Items)
    BY <1>13, <2>2, MessageTypes DEF Enqueue
  <2>4. PICK e \in Nat : e = Len(mailbox[d]) + 1
    BY <2>3
  <2>5. \A k : /\ k \in DOMAIN Append(mailbox[d], p_cm[w]) <=> k \in DOMAIN mailbox[d] \/ k = e
               /\ k \in DOMAIN mailbox[d] => Append(mailbox[d], p_cm[w])[k] = mailbox[d][k]
               /\ k = e => Append(mailbox[d], p_cm[w])[k] = p_cm[w]
    BY <2>1, <2>3, <2>4, AppendAt
  <2>6. mailbox'[d] = Append(mailbox[d], p_cm[w])
        /\ \A c \in Cores : c # d => mailbox'[c] = mailbox[c]
    BY <2>3, MessageTypes
  <2>7. CASE i = p_cm[w]
    <3>1. e \in DOMAIN mailbox'[d] /\ mailbox'[d][e] = i
      BY <2>5, <2>6, <2>7
    <3> QED BY <3>1 DEF Queued, Ok
  <2>8. CASE i # p_cm[w]
    <3>1. Queued(i) => Ok
      <4> SUFFICES ASSUME NEW c \in Cores, NEW k \in DOMAIN mailbox[c], mailbox[c][k] = i
                   PROVE  k \in DOMAIN mailbox'[c] /\ mailbox'[c][k] = i
        BY DEF Queued, Ok
      <4> QED BY <2>5, <2>6
    <3> QED BY <1>1, <1>3, <2>1, <2>8, <3>1
  <2> QED BY <2>7, <2>8
<1> QED BY <1>5, <1>6, <1>7, <1>8, <1>9, <1>10, <1>11, <1>12, <1>13 DEF Step, Run

(* No message is filled at the start.                                      *)
LEMMA CarrierInit == Init => CarrierOK
BY DEF Init, CarrierOK

(* A filled message stays on its way until its packet is gone.             *)
LEMMA CarrierNext ==
    ASSUME IInv, BurstOK, CarrierOK, [Next]_vars  PROVE CarrierOK'
<1>1. ASSUME NEW w \in Running, Step(w)  PROVE CarrierOK'
  <2>1. \A v \in Cores : v # w => pc'[v] = pc[v] /\ p_cm'[v] = p_cm[v]
    BY <1>1, StepOthers
  <2>2. ASSUME NEW i \in MessageIds, msg'[i] # NoMessage
        PROVE  Queued(i)' \/ Active(i)' \/ Gone(msg[i].m)'
    <3>1. Queued(i)' \/ Active(i)' \/ \E p \in Packets : p = msg'[i].m /\ Gone(p)'
      BY <1>1, <2>1, <2>2, CarrierStep
    <3>2. ASSUME NEW p \in Packets, p = msg'[i].m, Gone(p)'  PROVE Gone(msg[i].m)'
      BY <3>2 DEF Gone
    <3> QED BY <3>1, <3>2
  <2>3. MessageIds' = MessageIds
    BY DEF MessageIds
  <2> QED BY <2>2, <2>3 DEF CarrierOK
<1>2. CASE ~ \E w \in Running : Step(w)
  <2>1. UNCHANGED <<msg, mailbox, p_cm, pc>>
    BY <1>2, AroundUnchanged DEF loopVars, messageVars
  <2>2. ASSUME NEW i \in MessageIds, msg[i] # NoMessage
        PROVE  Queued(i)' \/ Active(i)' \/ Gone(msg[i].m)'
    <3>1. Queued(i) => Queued(i)'
      BY <2>1 DEF Queued
    <3>2. Active(i) => Active(i)'
      BY <2>1 DEF Active
    <3>3. Gone(msg[i].m) => Gone(msg[i].m)'
      <4>1. PICK p : p = msg[i].m
        OBVIOUS
      <4>2. Gone(p) => Gone(p)'
        BY GoneStays
      <4> QED BY <2>1, <4>1, <4>2 DEF Gone
    <3> QED BY <2>2, <3>1, <3>2, <3>3 DEF CarrierOK
  <2> QED BY <2>1, <2>2 DEF CarrierOK
<1> QED BY <1>1, <1>2

-----------------------------------------------------------------------------
(* What a function has read                                                *)

(* Nobody is in a function at the start.                                   *)
LEMMA SeenInit == Init => SeenOK
BY CoresAssumption DEF Init, SeenOK

(* A worker enters a function in no other way than SelectAction.           *)
LEMMA EntersBySelect ==
    ASSUME IInv, NEW w \in Running, Step(w), pc'[w] = "run"  PROVE SelectAction(w)
<1> USE CoresAssumption
<1> SUFFICES ASSUME ~SelectAction(w)
             PROVE  \E x \in PCs \ {"run"} : pc' = [pc EXCEPT ![w] = x]
  BY MessageTypes
<1>1. ret_to[w] \in {"mailbox", "next"}
  BY DEF IInv, TypeOK
<1>2. CASE LoopTest(w)
  BY <1>2 DEF LoopTest, PCs
<1>3. CASE FlushTxBuffer(w) \/ ReturnItem(w) \/ RxBurst(w)
  BY <1>3 DEF FlushTxBuffer, ReturnItem, RxBurst, PCs
<1>4. CASE DequeueMailbox(w)
  BY <1>4 DEF DequeueMailbox, PCs
<1>5. CASE NextPacket(w)
  BY <1>5 DEF NextPacket, PCs
<1>6. CASE CopyToItem(w) \/ PassItem(w)
  BY <1>6 DEF CopyToItem, PassItem, PCs
<1>7. CASE FreePacket(w) \/ Enqueue(w)
  BY <1>1, <1>7 DEF FreePacket, Enqueue, PCs
<1>8. CASE Transmit(w)
  BY <1>8 DEF Transmit, PCs
<1>9. CASE Classify(w) \/ RunControl(w) \/ RunData(w)
  BY <1>9 DEF Classify, RunControl, RunData, NextAction, PCs
<1> QED BY <1>2, <1>3, <1>4, <1>5, <1>6, <1>7, <1>8, <1>9 DEF Step, Run

(* The states exclude each other, so nobody writes what a function read.   *)
LEMMA SeenNext ==
    ASSUME Colocated, IInv, BurstOK, AtHome, SeenOK, [Next]_vars  PROVE SeenOK'
<1> USE CoresAssumption
<1>1. ASSUME NEW w \in Running, Step(w), NEW v \in Running, pc'[v] = "run"
      PROVE  seen'[v] = StateWord(Action(v))'
  <2>1. CASE v = w
    <3>1. SelectAction(w)
      BY <1>1, <2>1, EntersBySelect
    <3>2. seen'[w] = StateWord(Action(w)) /\ UNCHANGED <<msg, p_cm, counter, n_message>>
      BY <3>1 DEF SelectAction, IInv, TypeOK, messageVars, stateVars
    <3> QED BY <2>1, <3>2 DEF StateWord, Action
  <2>2. CASE v # w
    <3>1. pc'[v] = pc[v]
      BY <1>1, <2>2, StepOthers
    <3>2. /\ pc[v] = "run" /\ Action(v) \in Actions /\ p_cm[v] # NoMessage
      BY <1>1, <3>1, LocalInHand DEF InHandPCs
    <3>3. PICK a \in Actions : a = Action(v)
      BY <3>2
    <3>4. Action(v)' = a
      BY <1>1, <2>2, <3>2, <3>3, NoInterference
    <3>5. seen'[v] = seen[v]
      <4>1. seen' = seen \/ \E x : seen' = [seen EXCEPT ![w] = x]
        BY <1>1 DEF Step, Run, LoopTest, FlushTxBuffer, DequeueMailbox, ReturnItem, RxBurst,
           NextPacket, SelectAction, CopyToItem, FreePacket, PassItem, Enqueue, Classify,
           RunControl, RunData, NextAction, Transmit
      <4> QED BY <2>2, <4>1 DEF IInv, TypeOK
    <3>6. StateWord(a)' = StateWord(a)
      <4>1. CASE counter' = counter /\ n_message' = n_message
        BY <4>1 DEF StateWord
      <4>2. CASE Classify(w) \/ RunControl(w) \/ RunData(w)
        <5>1. /\ pc[w] = "run" /\ Kind[Action(w)] # "packet_out" /\ Action(w) \in Actions
          BY <4>2, LocalInHand DEF Classify, RunControl, RunData, InHandPCs
        <5>2. PICK s \in States : s = StateOf[Action(w)]
          BY <5>1, TableAssumption
        <5>3. StateOf[a] # s
          <6>1. ASSUME StateOf[a] = s  PROVE FALSE
            <7>1. Inside(v, s) /\ Inside(w, s)
              BY <3>2, <3>3, <5>1, <5>2, <6>1 DEF Inside
            <7> QED BY <2>2, <7>1, AtHomeExclusive DEF StateExclusive
          <6> QED BY <6>1
        <5>4. \/ counter' = counter
              \/ \E x : counter' = [counter EXCEPT ![s] = x]
          BY <4>2, <5>2 DEF Classify, RunControl, RunData
        <5>5. \/ n_message' = n_message
              \/ \E x : n_message' = [n_message EXCEPT ![s] = x]
          BY <4>2, <5>2 DEF Classify, RunControl, RunData
        <5>6. \A t \in States : t # s => counter'[t] = counter[t] /\ n_message'[t] = n_message[t]
          BY <5>4, <5>5 DEF IInv, TypeOK
        <5>7. Kind[a] # "packet_out" => StateOf[a] \in States
          BY TableAssumption
        <5> QED BY <5>3, <5>6, <5>7 DEF StateWord
      <4>3. CASE ~(Classify(w) \/ RunControl(w) \/ RunData(w))
        BY <1>1, <4>1, <4>3 DEF Step, Run, LoopTest, FlushTxBuffer, DequeueMailbox, ReturnItem,
           RxBurst, NextPacket, SelectAction, CopyToItem, FreePacket, PassItem, Enqueue,
           Transmit, stateVars
      <4> QED BY <4>2, <4>3
    <3>7. StateWord(Action(v))' = StateWord(a)'
      BY <3>4 DEF StateWord
    <3> QED BY <3>2, <3>3, <3>5, <3>6, <3>7 DEF SeenOK
  <2> QED BY <2>1, <2>2
<1>2. CASE \E w \in Running : Step(w)
  BY <1>1, <1>2 DEF SeenOK
<1>3. CASE ~ \E w \in Running : Step(w)
  <2>1. UNCHANGED <<pc, msg, p_cm, seen, counter, n_message>>
    BY <1>3 DEF Next, Arrive, Migrate, DrainTick, Quit, Exit, vars, loopVars, messageVars,
       stateVars
  <2> QED BY <2>1 DEF SeenOK, StateWord, Action
<1> QED BY <1>2, <1>3

-----------------------------------------------------------------------------
(* Where the pipeline sees a packet                                        *)

(* Its position is where it is, or what its one carrier names.             *)
Placed ==
    \A p \in Packets :
        /\ p \in wire => Position(p) = "wire" /\ ~Gone(p)
        /\ p \in sent => Position(p) = "sent" /\ p \notin wire
        /\ p \in freed => Position(p) = "freed" /\ p \notin wire
        /\ \A c, k : At(p, "txb", c, k) =>
              Position(p) = "buffered" /\ p \notin wire /\ p \notin sent /\ p \notin freed
        /\ \A c, k : At(p, "burst", c, k) \/ At(p, "rxq", c, k) =>
              Position(p) = EntryAction[p] /\ ~Gone(p) /\ p \notin wire
        /\ \A i \in MessageIds : msg[i] # NoMessage /\ msg[i].m = p /\ ~Gone(p) =>
              Position(p) = msg[i].action_id /\ Carriers(p) = {i} /\ p \notin wire
        /\ \A c, k : At(p, "held", c, k) => ~Gone(p) /\ p \notin wire

(* What the one place of a packet says of all the others.                  *)
LEMMA PlaceOut ==
    ASSUME NEW p, OnePlace(p), NEW t, NEW c, NEW k, At(p, t, c, k)
    PROVE  /\ t \notin {"sent", "freed", "txb"} => ~Gone(p)
           /\ t # "wire" => p \notin wire
           /\ t # "sent" => p \notin sent
           /\ t # "freed" => p \notin freed
           /\ t # "txb" => ~ \E d \in Cores : \E j \in DOMAIN txb[d] : txb[d][j] = p
<1>1. \A a, b, n : At(p, a, b, n) => a = t
  BY DEF OnePlace
<1>2. p \in wire => At(p, "wire", 0, 0)
  BY DEF At
<1>3. p \in sent => At(p, "sent", 0, 0)
  BY DEF At
<1>4. p \in freed => At(p, "freed", 0, 0)
  BY DEF At
<1>5. \A d \in Cores : \A j \in DOMAIN txb[d] : txb[d][j] = p => At(p, "txb", d, j)
  BY DEF At
<1> QED BY <1>1, <1>2, <1>3, <1>4, <1>5 DEF Gone

(* A carrier of a packet that is not gone is the packet's place.           *)
LEMMA CarrierAt ==
    ASSUME IInv, CarrierOK, NEW i \in MessageIds, msg[i] # NoMessage, NEW p, msg[i].m = p,
           ~Gone(p)
    PROVE  \/ \E c \in Cores : \E k \in DOMAIN mailbox[c] :
                 mailbox[c][k] = i /\ At(p, "queued", c, k)
           \/ \E c \in Cores : p_cm[c] = i /\ At(p, "held", c, 0)
<1>1. CASE Queued(i)
  <2>1. PICK c \in Cores : \E k \in DOMAIN mailbox[c] : mailbox[c][k] = i
    BY <1>1 DEF Queued
  <2>2. PICK k \in DOMAIN mailbox[c] : mailbox[c][k] = i
    BY <2>1
  <2>3. At(p, "queued", c, k)
    BY <2>2 DEF At
  <2> QED BY <2>2, <2>3
<1>2. CASE Active(i)
  <2>1. PICK c \in Cores : p_cm[c] = i /\ pc[c] \in {"handle", "run", "enqueue"}
    BY <1>2 DEF Active
  <2>2. At(p, "held", c, 0)
    BY <2>1 DEF At
  <2> QED BY <2>1, <2>2
<1> QED BY <1>1, <1>2 DEF CarrierOK

(* One place and one carrier give every packet its position.               *)
LEMMA PlacedAlways == PacketInv /\ CarrierOK => Placed
<1> SUFFICES ASSUME PacketInv, CarrierOK, NEW p \in Packets
             PROVE  /\ p \in wire => Position(p) = "wire" /\ ~Gone(p)
                    /\ p \in sent => Position(p) = "sent" /\ p \notin wire
                    /\ p \in freed => Position(p) = "freed" /\ p \notin wire
                    /\ \A c, k : At(p, "txb", c, k) =>
                          Position(p) = "buffered" /\ p \notin wire /\ p \notin sent /\ p \notin freed
                    /\ \A c, k : At(p, "burst", c, k) \/ At(p, "rxq", c, k) =>
                          Position(p) = EntryAction[p] /\ ~Gone(p) /\ p \notin wire
                    /\ \A i \in MessageIds : msg[i] # NoMessage /\ msg[i].m = p /\ ~Gone(p) =>
                          Position(p) = msg[i].action_id /\ Carriers(p) = {i} /\ p \notin wire
                    /\ \A c, k : At(p, "held", c, k) => ~Gone(p) /\ p \notin wire
  BY DEF Placed
<1>0. IInv /\ OnePlace(p)
  BY DEF PacketInv
<1>1. p \in wire => Position(p) = "wire" /\ ~Gone(p)
  <2>1. p \in wire => At(p, "wire", 0, 0)
    BY DEF At
  <2> QED BY <1>0, <2>1, PlaceOut DEF Position
<1>2. p \in sent => Position(p) = "sent" /\ p \notin wire
  <2>1. p \in sent => At(p, "sent", 0, 0)
    BY DEF At
  <2> QED BY <1>0, <2>1, PlaceOut DEF Position
<1>3. p \in freed => Position(p) = "freed" /\ p \notin wire
  <2>1. CASE p \in freed
    <3>1. At(p, "freed", 0, 0)
      BY <2>1 DEF At
    <3>2. p \notin wire
      BY <1>0, <3>1, PlaceOut
    <3>3. p \notin sent
      BY <1>0, <3>1, PlaceOut
    <3>4. ~ \E d \in Cores : \E j \in DOMAIN txb[d] : txb[d][j] = p
      BY <1>0, <3>1, PlaceOut
    <3> QED BY <2>1, <3>2, <3>3, <3>4 DEF Position
  <2> QED BY <2>1
<1>4. ASSUME NEW c, NEW k, At(p, "txb", c, k)
      PROVE  Position(p) = "buffered" /\ p \notin wire /\ p \notin sent /\ p \notin freed
  <2>1. p \notin wire /\ p \notin sent /\ p \notin freed
    BY <1>0, <1>4, PlaceOut
  <2>2. \E d \in Cores : \E j \in DOMAIN txb[d] : txb[d][j] = p
    BY <1>4 DEF At
  <2> QED BY <2>1, <2>2 DEF Position
<1>5. ASSUME NEW i \in MessageIds, msg[i] # NoMessage, msg[i].m = p, ~Gone(p)
      PROVE  Position(p) = msg[i].action_id /\ Carriers(p) = {i} /\ p \notin wire
  <2>1. ASSUME NEW j \in MessageIds, msg[j] # NoMessage, msg[j].m = p  PROVE j = i
    <3>1. \A t, c, k, u, d, n : At(p, t, c, k) /\ At(p, u, d, n) => t = u /\ c = d /\ k = n
      BY <1>0 DEF OnePlace
    <3>2. \/ \E c \in Cores : \E k \in DOMAIN mailbox[c] :
                mailbox[c][k] = i /\ At(p, "queued", c, k)
          \/ \E c \in Cores : p_cm[c] = i /\ At(p, "held", c, 0)
      BY <1>0, <1>5, CarrierAt
    <3>3. \/ \E c \in Cores : \E k \in DOMAIN mailbox[c] :
                mailbox[c][k] = j /\ At(p, "queued", c, k)
          \/ \E c \in Cores : p_cm[c] = j /\ At(p, "held", c, 0)
      BY <1>0, <1>5, <2>1, CarrierAt
    <3> QED BY <3>1, <3>2, <3>3
  <2>2. Carriers(p) = {i}
    BY <1>5, <2>1 DEF Carriers
  <2>3. (CHOOSE j \in {i} : TRUE) = i
    OBVIOUS
  <2>4. p \notin wire
    BY <1>1, <1>5, <1>0, CarrierAt, PlaceOut
  <2>5. p \notin sent /\ p \notin freed /\ ~ \E c \in Cores : \E k \in DOMAIN txb[c] : txb[c][k] = p
    BY <1>5 DEF Gone
  <2> QED BY <2>2, <2>3, <2>4, <2>5 DEF Position
<1>6. ASSUME NEW c, NEW k, At(p, "burst", c, k) \/ At(p, "rxq", c, k)
      PROVE  Position(p) = EntryAction[p] /\ ~Gone(p) /\ p \notin wire
  <2>1. ~Gone(p) /\ p \notin wire
    BY <1>0, <1>6, PlaceOut
  <2>2. ASSUME NEW i \in MessageIds, msg[i] # NoMessage, msg[i].m = p  PROVE FALSE
    <3>1. \A t, d, n, u, e, m : At(p, t, d, n) /\ At(p, u, e, m) => t = u
      BY <1>0 DEF OnePlace
    <3> QED BY <1>0, <1>6, <2>1, <2>2, <3>1, CarrierAt
  <2>3. Carriers(p) = {}
    BY <2>2 DEF Carriers
  <2> QED BY <2>1, <2>3 DEF Position, Gone
<1>7. \A c, k : At(p, "held", c, k) => ~Gone(p) /\ p \notin wire
  BY <1>0, PlaceOut
<1> QED BY <1>1, <1>2, <1>3, <1>4, <1>5, <1>6, <1>7

(* What holds of every state, for the refinement.                          *)
Ref == PacketInv /\ CarrierOK /\ Steered /\ AtHome /\ SeenOK /\ Placed

(* What a step changes of where q is, if the step is not about q.          *)
LEMMA SamePosition ==
    ASSUME NEW q,
           q \in wire' <=> q \in wire,
           q \in sent' <=> q \in sent,
           q \in freed' <=> q \in freed,
           (\E c \in Cores : \E k \in DOMAIN txb'[c] : txb'[c][k] = q)
               <=> (\E c \in Cores : \E k \in DOMAIN txb[c] : txb[c][k] = q),
           \/ q \in wire
           \/ Gone(q)
           \/ /\ Carriers(q)' = Carriers(q)
              /\ \A i \in Carriers(q) : msg'[i].action_id = msg[i].action_id
    PROVE  Position(q)' = Position(q)
<1>1. CASE q \in wire
  BY <1>1 DEF Position
<1>2. CASE q \notin wire /\ Gone(q)
  <2>1. CASE q \in sent
    BY <1>2, <2>1 DEF Position
  <2>2. CASE q \notin sent /\ q \in freed
    BY <1>2, <2>2 DEF Position
  <2>3. CASE q \notin sent /\ q \notin freed
    <3>1. \E c \in Cores : \E k \in DOMAIN txb[c] : txb[c][k] = q
      BY <1>2, <2>3 DEF Gone
    <3> QED BY <1>2, <2>3, <3>1 DEF Position
  <2> QED BY <2>1, <2>2, <2>3
<1>3. CASE /\ Carriers(q)' = Carriers(q)
           /\ \A i \in Carriers(q) : msg'[i].action_id = msg[i].action_id
  <2>1. PICK C : C = Carriers(q)
    OBVIOUS
  <2>2. C # {} => (CHOOSE i \in C : TRUE) \in C
    OBVIOUS
  <2>3. C # {} => msg'[CHOOSE i \in C : TRUE].action_id = msg[CHOOSE i \in C : TRUE].action_id
    BY <1>3, <2>1, <2>2
  <2> QED BY <1>3, <2>1, <2>3 DEF Position
<1> QED BY <1>1, <1>2, <1>3

(* A step that rewrites no carrier of q.                                   *)
LEMMA CarriersKept ==
    ASSUME NEW q, NEW X, \A j \in MessageIds \ X : msg'[j] = msg[j],
           \A j \in X : j \notin Carriers(q) /\ j \notin Carriers(q)'
    PROVE  /\ Carriers(q)' = Carriers(q)
           /\ \A i \in Carriers(q) : msg'[i].action_id = msg[i].action_id
<1>1. \A j \in MessageIds : j \in Carriers(q)' <=> j \in Carriers(q)
  <2> SUFFICES ASSUME NEW j \in MessageIds  PROVE j \in Carriers(q)' <=> j \in Carriers(q)
    OBVIOUS
  <2>1. CASE j \in X
    BY <2>1
  <2>2. CASE j \notin X
    BY <2>2 DEF Carriers
  <2> QED BY <2>1, <2>2
<1>2. Carriers(q) \subseteq MessageIds /\ Carriers(q)' \subseteq MessageIds
  BY DEF Carriers, MessageIds
<1>3. Carriers(q)' = Carriers(q)
  BY <1>1, <1>2
<1>4. \A i \in Carriers(q) : i \in MessageIds \ X
  BY <1>2
<1> QED BY <1>3, <1>4

(* A step that rewrites no message of q leaves it where it is.             *)
LEMMA Bystander ==
    ASSUME NEW q, UNCHANGED <<wire, sent, freed, txb>>,
           NEW X, \A j \in MessageIds \ X : msg'[j] = msg[j],
           Gone(q) \/ \A j \in X : j \notin Carriers(q) /\ j \notin Carriers(q)'
    PROVE  Position(q)' = Position(q)
<1>1. CASE Gone(q)
  BY <1>1, SamePosition
<1>2. CASE \A j \in X : j \notin Carriers(q) /\ j \notin Carriers(q)'
  <2>1. /\ Carriers(q)' = Carriers(q)
        /\ \A i \in Carriers(q) : msg'[i].action_id = msg[i].action_id
    BY <1>2, CarriersKept
  <2> QED BY <2>1, SamePosition
<1> QED BY <1>1, <1>2

(* A step that touches no message and no packet moves none.                *)
LEMMA SameCarriers ==
    ASSUME NEW q, UNCHANGED <<wire, sent, freed, txb, msg>>
    PROVE  Position(q)' = Position(q)
BY SamePosition DEF Carriers

(* The parts of that invariant.                                            *)
LEMMA RefParts ==
    ASSUME Ref
    PROVE  /\ IInv /\ BurstOK /\ CarrierOK /\ Steered /\ AtHome /\ SeenOK /\ Placed
           /\ \A p \in Packets : OnePlace(p)
BY DEF Ref, PacketInv

(* The packet a worker handles is where its message says.                  *)
LEMMA HeldPacket ==
    ASSUME Ref, NEW w \in Running, pc[w] \in {"handle", "run", "enqueue"},
           NEW i, i = p_cm[w]
    PROVE  /\ i \in MessageIds /\ msg[i] \in Message /\ msg[i] # NoMessage
           /\ msg[i].m \in Packets /\ msg[i].action_id \in Actions
           /\ ~Gone(msg[i].m) /\ msg[i].m \notin wire
           /\ Position(msg[i].m) = msg[i].action_id
           /\ \A q \in Packets : q # msg[i].m => i \notin Carriers(q)
<1> USE CoresAssumption
<1>1. IInv /\ Placed
  BY DEF Ref, PacketInv
<1>2. i \in MessageIds /\ msg[i] \in Message
  BY <1>1, MessageTypes DEF IInv, HandOK, Hand, InHandPCs
<1>3. msg[i] # NoMessage /\ msg[i].m \in Packets /\ msg[i].action_id \in Actions
  BY <1>2, IdFacts DEF Message
<1>4. At(msg[i].m, "held", w, 0)
  BY DEF At
<1>5. ~Gone(msg[i].m) /\ msg[i].m \notin wire
  BY <1>1, <1>3, <1>4 DEF Placed
<1>6. Position(msg[i].m) = msg[i].action_id
  BY <1>1, <1>2, <1>3, <1>5 DEF Placed
<1> QED BY <1>2, <1>3, <1>5, <1>6 DEF Carriers

(* A filled message that is neither queued nor handled carries nothing.    *)
LEMMA Stale ==
    ASSUME Ref, NEW i \in MessageIds, ~Queued(i), ~Active(i), NEW q, i \in Carriers(q)
    PROVE  Gone(q)
BY DEF Ref, CarrierOK, Carriers

(* Steps that do not reach a packet.                                       *)
LEMMA QuietStep ==
    ASSUME Ref, NEW w \in Running,
           \/ LoopTest(w) \/ SelectAction(w) \/ PassItem(w) \/ DequeueMailbox(w)
           \/ RxBurst(w) \/ Enqueue(w),
           NEW q \in Packets
    PROVE  Position(q)' = Position(q)
<1>1. UNCHANGED <<wire, sent, freed, txb, msg>>
  BY DEF LoopTest, SelectAction, PassItem, DequeueMailbox, RxBurst, Enqueue, nicVars,
         messageVars
<1> QED BY <1>1, SameCarriers

(* Returning an item moves no packet: the one it carried is gone.          *)
LEMMA QuietReturn ==
    ASSUME Ref, NEW w \in Running, ReturnItem(w), NEW q \in Packets
    PROVE  Position(q)' = Position(q)
<1> USE CoresAssumption
<1>1. UNCHANGED <<wire, sent, freed, txb>>
  BY DEF ReturnItem, nicVars
<1>2. CASE UNCHANGED msg
  BY <1>1, <1>2, SameCarriers
<1>3. CASE msg' = [msg EXCEPT ![p_cm[w]] = NoMessage]
  <2>1. PICK i : i = p_cm[w]
    OBVIOUS
  <2>2. i \in Items /\ i \in MessageIds
    BY <2>1, RefParts, MessageTypes, IdFacts DEF ReturnItem, IInv, HandOK, Hand, InHandPCs
  <2>3. ~Queued(i) /\ ~Active(i)
    <3>1. ~Queued(i)
      BY <2>1, RefParts, Parts DEF QueuedNotHeld, Queued
    <3>2. ~Active(i)
      <4>1. SUFFICES ASSUME NEW v \in Cores, p_cm[v] = i, pc[v] \in {"handle", "run", "enqueue"}
                     PROVE  FALSE
        BY DEF Active
      <4>2. i # NoMessage
        BY <2>2, IdFacts
      <4>3. v = w
        BY <2>1, <4>1, <4>2, RefParts, Parts DEF HeldOnce
      <4> QED BY <4>1, <4>3 DEF ReturnItem
    <3> QED BY <3>1, <3>2
  <2>4. msg'[i] = NoMessage /\ \A j \in MessageIds \ {i} : msg'[j] = msg[j]
    BY <1>3, <2>1, <2>2, RefParts, MessageTypes
  <2>5. i \notin Carriers(q)'
    BY <2>4 DEF Carriers
  <2>6. i \in Carriers(q) => Gone(q)
    BY <2>2, <2>3, Stale
  <2> QED BY <1>1, <2>4, <2>5, <2>6, Bystander
<1> QED BY <1>2, <1>3 DEF ReturnItem

(* A packet from the burst waits for its entry action before and after.    *)
LEMMA QuietNext ==
    ASSUME Ref, Placed', NEW w \in Running, NextPacket(w), NEW q \in Packets
    PROVE  Position(q)' = Position(q)
<1> USE CoresAssumption
<1>1. UNCHANGED <<wire, sent, freed, txb>>
  BY DEF NextPacket, nicVars
<1>2. CASE pkts_burst[w] = <<>>
  <2>1. UNCHANGED msg
    BY <1>2 DEF NextPacket
  <2> QED BY <1>1, <2>1, SameCarriers
<1>3. CASE pkts_burst[w] # <<>>
  <2>0. PICK i \in MessageIds : i = Local(w)
    BY IdFacts
  <2>1. PICK p : p = Head(pkts_burst[w])
    OBVIOUS
  <2>2. PICK b \in Seq(Packets) : b = pkts_burst[w] /\ b # <<>>
    BY <1>3, RefParts DEF IInv, TypeOK
  <2>3. p \in Packets /\ 1 \in DOMAIN b /\ b[1] = p
    BY <2>1, <2>2, HeadTailProperties
  <2>4. msg'[i] = StackMessage(w, p) /\ \A j \in MessageIds \ {i} : msg'[j] = msg[j]
    BY <1>3, <2>0, <2>1, RefParts, MessageTypes DEF NextPacket
  <2>5. reta[RssHash[p]] = w
    <3>1. pkts_burst[w] \in Seq(Mine(w))
      BY RefParts DEF Steered
    <3>2. p \in Mine(w)
      BY <1>3, <2>1, <3>1, HeadTailProperties
    <3> QED BY <3>2 DEF Mine
  <2>6. msg'[i].m = p /\ msg'[i].action_id = EntryAction[p] /\ msg'[i] # NoMessage
    <3>1. msg'[i].m = p /\ msg'[i].action_id = EntryAction[p]
      BY <2>3, <2>4, <2>5 DEF StackMessage, EntryAction
    <3>2. StackMessage(w, p) \in Message
      BY <2>3, TrafficAssumption DEF StackMessage, Message
    <3> QED BY <2>4, <3>1, <3>2, IdFacts
  <2>7. At(p, "burst", w, 1)
    BY <2>2, <2>3 DEF At
  <2>8. Position(p) = EntryAction[p] /\ ~Gone(p)
    BY <2>3, <2>7, RefParts DEF Placed
  <2>9. ~Gone(p)'
    BY <1>1, <2>8 DEF Gone
  <2>10. Position(p)' = EntryAction[p]
    <3>1. Position(p)' = msg'[i].action_id
      BY <2>3, <2>6, <2>9 DEF Placed, MessageIds
    <3> QED BY <2>6, <3>1
  <2>11. ~Queued(i) /\ ~Active(i)
    <3>1. i \notin Items
      BY <2>0, IdFacts
    <3>2. ~Queued(i)
      BY <3>1, RefParts, QueuedItems DEF Queued
    <3>3. ~Active(i)
      <4>1. SUFFICES ASSUME NEW v \in Cores, p_cm[v] = i, pc[v] \in {"handle", "run", "enqueue"}
                     PROVE  FALSE
        BY DEF Active
      <4>2. p_cm[v] = Local(v)
        BY <3>1, <4>1, RefParts, IdFacts DEF IInv, HandOK, Hand
      <4>3. v = w
        BY <2>0, <4>1, <4>2, IdFacts
      <4> QED BY <4>1, <4>3 DEF NextPacket
    <3> QED BY <3>2, <3>3
  <2>12. q # p => Position(q)' = Position(q)
    <3>1. q # p => i \notin Carriers(q)'
      BY <2>6 DEF Carriers
    <3>2. i \in Carriers(q) => Gone(q)
      BY <2>11, Stale
    <3> QED BY <1>1, <2>4, <3>1, <3>2, Bystander
  <2> QED BY <2>8, <2>10, <2>12
<1> QED BY <1>2, <1>3

(* The copy names what the message on the stack named.                     *)
LEMMA QuietCopy ==
    ASSUME Ref, Placed', NEW w \in Running, CopyToItem(w), NEW q \in Packets
    PROVE  Position(q)' = Position(q)
<1> USE CoresAssumption
<1>1. UNCHANGED <<wire, sent, freed, txb>>
  BY DEF CopyToItem, nicVars
<1>2. PICK i : i = p_cm[w]
  OBVIOUS
<1>3. /\ i \in MessageIds /\ msg[i] \in Message /\ msg[i] # NoMessage
      /\ msg[i].m \in Packets /\ msg[i].action_id \in Actions
      /\ ~Gone(msg[i].m) /\ msg[i].m \notin wire
      /\ Position(msg[i].m) = msg[i].action_id
      /\ \A r \in Packets : r # msg[i].m => i \notin Carriers(r)
  BY <1>2, HeldPacket DEF CopyToItem
<1>4. PICK j \in message_buffer[w] :
         msg' = [msg EXCEPT ![j] = [msg[i] EXCEPT !.producer_id = w], ![i] = NoMessage]
  BY <1>2 DEF CopyToItem, FreeItems
<1>5. j \in Items /\ j \in MessageIds /\ j # i
  <2>1. j \in Items
    BY RefParts, MessageTypes
  <2>2. i = Local(w)
    BY <1>2, RefParts, LocalInHand DEF CopyToItem, InHandPCs
  <2> QED BY <2>1, <2>2, IdFacts
<1>6. PICK x : x = [msg[i] EXCEPT !.producer_id = w]
  OBVIOUS
<1>7. x.m = msg[i].m /\ x.action_id = msg[i].action_id /\ x \in Message /\ x # NoMessage
  BY <1>3, <1>6, IdFacts DEF Message
<1>8. /\ msg'[j] = x /\ msg'[i] = NoMessage
      /\ \A k \in MessageIds \ {i, j} : msg'[k] = msg[k]
  BY <1>3, <1>4, <1>5, <1>6, RefParts, MessageTypes
<1>9. ~Queued(j) /\ ~Active(j)
  BY RefParts, Parts DEF FreeInItsBuffer, Held, Active
<1>10. CASE q = msg[i].m
  <2>1. ~Gone(q)'
    BY <1>1, <1>3, <1>10 DEF Gone
  <2>2. Position(q)' = msg'[j].action_id
    BY <1>5, <1>7, <1>8, <1>10, <2>1 DEF Placed, MessageIds
  <2> QED BY <1>3, <1>7, <1>8, <1>10, <2>2
<1>11. CASE q # msg[i].m
  <2>1. i \notin Carriers(q) /\ i \notin Carriers(q)' /\ j \notin Carriers(q)'
    BY <1>3, <1>7, <1>8, <1>11 DEF Carriers
  <2>2. j \in Carriers(q) => Gone(q)
    BY <1>5, <1>9, Stale
  <2> QED BY <1>1, <1>8, <2>1, <2>2, Bystander
<1> QED BY <1>10, <1>11

-----------------------------------------------------------------------------
(* Steps that move a packet along the pipeline                             *)

(* A packet that arrives waits for its entry action.                       *)
LEMMA EnterStep ==
    ASSUME Ref, Placed', NEW p \in Packets, Arrive(p), NEW q \in Packets
    PROVE  /\ Position(p) = "wire"
           /\ Position(q)' = IF q = p THEN EntryAction[p] ELSE Position(q)
<1> USE CoresAssumption
<1>1. UNCHANGED <<sent, freed, txb, msg>> /\ wire' = wire \ {p}
  BY DEF Arrive, messageVars
<1>2. Position(p) = "wire"
  BY RefParts DEF Placed, Arrive
<1>3. Position(p)' = EntryAction[p]
  <2>1. PICK c \in Cores : c = reta[RssHash[p]]
    BY TrafficAssumption
  <2>2. PICK s \in Seq(Packets) : s = rxq[c]
    BY RefParts DEF IInv, TypeOK
  <2>3. rxq'[c] = Append(s, p)
    BY <2>1, <2>2, RefParts DEF Arrive, IInv, TypeOK
  <2>4. Len(s) + 1 \in DOMAIN Append(s, p) /\ Append(s, p)[Len(s) + 1] = p
    BY <2>2
  <2>5. At(p, "rxq", c, Len(s) + 1)'
    BY <2>3, <2>4 DEF At
  <2> QED BY <2>5 DEF Placed
<1>4. q # p => Position(q)' = Position(q)
  BY <1>1, SamePosition DEF Carriers
<1> QED BY <1>2, <1>3, <1>4

(* A packet that finds no item is freed and no other moves.                *)
LEMMA FreeStep ==
    ASSUME Ref, Placed', NEW w \in Running, FreePacket(w)
    PROVE  \E p \in Packets :
              /\ Position(p) \in Actions
              /\ \A q \in Packets : Position(q)' = IF q = p THEN "freed" ELSE Position(q)
<1> USE CoresAssumption
<1>1. PICK i : i = p_cm[w]
  OBVIOUS
<1>2. /\ i \in MessageIds /\ msg[i] \in Message /\ msg[i] # NoMessage
      /\ msg[i].m \in Packets /\ msg[i].action_id \in Actions
      /\ Position(msg[i].m) = msg[i].action_id
      /\ \A r \in Packets : r # msg[i].m => i \notin Carriers(r)
  BY <1>1, HeldPacket DEF FreePacket
<1>3. PICK p \in Packets : p = msg[i].m
  BY <1>2
<1>4. UNCHANGED <<wire, sent, txb>> /\ freed' = freed \cup {p}
  BY <1>1, <1>3 DEF FreePacket
<1>5. msg'[i] = NoMessage /\ \A j \in MessageIds \ {i} : msg'[j] = msg[j]
  BY <1>1, <1>2, RefParts, MessageTypes DEF FreePacket
<1>6. Position(p)' = "freed"
  BY <1>3, <1>4 DEF Placed
<1>7. ASSUME NEW q \in Packets, q # p  PROVE Position(q)' = Position(q)
  <2>1. i \notin Carriers(q) /\ i \notin Carriers(q)'
    BY <1>2, <1>3, <1>5, <1>7 DEF Carriers
  <2>2. /\ Carriers(q)' = Carriers(q)
        /\ \A j \in Carriers(q) : msg'[j].action_id = msg[j].action_id
    BY <1>5, <2>1, CarriersKept
  <2> QED BY <1>4, <1>7, <2>2, SamePosition
<1>8. Position(p) \in Actions
  BY <1>2, <1>3
<1> QED BY <1>6, <1>7, <1>8

(* A function that names the next action moves its packet there.           *)
LEMMA WalkStep ==
    ASSUME Ref, Placed', NEW w \in Running, pc[w] = "run",
           NEW n \in 0..2, NextAction(w, n), UNCHANGED nicVars,
           NEW a, a = Action(w), Kind[a] # "packet_out"
    PROVE  /\ a \in Actions
           /\ \E p \in Packets :
                 /\ Position(p) = a
                 /\ \A q \in Packets :
                       Position(q)' = IF q = p THEN simple_path[StateOf[a]][n] ELSE Position(q)
<1> USE CoresAssumption
<1>1. PICK i : i = p_cm[w]
  OBVIOUS
<1>2. /\ i \in MessageIds /\ msg[i] \in Message /\ msg[i] # NoMessage
      /\ msg[i].m \in Packets /\ msg[i].action_id \in Actions
      /\ ~Gone(msg[i].m)
      /\ Position(msg[i].m) = msg[i].action_id
      /\ \A r \in Packets : r # msg[i].m => i \notin Carriers(r)
  BY <1>1, HeldPacket
<1>3. PICK p \in Packets : p = msg[i].m
  BY <1>2
<1>4. UNCHANGED <<wire, sent, freed, txb>>
  BY DEF nicVars
<1>5. PICK v : v = simple_path[StateOf[a]][n]
  OBVIOUS
<1>6. a = msg[i].action_id /\ a \in Actions
  BY <1>1, <1>2 DEF Action
<1>7. PICK x : x = [msg[i] EXCEPT !.action_id = v]
  OBVIOUS
<1>8. msg'[i] = x /\ \A j \in MessageIds \ {i} : msg'[j] = msg[j]
  BY <1>1, <1>2, <1>5, <1>7, RefParts, MessageTypes DEF NextAction
<1>9. x.m = p /\ x.action_id = v
  BY <1>2, <1>3, <1>7 DEF Message
<1>10. x # NoMessage
  <2>1. StateOf[a] \in States
    BY <1>6, TableAssumption
  <2>2. v \in Actions
    BY <1>5, <2>1, TableAssumption
  <2>3. x \in Message
    BY <1>2, <1>7, <2>2 DEF Message
  <2> QED BY <2>3, IdFacts
<1>11. Position(p)' = v
  <2>1. ~Gone(p)'
    BY <1>2, <1>3, <1>4 DEF Gone
  <2>2. Position(p)' = msg'[i].action_id
    BY <1>2, <1>8, <1>9, <1>10, <2>1 DEF Placed, MessageIds
  <2> QED BY <1>8, <1>9, <2>2
<1>12. ASSUME NEW q \in Packets, q # p  PROVE Position(q)' = Position(q)
  <2>1. i \notin Carriers(q) /\ i \notin Carriers(q)'
    BY <1>2, <1>3, <1>8, <1>9, <1>12 DEF Carriers
  <2> QED BY <1>4, <1>8, <2>1, Bystander
<1> QED BY <1>2, <1>3, <1>5, <1>6, <1>11, <1>12

-----------------------------------------------------------------------------
(* Steps of the workers are steps of the pipeline                          *)

(* One packet moves in the pipeline.                                       *)
LEMMA Walks ==
    ASSUME NEW p \in Packets, NEW v,
           \A q \in Packets : Position(q)' = IF q = p THEN v ELSE Position(q)
    PROVE  [q \in Packets |-> Position(q)]'
               = [[q \in Packets |-> Position(q)] EXCEPT ![p] = v]
OBVIOUS

(* A packet that waits for an action is inside.                            *)
LEMMA NotOutside ==
    ASSUME NEW p \in Packets, Position(p) \in Actions
    PROVE  P!Inside(p)
BY NamesAssumption DEF P!Inside

(* Arrive is Enter.                                                        *)
LEMMA PipelineEnter ==
    ASSUME Ref, Placed', NEW p \in Packets, Arrive(p)
    PROVE  P!Enter(p)
<1>1. Position(p) = "wire"
  BY EnterStep
<1>2. \A q \in Packets : Position(q)' = IF q = p THEN EntryAction[p] ELSE Position(q)
  BY EnterStep
<1>3. [q \in Packets |-> Position(q)]'
          = [[q \in Packets |-> Position(q)] EXCEPT ![p] = EntryAction[p]]
  BY <1>2, Walks
<1>4. UNCHANGED <<counter, n_message>>
  BY DEF Arrive, stateVars
<1> QED BY <1>1, <1>3, <1>4 DEF P!Enter

(* FreePacket is Free.                                                     *)
LEMMA PipelineFree ==
    ASSUME Ref, Placed', NEW w \in Running, FreePacket(w)
    PROVE  \E p \in Packets : P!Free(p)
<1>1. PICK p \in Packets :
         /\ Position(p) \in Actions
         /\ \A q \in Packets : Position(q)' = IF q = p THEN "freed" ELSE Position(q)
  BY FreeStep
<1>2. [q \in Packets |-> Position(q)]'
          = [[q \in Packets |-> Position(q)] EXCEPT ![p] = "freed"]
  BY <1>1, Walks
<1>3. UNCHANGED <<counter, n_message>>
  BY DEF FreePacket, stateVars
<1>4. P!Inside(p)
  BY <1>1, NotOutside
<1> QED BY <1>2, <1>3, <1>4 DEF P!Free

(* The classifier reads and writes its counter as if in one step.          *)
LEMMA PipelineClassify ==
    ASSUME Ref, Placed', NEW w \in Running, Classify(w)
    PROVE  \E p \in Packets : P!Classify(p)
<1>1. PICK a : a = Action(w)
  OBVIOUS
<1>2. PICK s : s = StateOf[a]
  OBVIOUS
<1>3. PICK f : f = control_frequency[s]
  OBVIOUS
<1>4. pc[w] = "run" /\ Kind[a] = "gd_classifier" /\ UNCHANGED <<nicVars, n_message>>
  BY <1>1 DEF Classify, NextAction
<1>5. seen[w] = counter[s]
  BY <1>1, <1>2, <1>4, RefParts DEF SeenOK, StateWord
<1>6. PICK n : n = ClassifierPath(f, counter[s])
  OBVIOUS
<1>7. n \in 0..2
  BY <1>6 DEF ClassifierPath, DataPath, ControlPath
<1>8. NextAction(w, n) /\ counter' = [counter EXCEPT ![s] = ClassifierCounter(f, counter[s])]
  BY <1>1, <1>2, <1>3, <1>5, <1>6 DEF Classify
<1>9. a \in Actions /\ \E p \in Packets :
         /\ Position(p) = a
         /\ \A q \in Packets :
               Position(q)' = IF q = p THEN simple_path[StateOf[a]][n] ELSE Position(q)
  BY <1>1, <1>4, <1>7, <1>8, WalkStep
<1>10. PICK p \in Packets :
         /\ Position(p) = a
         /\ \A q \in Packets :
               Position(q)' = IF q = p THEN simple_path[StateOf[a]][n] ELSE Position(q)
  BY <1>9
<1>11. [q \in Packets |-> Position(q)]'
           = [[q \in Packets |-> Position(q)] EXCEPT ![p] = simple_path[s][n]]
  BY <1>2, <1>10, Walks
<1>12. P!Inside(p)
  BY <1>9, <1>10, NotOutside
<1>13. [q \in Packets |-> Position(q)][p] = a
  BY <1>10
<1>14. /\ P!ClassifierPath(f, counter[s]) = n
       /\ P!ClassifierCounter(f, counter[s]) = ClassifierCounter(f, counter[s])
  BY <1>6 DEF P!ClassifierPath, P!ClassifierCounter, ClassifierPath, ClassifierCounter,
              P!DataPath, P!ControlPath, DataPath, ControlPath
<1> QED BY <1>2, <1>3, <1>4, <1>8, <1>11, <1>12, <1>13, <1>14 DEF P!Classify

(* A control or a data action.                                             *)
LEMMA PipelineServe ==
    ASSUME Ref, Placed', NEW w \in Running, RunControl(w) \/ RunData(w)
    PROVE  \E p \in Packets : P!Serve(p)
<1>1. PICK a : a = Action(w)
  OBVIOUS
<1>2. PICK s : s = StateOf[a]
  OBVIOUS
<1>4. pc[w] = "run" /\ Kind[a] \in {"gd_control", "gd_data"} /\ UNCHANGED <<nicVars, counter>>
  BY <1>1 DEF RunControl, RunData, NextAction
<1>5. seen[w] = n_message[s]
  BY <1>1, <1>2, <1>4, RefParts DEF SeenOK, StateWord
<1>6. PICK n : n = IF Kind[a] = "gd_control" THEN DataPath ELSE OutPath
  OBVIOUS
<1>7. n \in 0..2
  BY <1>6 DEF OutPath, DataPath
<1>8. NextAction(w, n) /\ n_message' = [n_message EXCEPT ![s] = n_message[s] + 1]
  <2>1. CASE RunControl(w)
    BY <1>1, <1>2, <1>5, <1>6, <2>1 DEF RunControl
  <2>2. CASE RunData(w)
    BY <1>1, <1>2, <1>5, <1>6, <2>2 DEF RunData
  <2> QED BY <2>1, <2>2
<1>9. a \in Actions /\ \E p \in Packets :
         /\ Position(p) = a
         /\ \A q \in Packets :
               Position(q)' = IF q = p THEN simple_path[StateOf[a]][n] ELSE Position(q)
  BY <1>1, <1>4, <1>7, <1>8, WalkStep
<1>10. PICK p \in Packets :
         /\ Position(p) = a
         /\ \A q \in Packets :
               Position(q)' = IF q = p THEN simple_path[StateOf[a]][n] ELSE Position(q)
  BY <1>9
<1>11. [q \in Packets |-> Position(q)]'
           = [[q \in Packets |-> Position(q)] EXCEPT ![p] = simple_path[s][n]]
  BY <1>2, <1>10, Walks
<1>12. P!Inside(p)
  BY <1>9, <1>10, NotOutside
<1>13. [q \in Packets |-> Position(q)][p] = a
  BY <1>10
<1>14. n = IF Kind[a] = "gd_control" THEN P!DataPath ELSE P!OutPath
  BY <1>6 DEF P!DataPath, P!OutPath, DataPath, OutPath
<1>15. n_message' = [n_message EXCEPT ![s] = n_message[s] + 1]
  BY <1>8
<1> QED BY <1>2, <1>4, <1>11, <1>12, <1>13, <1>14, <1>15 DEF P!Serve

-----------------------------------------------------------------------------
(* Transmit buffers                                                        *)

(* What is in transmit buffer s.                                           *)
Buffer(s) == {q \in Packets : \E k \in DOMAIN txb[s] : txb[s][k] = q}

(* The pipeline sees the packets of a buffer as buffered.                  *)
LEMMA BufferBuffered ==
    ASSUME Ref, NEW s \in Cores  PROVE Buffer(s) \subseteq P!Buffered
<1> SUFFICES ASSUME NEW q \in Packets, NEW k \in DOMAIN txb[s], txb[s][k] = q
             PROVE  Position(q) = "buffered"
  BY DEF Buffer, P!Buffered
<1>1. At(q, "txb", s, k)
  BY DEF At
<1> QED BY <1>1, RefParts DEF Placed

(* Packets that leave a buffer are sent or freed.                          *)
LEMMA LeavePlaced ==
    ASSUME Placed', NEW b \in Seq(Packets), NEW k \in 0..Len(b), Leave(b, k),
           NEW S, S = {b[i] : i \in 1..k}
    PROVE  /\ \A q \in S : q \in Packets /\ Position(q)' = "sent"
           /\ \A i \in 1..Len(b) : b[i] \notin S => Position(b[i])' = "freed"
<1>1. ASSUME NEW q \in S  PROVE q \in Packets /\ Position(q)' = "sent"
  <2>1. PICK i \in 1..k : q = b[i]
    OBVIOUS
  <2>2. q \in Packets
    BY <2>1
  <2>3. q \in sent'
    BY <2>1 DEF Leave
  <2> QED BY <2>2, <2>3 DEF Placed
<1>2. ASSUME NEW i \in 1..Len(b), b[i] \notin S  PROVE Position(b[i])' = "freed"
  <2>1. b[i] \in Packets
    OBVIOUS
  <2>2. i \in (k + 1)..Len(b)
    <3>1. i \notin 1..k
      BY <1>2
    <3> QED BY <3>1
  <2>3. b[i] \in freed'
    BY <2>2 DEF Leave
  <2>4. \E q \in Packets : q = b[i] /\ q \in freed'
    BY <2>1, <2>3
  <2> QED BY <2>4 DEF Placed
<1> QED BY <1>1, <1>2

(* Who is in no buffer that left stays.                                    *)
LEMMA LeaveOthers ==
    ASSUME NEW b \in Seq(Packets), NEW k \in 0..Len(b), Leave(b, k), NEW q \in Packets,
           \A i \in 1..Len(b) : b[i] # q
    PROVE  (q \in sent' <=> q \in sent) /\ (q \in freed' <=> q \in freed)
<1>1. q \notin {b[i] : i \in 1..k} /\ q \notin {b[i] : i \in (k + 1)..Len(b)}
  OBVIOUS
<1> QED BY <1>1 DEF Leave

(* A flush is a drain.                                                     *)
LEMMA PipelineDrain ==
    ASSUME Ref, Placed', NEW w \in Running, FlushTxBuffer(w)
    PROVE  P!Drain
<1> USE CoresAssumption
<1>1. PICK b \in Seq(Packets) : b = txb[w]
  BY RefParts DEF IInv, TypeOK
<1>2. PICK k \in 0..Len(b) : Leave(b, k)
  BY <1>1 DEF FlushTxBuffer
<1>3. PICK B : B = Buffer(w)
  OBVIOUS
<1>4. PICK S : S = {b[i] : i \in 1..k}
  OBVIOUS
<1>5. \A q \in Packets : q \in B <=> \E i \in 1..Len(b) : b[i] = q
  BY <1>1, <1>3 DEF Buffer
<1>6. S \subseteq B /\ B \subseteq Packets /\ B \subseteq P!Buffered
  <2>1. S \subseteq B
    BY <1>4, <1>5
  <2> QED BY <2>1, <1>3, BufferBuffered DEF Buffer
<1>7. \A q \in S : Position(q)' = "sent"
  BY <1>2, <1>4, LeavePlaced
<1>8. \A q \in B \ S : Position(q)' = "freed"
  <2>1. \A i \in 1..Len(b) : b[i] \notin S => Position(b[i])' = "freed"
    BY <1>2, <1>4, LeavePlaced
  <2> QED BY <1>5, <1>6, <2>1
<1>9. ASSUME NEW q \in Packets, q \notin B  PROVE Position(q)' = Position(q)
  <2>1. (q \in sent' <=> q \in sent) /\ (q \in freed' <=> q \in freed)
    BY <1>2, <1>5, <1>9, LeaveOthers
  <2>2. UNCHANGED <<wire, msg>> /\ txb' = [txb EXCEPT ![w] = <<>>]
    BY DEF FlushTxBuffer, messageVars
  <2>3. \A c \in Cores : c # w => txb'[c] = txb[c]
    BY <2>2, RefParts DEF IInv, TypeOK
  <2>4. ~ \E j \in DOMAIN txb[w] : txb[w][j] = q
    BY <1>3, <1>9 DEF Buffer
  <2>5. txb'[w] = <<>>
    BY <2>2, RefParts DEF IInv, TypeOK
  <2>6. (\E c \in Cores : \E j \in DOMAIN txb'[c] : txb'[c][j] = q)
            <=> (\E c \in Cores : \E j \in DOMAIN txb[c] : txb[c][j] = q)
    BY <2>3, <2>4, <2>5
  <2> QED BY <2>1, <2>2, <2>6, SamePosition DEF Carriers
<1>10. P!Leave(S, B \ S)
  BY <1>6, <1>7, <1>8, <1>9 DEF P!Leave
<1>11. UNCHANGED <<counter, n_message>>
  BY DEF FlushTxBuffer, stateVars
<1> QED BY <1>6, <1>10, <1>11 DEF P!Drain

(* transmit_packet is Out.                                                 *)
LEMMA PipelineOut ==
    ASSUME Ref, Placed', NEW w \in Running, Transmit(w)
    PROVE  \E p \in Packets : P!Out(p)
<1> USE CoresAssumption
<1>1. PICK i : i = p_cm[w]
  OBVIOUS
<1>2. /\ i \in MessageIds /\ msg[i] \in Message /\ msg[i] # NoMessage
      /\ msg[i].m \in Packets /\ msg[i].action_id \in Actions
      /\ Position(msg[i].m) = msg[i].action_id
      /\ \A r \in Packets : r # msg[i].m => i \notin Carriers(r)
  BY <1>1, HeldPacket DEF Transmit
<1>3. PICK p \in Packets : p = msg[i].m
  BY <1>2
<1>4. PICK a \in Actions : a = Action(w)
  BY <1>1, <1>2 DEF Action
<1>5. a = msg[i].action_id /\ Position(p) = a /\ Kind[a] = "packet_out"
  BY <1>1, <1>2, <1>3, <1>4 DEF Action, Transmit
<1>6. PICK s \in Cores : s = StateOf[a]
  BY <1>5, TableAssumption
<1>7. PICK b0 \in Seq(Packets) : b0 = txb[s]
  BY RefParts DEF IInv, TypeOK
<1>8. PICK b \in Seq(Packets) : b = Append(b0, p)
  <2>1. Append(b0, p) \in Seq(Packets)
    BY <1>3, <1>7
  <2> QED BY <2>1
<1>9. /\ Len(b) = Len(b0) + 1 /\ b[Len(b0) + 1] = p
      /\ \A j \in 1..Len(b0) : b[j] = b0[j]
  BY <1>8
<1>10. /\ UNCHANGED <<wire, counter, n_message>>
       /\ \/ txb' = [txb EXCEPT ![s] = b] /\ UNCHANGED <<sent, freed>>
          \/ (\E k \in 0..Len(b) : Leave(b, k)) /\ txb' = [txb EXCEPT ![s] = <<>>]
  BY <1>1, <1>3, <1>4, <1>6, <1>7, <1>8 DEF Transmit, stateVars
<1>11. txb \in [Cores -> Seq(Packets)]
  BY RefParts DEF IInv, TypeOK
<1>12. ASSUME NEW q \in Packets, q # p
       PROVE  /\ Carriers(q)' = Carriers(q)
              /\ \A j \in Carriers(q) : msg'[j].action_id = msg[j].action_id
  <2>1. CASE UNCHANGED msg
    BY <2>1 DEF Carriers
  <2>2. CASE msg' = [msg EXCEPT ![i] = NoMessage]
    <3>1. msg'[i] = NoMessage /\ \A j \in MessageIds \ {i} : msg'[j] = msg[j]
      BY <1>2, <2>2, RefParts, MessageTypes
    <3>2. i \notin Carriers(q) /\ i \notin Carriers(q)'
      BY <1>2, <1>3, <1>12, <3>1 DEF Carriers
    <3> QED BY <3>1, <3>2, CarriersKept
  <2> QED BY <1>1, <2>1, <2>2 DEF Transmit
<1>13. PICK B : B = Buffer(s)
  OBVIOUS
<1>14. \A q \in Packets : q \in B <=> \E j \in 1..Len(b0) : b0[j] = q
  BY <1>7, <1>13 DEF Buffer
<1>15. B \subseteq Packets /\ B \subseteq P!Buffered
  BY <1>13, BufferBuffered DEF Buffer
<1>16. P!Inside(p)
  BY <1>5, NotOutside
<1>17. [q \in Packets |-> Position(q)][p] = a
  BY <1>5
<1>18. CASE txb' = [txb EXCEPT ![s] = b] /\ UNCHANGED <<sent, freed>>
  <2>1. txb'[s] = b /\ \A c \in Cores : c # s => txb'[c] = txb[c]
    BY <1>11, <1>18
  <2>2. Position(p)' = "buffered"
    <3>1. Len(b) \in DOMAIN b /\ b[Len(b)] = p
      BY <1>9
    <3>2. At(p, "txb", s, Len(b))'
      BY <2>1, <3>1 DEF At
    <3> QED BY <3>2 DEF Placed
  <2>3. ASSUME NEW q \in Packets, q # p  PROVE Position(q)' = Position(q)
    <3>1. (\E j \in DOMAIN b : b[j] = q) <=> (\E j \in DOMAIN b0 : b0[j] = q)
      BY <1>9, <2>3
    <3>2. (\E c \in Cores : \E j \in DOMAIN txb'[c] : txb'[c][j] = q)
              <=> (\E c \in Cores : \E j \in DOMAIN txb[c] : txb[c][j] = q)
      BY <1>7, <2>1, <3>1
    <3>3. UNCHANGED <<wire, sent, freed>>
      BY <1>10, <1>18
    <3> QED BY <1>12, <2>3, <3>2, <3>3, SamePosition
  <2>4. \A q \in Packets : Position(q)' = IF q = p THEN "buffered" ELSE Position(q)
    BY <2>2, <2>3
  <2>5. [q \in Packets |-> Position(q)]'
            = [[q \in Packets |-> Position(q)] EXCEPT ![p] = "buffered"]
    BY <2>4, Walks
  <2> QED BY <1>5, <1>10, <1>16, <1>17, <2>5 DEF P!Out
<1>19. CASE (\E k \in 0..Len(b) : Leave(b, k)) /\ txb' = [txb EXCEPT ![s] = <<>>]
  <2>1. PICK k \in 0..Len(b) : Leave(b, k)
    BY <1>19
  <2>2. PICK S : S = {b[j] : j \in 1..k}
    OBVIOUS
  <2>3. \A q \in Packets : q \in B \cup {p} <=> \E j \in 1..Len(b) : b[j] = q
    BY <1>9, <1>14
  <2>4. S \subseteq B \cup {p}
    BY <2>2, <2>3
  <2>5. \A q \in S : Position(q)' = "sent"
    BY <2>1, <2>2, LeavePlaced
  <2>6. \A q \in (B \cup {p}) \ S : Position(q)' = "freed"
    <3>1. \A j \in 1..Len(b) : b[j] \notin S => Position(b[j])' = "freed"
      BY <2>1, <2>2, LeavePlaced
    <3> QED BY <1>15, <2>3, <3>1
  <2>7. ASSUME NEW q \in Packets, q \notin B \cup {p}  PROVE Position(q)' = Position(q)
    <3>1. (q \in sent' <=> q \in sent) /\ (q \in freed' <=> q \in freed)
      BY <2>1, <2>3, <2>7, LeaveOthers
    <3>2. txb'[s] = <<>> /\ \A c \in Cores : c # s => txb'[c] = txb[c]
      BY <1>11, <1>19
    <3>3. ~ \E j \in DOMAIN txb[s] : txb[s][j] = q
      BY <1>13, <2>7 DEF Buffer
    <3>6. ~ \E j \in DOMAIN txb'[s] : txb'[s][j] = q
      BY <3>2
    <3>4. (\E c \in Cores : \E j \in DOMAIN txb'[c] : txb'[c][j] = q)
              <=> (\E c \in Cores : \E j \in DOMAIN txb[c] : txb[c][j] = q)
      <4>1. \A c \in Cores : (\E j \in DOMAIN txb'[c] : txb'[c][j] = q)
                <=> (\E j \in DOMAIN txb[c] : txb[c][j] = q)
        <5> SUFFICES ASSUME NEW c \in Cores
                     PROVE  (\E j \in DOMAIN txb'[c] : txb'[c][j] = q)
                                <=> (\E j \in DOMAIN txb[c] : txb[c][j] = q)
          OBVIOUS
        <5>1. CASE c = s
          BY <3>3, <3>6, <5>1
        <5>2. CASE c # s
          BY <3>2, <5>2
        <5> QED BY <5>1, <5>2
      <4> QED BY <4>1
    <3>5. q # p
      BY <2>7
    <3> QED BY <1>10, <1>12, <3>1, <3>4, <3>5, SamePosition
  <2>8. P!Leave(S, (B \cup {p}) \ S)
    BY <2>4, <2>5, <2>6, <2>7 DEF P!Leave
  <2> QED BY <1>5, <1>10, <1>15, <1>16, <1>17, <2>4, <2>8 DEF P!Out
<1> QED BY <1>10, <1>18, <1>19

-----------------------------------------------------------------------------
(* The refinement                                                          *)

(* A step that moves no packet and writes no state is a stutter.           *)
LEMMA Stutters ==
    ASSUME \A q \in Packets : Position(q)' = Position(q), UNCHANGED stateVars
    PROVE  UNCHANGED P!vars
BY DEF P!vars, stateVars

(* Every step of a worker is a step of the pipeline or a stutter.          *)
LEMMA PipelineStep ==
    ASSUME Ref, Placed', NEW w \in Running, Step(w)
    PROVE  [P!Next]_P!vars
<1>1. CASE LoopTest(w) \/ SelectAction(w) \/ PassItem(w) \/ DequeueMailbox(w)
           \/ RxBurst(w) \/ Enqueue(w)
  <2>1. UNCHANGED stateVars
    BY <1>1 DEF LoopTest, SelectAction, PassItem, DequeueMailbox, RxBurst, Enqueue
  <2> QED BY <1>1, <2>1, QuietStep, Stutters
<1>2. CASE ReturnItem(w)
  <2>1. UNCHANGED stateVars
    BY <1>2 DEF ReturnItem
  <2> QED BY <1>2, <2>1, QuietReturn, Stutters
<1>3. CASE NextPacket(w)
  <2>1. UNCHANGED stateVars
    BY <1>3 DEF NextPacket
  <2> QED BY <1>3, <2>1, QuietNext, Stutters
<1>4. CASE CopyToItem(w)
  <2>1. UNCHANGED stateVars
    BY <1>4 DEF CopyToItem
  <2> QED BY <1>4, <2>1, QuietCopy, Stutters
<1>5. CASE FreePacket(w)
  BY <1>5, PipelineFree DEF P!Next
<1>6. CASE FlushTxBuffer(w)
  BY <1>6, PipelineDrain DEF P!Next
<1>7. CASE Classify(w)
  BY <1>7, PipelineClassify DEF P!Next
<1>8. CASE RunControl(w) \/ RunData(w)
  BY <1>8, PipelineServe DEF P!Next
<1>9. CASE Transmit(w)
  BY <1>9, PipelineOut DEF P!Next
<1> QED BY <1>1, <1>2, <1>3, <1>4, <1>5, <1>6, <1>7, <1>8, <1>9 DEF Step, Run

(* And so is every step.                                                   *)
LEMMA PipelineNext ==
    ASSUME Ref, Placed', [Next]_vars
    PROVE  [P!Next]_P!vars
<1>1. CASE \E w \in Running : Step(w)
  BY <1>1, PipelineStep
<1>2. CASE \E p \in Packets : Arrive(p)
  BY <1>2, PipelineEnter DEF P!Next
<1>3. CASE UNCHANGED <<wire, sent, freed, txb, msg, stateVars>>
  BY <1>3, SameCarriers, Stutters
<1>4. ASSUME NEW m \in Migrations, Migrate(m[1], m[2])
      PROVE  UNCHANGED <<wire, sent, freed, txb, msg, stateVars>>
  BY <1>4 DEF Migrate, nicVars, messageVars
<1>5. DrainTick \/ Quit \/ Exit \/ UNCHANGED vars
          => UNCHANGED <<wire, sent, freed, txb, msg, stateVars>>
  BY DEF DrainTick, Quit, Exit, vars, nicVars, messageVars
<1> QED BY <1>1, <1>2, <1>3, <1>4, <1>5 DEF Next

(* All packets start on the wire.                                          *)
LEMMA PipelineInit == Init => P!Init
<1> SUFFICES ASSUME Init, NEW p \in Packets  PROVE Position(p) = "wire"
  BY DEF P!Init, Init
<1>1. p \in wire /\ p \notin sent /\ p \notin freed
  BY DEF Init
<1>2. ~ \E c \in Cores : \E k \in DOMAIN txb[c] : txb[c][k] = p
  BY DEF Init
<1> QED BY <1>1, <1>2 DEF Position

(* Where the placement keeps the actions of a state on one core and nobody *)
(* migrates, the loop of worker.h does to packets and states nothing but   *)
(* what one indivisible action at a time would do, whatever the cores,     *)
(* mailboxes, copies and bursts in between.                                *)
THEOREM WorkersImplementPipeline ==
    ASSUME Colocated  PROVE Spec => ImplementsPipeline
<1>1. Spec => []PacketInv
  BY PacketInvariance
<1>2. Init => Steered /\ AtHome /\ CarrierOK /\ SeenOK
  BY SteeredInit, AtHomeInit, CarrierInit, SeenInit
<1>3. PacketInv => IInv /\ BurstOK
  BY DEF PacketInv
<1>4. IInv /\ Steered /\ [Next]_vars => Steered'
  BY SteeredNext
<1>5. IInv /\ AtHome /\ [Next]_vars => AtHome'
  BY AtHomeNext DEF Colocated
<1>6. IInv /\ BurstOK /\ CarrierOK /\ [Next]_vars => CarrierOK'
  BY CarrierNext
<1>7. IInv /\ BurstOK /\ AtHome /\ SeenOK /\ [Next]_vars => SeenOK'
  BY SeenNext
<1>8. PacketInv /\ CarrierOK => Placed
  BY PlacedAlways
<1>9. PacketInv /\ CarrierOK /\ Steered /\ AtHome /\ SeenOK /\ Placed /\ Placed' /\ [Next]_vars
          => [P!Next]_P!vars
  BY PipelineNext DEF Ref
<1>10. Init => P!Init
  BY PipelineInit
<1>11. Spec => P!Spec
  BY <1>1, <1>2, <1>3, <1>4, <1>5, <1>6, <1>7, <1>8, <1>9, <1>10, PTL DEF Spec, P!Spec
<1> QED BY <1>11 DEF ImplementsPipeline
=============================================================================
