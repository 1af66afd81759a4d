------------------------------- MODULE Pipeline -------------------------------
(***************************************************************************)
(* What the data plane promises, with no cores, mailboxes or message items *)
(* in it: each packet walks the graph of actions one action at a time,     *)
(* every action reads and writes its state in one indivisible step, and a  *)
(* packet that entered leaves by the NIC or by being freed.  The worker    *)
(* loop of src/runtime/worker.h implements this (module WorkerRefinement). *)
(***************************************************************************)
EXTENDS GenericDecomposed

CONSTANTS Packets, Actions, Kind, StateOf, States, simple_path,
          control_frequency,
          EntryAction   \* the action each packet starts with

VARIABLES at,           \* the action each packet waits for, or how far it got
          counter, n_message

vars == <<at, counter, n_message>>

(* A packet that waits for no action.                                      *)
Outside == {"wire", "buffered", "sent", "freed"}

Init ==
    /\ at = [p \in Packets |-> "wire"]
    /\ counter = [s \in States |-> 0]
    /\ n_message = [s \in States |-> 0]

Inside(p) == at[p] \notin Outside

Enter(p) ==
    /\ at[p] = "wire"
    /\ at' = [at EXCEPT ![p] = EntryAction[p]]
    /\ UNCHANGED <<counter, n_message>>

Classify(p) ==
    /\ Inside(p)
    /\ Kind[at[p]] = "gd_classifier"
    /\ LET s == StateOf[at[p]]
           f == control_frequency[s]
       IN  /\ counter' = [counter EXCEPT ![s] = ClassifierCounter(f, @)]
           /\ at' = [at EXCEPT ![p] = simple_path[s][ClassifierPath(f, counter[s])]]
    /\ UNCHANGED n_message

(* A control or a data action.                                             *)
Serve(p) ==
    /\ Inside(p)
    /\ Kind[at[p]] \in {"gd_control", "gd_data"}
    /\ LET s == StateOf[at[p]]
           i == IF Kind[at[p]] = "gd_control" THEN DataPath ELSE OutPath
       IN  /\ n_message' = [n_message EXCEPT ![s] = @ + 1]
           /\ at' = [at EXCEPT ![p] = simple_path[s][i]]
    /\ UNCHANGED counter

(* Packets out of a transmit buffer: those of S are sent, those of F freed.*)
Leave(S, F) ==
    at' = [q \in Packets |-> CASE q \in S -> "sent"
                               [] q \in F -> "freed"
                               [] q \notin S \cup F -> at[q]]

Buffered == {q \in Packets : at[q] = "buffered"}

(* packet_out: the packet is buffered, or fills a buffer that leaves whole.*)
Out(p) ==
    /\ Inside(p)
    /\ Kind[at[p]] = "packet_out"
    /\ \/ at' = [at EXCEPT ![p] = "buffered"]
       \/ \E B \in SUBSET Buffered : \E S \in SUBSET (B \cup {p}) :
             Leave(S, (B \cup {p}) \ S)
    /\ UNCHANGED <<counter, n_message>>

Drain ==
    /\ \E B \in SUBSET Buffered : \E S \in SUBSET B : Leave(S, B \ S)
    /\ UNCHANGED <<counter, n_message>>

(* A packet inside is given up.                                            *)
Free(p) ==
    /\ Inside(p)
    /\ at' = [at EXCEPT ![p] = "freed"]
    /\ UNCHANGED <<counter, n_message>>

Next ==
    \/ \E p \in Packets : Enter(p) \/ Classify(p) \/ Serve(p) \/ Out(p) \/ Free(p)
    \/ Drain

Spec == Init /\ [][Next]_vars
=============================================================================
