--------------------------- MODULE WorkerRefinement ---------------------------
(***************************************************************************)
(* The worker loop implements the pipeline: cores, mailboxes, copies and   *)
(* the order in which workers step are invisible in what happens to a      *)
(* packet and to the states.                                               *)
(***************************************************************************)
EXTENDS Worker

EntryAction == [p \in Packets |-> buckets[reta[RssHash[p]]][RssHash[p]]]

(* The messages that carry packet p.                                       *)
Carriers(p) == {i \in MessageIds : msg[i] # NoMessage /\ msg[i].m = p}

(* Where the pipeline sees packet p: a packet taken from the wire waits    *)
(* for its entry action, one in a message for the action the message       *)
(* names, until the transmit buffer has it.                                *)
Position(p) ==
    CASE p \in wire -> "wire"
      [] p \in sent -> "sent"
      [] p \in freed -> "freed"
      [] \E c \in Cores : \E k \in DOMAIN txb[c] : txb[c][k] = p -> "buffered"
      [] OTHER -> IF Carriers(p) = {} THEN EntryAction[p]
                  ELSE msg[CHOOSE i \in Carriers(p) : TRUE].action_id

P == INSTANCE Pipeline WITH at <- [p \in Packets |-> Position(p)]

(* An action is not mistaken for a place outside the graph.                *)
ASSUME NamesAssumption == Actions \cap P!Outside = {}

(* Every behaviour of the workers is a behaviour of the pipeline.          *)
ImplementsPipeline == P!Spec
=============================================================================
