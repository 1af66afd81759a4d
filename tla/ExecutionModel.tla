----------------------------- MODULE ExecutionModel -----------------------------
(***************************************************************************)
(* setup_execution_model (src/runtime/em.c): the first ctl_num cores of a  *)
(* list become control cores, the next data_num data cores, and the data   *)
(* cores are split among the control cores as edges of a graph             *)
(* (src/runtime/common/graph.c).                                           *)
(***************************************************************************)
EXTENDS CoreSets, Functions

CONSTANT CoreLists,     \* the lists of cores it may be called with
         Numbers        \* the values of ctl_num and data_num

(* A list names a core once, and the sets have a cell for each core.       *)
ASSUME ListsAssumption ==
    /\ \A s \in CoreLists : s \in Seq(0 .. MaxSize - 1) /\ IsInjective(s)
    /\ Numbers \subseteq Nat

VARIABLES core_list, ctl_num, data_num,
          result        \* "none", then "done", "divide" or "stray"

emVars == <<core_list, ctl_num, data_num, result>>

control_set == CoreSet({core_list[i] : i \in 1 .. Min({ctl_num, Len(core_list)})})

(* Mutant: the data cores start one core late.                             *)
data_set_OneLate ==
    CoreSet({core_list[i] : i \in {k \in DOMAIN core_list :
                                     k > ctl_num + 1 /\ k <= ctl_num + data_num}})

data_set ==
    CoreSet({core_list[i] : i \in {k \in DOMAIN core_list :
                                     k > ctl_num /\ k <= ctl_num + data_num}})

Subsets == set_split(data_set, control_set.num)

(* addEdge puts the new node in front unless the edge is there already.    *)
addEdge(adj, d) == IF \E k \in DOMAIN adj : adj[k] = d THEN adj ELSE <<d>> \o adj

add_control_data(adj, subset) ==
    LET nodes == InOrder(subset)
        walk[k \in 0 .. Len(nodes)] == IF k = 0 THEN adj ELSE addEdge(walk[k-1], nodes[k])
    IN  walk[Len(nodes)]

(* createAGraph allocates one list for each vertex, numbered from 0, and   *)
(* the graph is then indexed with core ids.                                *)
Vertices == 0 .. Len(core_list) - 1

SFG == [c \in control_set.member |->
          LET i == CHOOSE k \in 1 .. control_set.num : InOrder(control_set)[k] = c
          IN  add_control_data(<<>>, Subsets[i])]

EMInit ==
    /\ core_list \in CoreLists
    /\ ctl_num \in Numbers
    /\ data_num \in Numbers
    /\ result = "none"

setup_execution_model ==
    /\ result = "none"
    /\ result' = IF control_set.num = 0 THEN "divide"
                 ELSE IF /\ control_set.member \subseteq Vertices
                         /\ \A i \in DOMAIN Subsets : LoopEnds(Subsets[i])
                      THEN "done"
                 ELSE "stray"
    /\ UNCHANGED <<core_list, ctl_num, data_num>>

EMSpec == EMInit /\ [][setup_execution_model]_emVars
-------------------------------------------------------------------------------
(* The set-up ends exactly when there is a control core, every control     *)
(* core can be given a data core and every control core's id is a vertex:  *)
(* otherwise set_split divides by 0, or an iterator or an adjacency list   *)
(* is read out of bounds.                                                  *)
SetupEndsWhenItCan ==
    result # "none" =>
        (result = "done" <=>
            /\ ctl_num > 0
            /\ Len(core_list) >= 2 * ctl_num
            /\ data_num >= ctl_num
            /\ \A i \in 1 .. ctl_num : core_list[i] < Len(core_list))

(* Every data core hangs on exactly one control core, no control core on   *)
(* another, and the control cores' shares differ by one core at most.      *)
DataCoresShared ==
    result = "done" =>
        /\ \A d \in data_set.member :
              Cardinality({c \in control_set.member : d \in ToSet(SFG[c])}) = 1
        /\ \A c \in control_set.member :
              /\ ToSet(SFG[c]) \subseteq data_set.member
              /\ \A e \in control_set.member : Len(SFG[c]) <= Len(SFG[e]) + 1
===============================================================================
