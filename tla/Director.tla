-------------------------------- MODULE Director --------------------------------
(***************************************************************************)
(* What the director sends to deploy a network function: the instances of  *)
(* its actions and states under a scaling plan and their wiring            *)
(* (execution_model in src/director/em/em.py), the numbers of its paths    *)
(* (nf_model.py, nf_registry.py), and the commands in the order of         *)
(* NFlambda.deployment and run (src/director/nflambda/platform.py).        *)
(***************************************************************************)
EXTENDS Integers, Sequences, SequencesExt

CONSTANTS
    NBuckets,           \* entries of the RSS table: 512
    ActionList,         \* the yaml's actions, in its order
    StateList,          \* and its states
    StateOf(_),         \* the state an action names
    Edges,              \* paths: <<source, destination>> in the yaml's order
    RegistrationId(_),  \* the number the yaml gives an action
    Place(_, _)         \* the placement: action and instance to a core

ASSUME BucketsAssumption == NBuckets \in Nat \ {0}

(* What read_file makes of the yaml's edges: each once, and those into one *)
(* destination, a key of their dictionary, one after the other.            *)
Grouped(list) ==
    \A i, k \in DOMAIN list : i < k =>
        /\ list[i] # list[k]
        /\ list[i][2] = list[k][2] => \A j \in i .. k : list[j][2] = list[i][2]

ASSUME ListsAssumption ==
    /\ ActionList \in Seq(STRING) /\ StateList \in Seq(STRING)
    /\ Edges \in Seq(STRING \X STRING) /\ Grouped(Edges)

(* list.index                                                              *)
Index(list, x) == (CHOOSE i \in DOMAIN list : list[i] = x) - 1

Bare == {"packet_in", "packet_out", "drop"}

(* The plan gives each action a number of instances.                       *)
action_instances(plan) ==
    FlattenSeq([x \in DOMAIN ActionList |->
                  [j \in 1 .. plan[ActionList[x]] |-> [action |-> ActionList[x], id |-> j - 1]]])

(* A state has as many instances as its first action.                      *)
FirstAction(s) == SelectSeq(ActionList, LAMBDA a : a \notin Bare /\ StateOf(a) = s)[1]
state_instances(plan) ==
    FlattenSeq([x \in DOMAIN StateList |->
                  [j \in 1 .. plan[FirstAction(StateList[x])] |->
                      [state |-> StateList[x], id |-> j - 1]]])

action_index(plan, a) == Index(action_instances(plan), a)
state_index(plan, a) == Index(state_instances(plan), [state |-> StateOf(a.action), id |-> a.id])

(* Mutant: every instance of a wider action hangs on the first.            *)
Wired_ToFirst(plan, a, b) ==
    /\ <<a.action, b.action>> \in ToSet(Edges)
    /\ Index(ActionList, a.action) < Index(ActionList, b.action)
    /\ a.id % plan[b.action] = 0

(* b depends on a.  Between unequal numbers only instance 0 of the fewer   *)
(* is wired.                                                               *)
Wired(plan, a, b) ==
    LET n == plan[a.action]
        m == plan[b.action]
    IN /\ <<a.action, b.action>> \in ToSet(Edges)
       /\ Index(ActionList, a.action) < Index(ActionList, b.action)
       /\ n < m => a.id % m = 0
       /\ n > m => b.id % n = 0
       /\ n = m => a.id = b.id

get_path_id(a, b) == Index(Edges, <<a.action, b.action>>)

(* starting_bucket is a float, 512 / n added up: atoi sees its floor, or   *)
(* one less where the sum of rounded numbers falls short of an integer.    *)
Starts(n) ==
    {s \in [0 .. n - 1 -> 0 .. NBuckets - 1] :
        \A i \in 0 .. n - 1 :
            \/ s[i] = (i * NBuckets) \div n
            \/ /\ i > 0 /\ NBuckets % n # 0 /\ (i * NBuckets) % n = 0
               /\ s[i] = (i * NBuckets) \div n - 1}
NumBuckets(n) == NBuckets \div n
BucketsOf(start, num) == start .. start + num - 1

(* The commands of create_action, create_packet_out_action,                *)
(* configure_rss_reta, worker_first_action and install_simple_path.        *)
CreateCommand(plan, a) ==
    [op |-> "action create", registration |-> RegistrationId(a.action),
     action |-> action_index(plan, a), state |-> state_index(plan, a),
     core |-> Place(a.action, a.id)]
OutCommand(plan, a) ==
    [op |-> "create_packet_out", action |-> action_index(plan, a), core |-> Place(a.action, a.id)]
RetaCommand(plan, s, i) ==
    [op |-> "rss_reta_config", start |-> s[i], num |-> NumBuckets(plan["packet_in"]),
     worker |-> Place("packet_in", i), action |-> i]
FirstCommand(plan, s, a, b) ==
    [op |-> "worker first_action", worker |-> Place("packet_in", a.id),
     action |-> action_index(plan, b), start |-> s[a.id], num |-> NumBuckets(plan["packet_in"])]
PathCommand(plan, a, b) ==
    [op |-> "install_simple_path", state |-> state_index(plan, a),
     action |-> action_index(plan, b), path |-> get_path_id(a, b)]

ForEach(list, Commands(_)) == FlattenSeq([i \in DOMAIN list |-> Commands(list[i])])

Creates(plan) ==
    [i \in DOMAIN state_instances(plan) |-> [op |-> "state create", state |-> i - 1]]
    \o ForEach(action_instances(plan), LAMBDA a :
         CASE a.action \notin Bare -> << CreateCommand(plan, a) >>
           [] a.action = "packet_out" -> << OutCommand(plan, a) >>
           [] OTHER -> << >>)

(* Mutant: each instance is sent one bucket less than its share.           *)
Buckets_OneShort(plan, s) ==
    [i \in 1 .. plan["packet_in"] |-> [RetaCommand(plan, s, i - 1) EXCEPT !.num = @ - 1]]

Buckets(plan, s) == [i \in 1 .. plan["packet_in"] |-> RetaCommand(plan, s, i - 1)]

(* For each a of the wanted instances and each b that depends on it.       *)
ForWired(plan, Wanted(_), Command(_, _)) ==
    ForEach(action_instances(plan), LAMBDA a :
      IF Wanted(a)
      THEN ForEach(action_instances(plan), LAMBDA b :
             IF Wired(plan, a, b) THEN << Command(a, b) >> ELSE << >>)
      ELSE << >>)

FirstActions(plan, s) ==
    ForWired(plan, LAMBDA a : a.action = "packet_in", LAMBDA a, b : FirstCommand(plan, s, a, b))
Paths(plan) ==
    ForWired(plan, LAMBDA a : a.action # "packet_in", LAMBDA a, b : PathCommand(plan, a, b))

deployment(plan, s) == Creates(plan) \o Buckets(plan, s) \o FirstActions(plan, s) \o Paths(plan)

run == << [op |-> "port init"], [op |-> "rss"], [op |-> "worker run"] >>

(* What the experiments set for every state in between.                    *)
configure_state(plan, op, val) ==
    [i \in DOMAIN state_instances(plan) |-> [op |-> op, state |-> i - 1, val |-> val]]
===============================================================================
