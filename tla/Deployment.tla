------------------------------- MODULE Deployment -------------------------------
(***************************************************************************)
(* A deployment from the director's script to the packets: the commands    *)
(* of Director are served by CommandLine one by one, an operator's may     *)
(* come in between, and once the workers run a packet at a time goes from  *)
(* its RSS bucket through the action table.  Worker has the cores, queues  *)
(* and items in between; here event_handler is one step, and what the      *)
(* tables make of the packet is the subject.                               *)
(***************************************************************************)
EXTENDS Director, CommandLine, GenericDecomposed, FiniteSets

CONSTANTS
    Plans,              \* scaling plans: action to number of instances
    Ranges,             \* the data_state the experiments set; 0: they set none
    Frequencies,        \* the control_frequency they set
    OperatorCommands,   \* what an operator may type, and
    MaxTyped,           \* bound: how many of them
    Entries,            \* entries of a state's hash table: 200000
    MaxPackets          \* bound: packets that arrive

ASSUME EntriesAssumption == Entries \in Nat

VARIABLES
    c,          \* struct Config
    plan, starts,   \* what is deployed
    script,     \* the director's commands still to send
    alive,      \* "up", "exit" by rte_exit, "fpe" by a division by 0
    typed,      \* history: the operator's commands
    packet,     \* the packet on its way, or Nowhere; early, gap: history
    count,      \* packets that arrived
    parked,     \* packets sent to the mailbox of a core without a worker
    overrun     \* states whose value array was written at a negative index

vars == <<c, plan, starts, script, alive, typed, packet, count, parked, overrun>>
config == <<plan, starts>>

Nowhere == [bucket |-> -1, at |-> -1, early |-> FALSE, gap |-> FALSE]

(* Entry q of simple_path is filled for an edge out of the function f.     *)
Numbered(f, q) == q + 1 \in DOMAIN Edges /\ Edges[q + 1][1] = f

(* What the director sends under plan p.                                   *)
Script(p, s, r, f) ==
    deployment(p, s)
        \o (IF r = 0 THEN << >> ELSE configure_state(p, "data_state", r))
        \o (IF f = 0 THEN << >> ELSE configure_state(p, "control_frequency", f))
        \o run

Init ==
    /\ plan \in Plans
    /\ starts \in Starts(plan["packet_in"])
    /\ \E r \in Ranges, f \in Frequencies : script = Script(plan, starts, r, f)
    /\ c = config_init
    /\ alive = "up" /\ typed = << >>
    /\ packet = Nowhere /\ count = 0 /\ parked = {} /\ overrun = {}

-------------------------------------------------------------------------------
(* "config rss": the driver takes the table on a port that started, may on *)
(* one that did not start, and not before it is configured; the handler    *)
(* ends the process when it does not.                                      *)
config_rss ==
    \/ c.port \in {"started", "failed"} /\ UNCHANGED alive
    \/ c.port \in {"failed", "none"} /\ alive' = "exit"

Serve(m) ==
    \/ m.op \in Simple /\ c' = cli_process(c, m) /\ UNCHANGED alive
    \/ m.op = "port init" /\ c' \in port_init(c) /\ UNCHANGED alive
    \/ m.op = "rss" /\ config_rss /\ UNCHANGED c

Deploy ==
    /\ alive = "up" /\ script # << >>
    /\ Serve(Head(script))
    /\ script' = Tail(script)
    /\ UNCHANGED <<config, typed, packet, count, parked, overrun>>

Type ==
    /\ alive = "up" /\ Len(typed) < MaxTyped
    /\ \E m \in OperatorCommands : Serve(m) /\ typed' = Append(typed, m)
    /\ UNCHANGED <<config, script, packet, count, parked, overrun>>

-------------------------------------------------------------------------------
Polling(b) == {w \in Workers : queue_id(w) = c.reta[b] /\ c.first_action[w]}

(* rte_eth_rx_burst and the first look into buckets.                       *)
Arrive(b) ==
    /\ alive = "up" /\ c.running /\ c.port = "started"
    /\ packet = Nowhere /\ count < MaxPackets
    /\ \E w \in Polling(b) :
          packet' = [bucket |-> b, at |-> c.buckets[w][b],
                     early |-> script # << >>, gap |-> FALSE]
    /\ count' = count + 1
    /\ UNCHANGED <<c, config, script, alive, typed, parked, overrun>>

entry == c.action[packet.at]

(* event_handler hands the message to the mailbox of the entry's core.     *)
Park ==
    /\ alive = "up" /\ packet # Nowhere /\ entry.core \notin Workers
    /\ parked' = parked \union {packet}
    /\ packet' = Nowhere
    /\ UNCHANGED <<c, config, script, alive, typed, count, overrun>>

Runs(f) == alive = "up" /\ packet # Nowhere /\ entry.core \in Workers /\ entry.function = f

generic_decomposed_classifier ==
    /\ Runs("gd_classifier")
    /\ LET s == c.state[entry.state]
           path == ClassifierPath(s.frequency, s.counter)
       IN /\ packet' = [packet EXCEPT !.at = s.simple_path[path],
                                      !.gap = @ \/ ~Numbered(entry.function, path)]
          /\ c' = [c EXCEPT !.state[entry.state].counter = ClassifierCounter(s.frequency, s.counter)]
    /\ UNCHANGED <<config, script, alive, typed, count, parked, overrun>>

(* Mutant: the table is full one entry early.                              *)
Full_OneEarly(s, key) == key \notin s.hash_table /\ Cardinality(s.hash_table) >= Entries - 1

(* Mutant: the table grows.                                                *)
Full_Never(s, key) == FALSE

(* rte_hash_add_key has no place for the key.                              *)
Full(s, key) == key \notin s.hash_table /\ Cardinality(s.hash_table) >= Entries

(* The state's own key advances; a key not found is added, and the place   *)
(* rte_hash_add_key returns is negative when the table is full.            *)
Access(path, Tested) ==
    LET s == c.state[entry.state]
        key == (s.key + 1) % s.rand_range
    IN /\ IF s.rand_range = 0
          THEN alive' = "fpe" /\ UNCHANGED <<c, packet, overrun>>
          ELSE /\ c' = [c EXCEPT !.state[entry.state].key = key,
                                 !.state[entry.state].hash_table =
                                     IF Full(s, key) THEN @ ELSE @ \union {key}]
               /\ overrun' = IF Full(s, key) /\ ~Tested THEN overrun \union {entry.state} ELSE overrun
               /\ packet' = [packet EXCEPT !.at = s.simple_path[path],
                                           !.gap = @ \/ ~Numbered(entry.function, path)]
               /\ UNCHANGED alive
       /\ UNCHANGED <<config, script, typed, count, parked>>

generic_decomposed_control_action == Runs("gd_control") /\ Access(DataPath, TRUE)

(* Mutant: the data action takes the control action's path.                *)
generic_decomposed_data_action_WrongPath == Runs("gd_data") /\ Access(DataPath, FALSE)

generic_decomposed_data_action == Runs("gd_data") /\ Access(OutPath, FALSE)

transmit_packet ==
    /\ Runs("transmit_packet")
    /\ packet' = Nowhere
    /\ UNCHANGED <<c, config, script, alive, typed, count, parked, overrun>>

Forward ==
    \/ Park \/ generic_decomposed_classifier \/ generic_decomposed_control_action
    \/ generic_decomposed_data_action \/ transmit_packet

Next == Deploy \/ Type \/ (\E b \in RssBuckets : Arrive(b)) \/ Forward

(* A worker's loop runs on.                                                *)
Spec == Init /\ [][Next]_vars /\ WF_vars(Forward)
-------------------------------------------------------------------------------
(* The commands that name what there is: a path, an entry, a core, one of  *)
(* the states S, and no range below 0.  The handlers look at none of it.   *)
Command(S) ==
    [op : Idle \union {"port init", "rss", "worker run"}]
    \union [op : {"config parameter"}, par : [frequency : Int, data_state_size : Nat]]
    \union [op : {"rss_reta_config", "worker first_action"}, worker : Cores, action : Indices,
            start : Int, num : Int]
    \union [op : {"last_action", "first_action"}, worker : Cores]
    \union [op : {"state create"}, state : S]
    \union [op : {"control_frequency"}, state : S, val : Int]
    \union [op : {"data_state"}, state : S, val : Nat]
    \union [op : {"action create"}, registration : 0 .. 5, action : Indices, state : S, core : Cores]
    \union [op : {"create_packet_out"}, action : Indices, core : Cores]
    \union [op : {"install_path"}, action : Indices, path : Local(MaximumPath), to : Indices]
    \union [op : {"install_simple_path"}, state : S, action : Indices, path : Local(MaximumPath)]

States(p) == 0 .. Len(state_instances(p)) - 1

(* All that is typed and sent is such, and the tables have the room.       *)
CommandsFit ==
    \A p \in Plans :
        /\ States(p) \subseteq Indices
        /\ OperatorCommands \subseteq Command(States(p))
        /\ \A s \in Starts(p["packet_in"]), r \in Ranges, f \in Frequencies :
              Script(p, s, r, f) \in Seq(Command(States(p)))

(* The director starts the workers last, and the operator neither starts   *)
(* them nor creates a state.                                               *)
RunsLast ==
    /\ \A m \in OperatorCommands : m.op \notin {"state create", "worker run"}
    /\ \A p \in Plans : \A s \in Starts(p["packet_in"]), r \in Ranges, f \in Frequencies :
          LET sent == Script(p, s, r, f)
          IN  \A x \in DOMAIN sent : sent[x].op = "worker run" => x = Len(sent)

(* What a plan, the yaml and the tables must be for that: a state for each *)
(* action and its instances, room in the tables, a path for each edge, and *)
(* a core for each instance.                                               *)
PlansFit ==
    /\ "packet_in" \in ToSet(ActionList)
    /\ \A s \in ToSet(StateList) : FirstAction(s) \in ToSet(ActionList)
    /\ \A a \in ToSet(ActionList) \ Bare :
          StateOf(a) \in ToSet(StateList) /\ RegistrationId(a) \in 0 .. 5
    /\ \A e \in ToSet(Edges) : e[1] \notin {"packet_out", "drop"}
    /\ Len(Edges) <= MaximumPath
    /\ Ranges \subseteq Nat /\ Frequencies \subseteq Int
    /\ \A p \in Plans :
          /\ p \in [ToSet(ActionList) -> Nat]
          /\ OperatorCommands \subseteq Command(States(p))
          /\ States(p) \union (0 .. Len(action_instances(p)) - 1) \subseteq Indices
          /\ 0 .. p["packet_in"] - 1 \subseteq Indices
          /\ \A a \in ToSet(ActionList) \ Bare : p[a] <= p[FirstAction(StateOf(a))]
          /\ \A a \in ToSet(ActionList) : \A j \in 0 .. p[a] - 1 : Place(a, j) \in Cores

(* The operator leaves alone the buckets, the entries and the paths.       *)
Placing == {"rss_reta_config", "worker first_action", "action create", "create_packet_out",
            "install_simple_path"}
OperatorAside == \A m \in OperatorCommands : m.op \notin Placing

(* b comes after a in the yaml and depends on it.                          *)
Follows(a, b) ==
    /\ {a, b} \subseteq ToSet(ActionList)
    /\ <<a, b>> \in ToSet(Edges)
    /\ Index(ActionList, a) < Index(ActionList, b)

(* A classifier for each instance of packet_in, which has a worker, and    *)
(* nothing else behind packet_in.                                          *)
BucketsFit ==
    /\ RssBuckets = 0 .. NBuckets - 1
    /\ \A b \in ToSet(ActionList) : Follows("packet_in", b) <=> b = "gd_classifier"
    /\ RegistrationId("gd_classifier") = 3
    /\ \A s \in ToSet(StateList) : FirstAction(s) \in ToSet(ActionList)
    /\ Follows("packet_in", "gd_classifier")
    /\ \A p \in Plans :
          /\ p \in [ToSet(ActionList) -> Nat]
          /\ p["packet_in"] > 0 /\ p["gd_classifier"] = p["packet_in"]
          /\ \A i \in 0 .. p["packet_in"] - 1 : Place("packet_in", i) \in Workers

(* Behind the classifier, its edges in whatever order, are the other two   *)
(* functions and packet_out; none of them has more instances than the one  *)
(* before, if that has several, or than the one whose state it shares, and *)
(* all are on cores with a worker.                                         *)
GdFunctions == {"gd_classifier", "gd_data", "gd_control"}
PathsFit ==
    /\ \A v, w \in Workers : queue_id(v) = queue_id(w) => v = w
    /\ \A e \in ToSet(Edges) : e[1] \in GdFunctions =>
          /\ Follows(e[1], e[2]) /\ e[2] \in GdFunctions \union {"packet_out"}
          /\ \A p \in Plans : (p[e[1]] = 1 /\ p[e[2]] >= 1) \/ p[e[2]] \in 1 .. p[e[1]]
    /\ RegistrationId("gd_data") = 4 /\ RegistrationId("gd_control") = 5
    /\ \A e \in ToSet(Edges) : e[1] \notin {"packet_out", "drop"}
    /\ \A p \in Plans, a \in ToSet(ActionList) \ Bare :
          StateOf(a) \in ToSet(StateList) /\ p[a] <= p[FirstAction(StateOf(a))]
    /\ \A p \in Plans, a \in GdFunctions \union {"packet_out"} :
          \A j \in 0 .. p[a] - 1 : Place(a, j) \in Workers

(* The tables keep their shape, and the packet is at an entry of one.      *)
DeploymentTypeOK ==
    /\ c.reta \in [RssBuckets -> 0 .. 23]
    /\ \A a \in Indices : c.action[a].core \in Cores
    /\ \A s \in Indices : /\ c.state[s].simple_path \in [Local(MaximumPath) -> Indices]
                          /\ c.state[s].rand_range \in Nat
                          /\ Cardinality(c.state[s].hash_table) <= Entries
    /\ packet = Nowhere \/ packet.at \in Indices
    /\ alive \in {"up", "exit", "fpe"}

n == plan["packet_in"]
Share(i) == BucketsOf(starts[i], NumBuckets(n))
Lost == RssBuckets \ UNION {Share(i) : i \in 0 .. n - 1}

(* When the script is over, whether the workers ran before or not, a       *)
(* bucket belongs to one instance of packet_in, the queue it goes to is    *)
(* polled, and the worker gives it to the classifier of that instance, on  *)
(* its core and with its function.  Only what 512 / n leaves over goes to  *)
(* nobody, less than one share.                                            *)
EveryBucketServed ==
    script = << >> =>
        /\ Cardinality(Lost) = NBuckets - n * NumBuckets(n)
        /\ \A i \in 0 .. n - 1 : \A b \in Share(i) : \E w \in Polling(b) :
              LET a == c.action[c.buckets[w][b]]
              IN /\ w = Place("packet_in", i)
                 /\ a.function = "gd_classifier"
                 /\ a.core = Place("gd_classifier", i)

(* A packet is lost to a mailbox nobody reads only if its bucket belongs   *)
(* to nobody, it came before the script was over, or a function on its way *)
(* took a number that the director gives to no edge out of it: whatever    *)
(* the order of the edges, the number of an edge is filled and leads every *)
(* instance to a worker, and what an early packet met does not last.       *)
AstrayOnlyFromGaps == \A p \in parked : p.bucket \in Lost \/ p.early \/ p.gap

(* What the edges of the registry's yaml say: from the classifier or from  *)
(* control a packet comes to data, and from there to packet_out; none is   *)
(* left in a mailbox nobody reads.                                         *)
NoneAstray == parked = {}

(* The key's modulus is 0 only while a state has neither been created      *)
(* after "config parameter" nor given a data_state; and a value is written *)
(* outside its array only with a data_state above the table's entries.     *)
FaultNeedsRange ==
    /\ alive = "fpe" => \E s \in Indices : c.state[s].rand_range = 0 /\ s < Len(state_instances(plan))
    /\ \A s \in overrun : c.state[s].rand_range > Entries
                          \/ \E i \in DOMAIN typed : typed[i].op = "data_state"

(* No packet circles: each is transmitted, parked, or ends the process.    *)
PacketLeaves == packet # Nowhere ~> (packet = Nowhere \/ alive # "up")
===============================================================================
