---------------------------- MODULE DeploymentProofs ----------------------------
(***************************************************************************)
(* What the handlers of cli.c and the functions that walk the tables keep, *)
(* for every sequence of commands that name what there is.                 *)
(*                                                                         *)
(* Served says of one command what it makes of a configuration, and a      *)
(* lemma for each kind of handler proves it; DeploymentInv is what follows *)
(* for the tables and the packet on its way, RangeInv adds what is known   *)
(* of the ranges because the workers start last.  ScriptIs says which      *)
(* commands the director sends, Written what each overwrites; PlacedInv is *)
(* that those which last are still to come or in their place, and StrayInv *)
(* follows a packet along what they have placed.                           *)
(***************************************************************************)
EXTENDS Deployment, CollectionLemmas, TLAPS

(* The tables: struct Config and the states behind it.                     *)
EntryFunctions == {"none", "gd_classifier", "gd_data", "gd_control", "transmit_packet"}
StateRec ==
    [simple_path : [Local(MaximumPath) -> Indices], frequency : Int, counter : Int,
     rand_range : Nat, key : Nat, hash_table : SUBSET Nat]
Slots == [Local(MaximumPathInstance) -> Int]
EntryRec ==
    [function : EntryFunctions, state : Int, core : Cores,
     path : [Local(MaximumPath) -> Slots], path_instance_number : [Local(MaximumPath) -> Nat]]
ConfigRec ==
    [reta : [RssBuckets -> 0 .. 23], bucket_to_action_id : [RssBuckets -> Indices],
     par : [frequency : Int, data_state_size : Nat],
     state : [Indices -> StateRec], action : [Indices -> EntryRec],
     buckets : [Cores -> [RssBuckets -> Indices]],
     first_action : [Cores -> BOOLEAN], last_action : [Cores -> BOOLEAN],
     port : {"none", "failed", "started"}, running : BOOLEAN]

(* An entry that runs a function of the table has a state of S.            *)
Complete(S, e) == e.function \notin {"none", "transmit_packet"} => e.state \in S

(* What command m, served on d, makes of it: r.                            *)
Served(S, d, m, r) ==
    /\ r \in ConfigRec
    /\ (\A a \in Indices : Complete(S, d.action[a])) => \A a \in Indices : Complete(S, r.action[a])
    /\ \A s \in Indices : r.state[s].hash_table = d.state[s].hash_table
    /\ m.op \notin {"state create", "data_state"} =>
          \A s \in Indices : r.state[s].rand_range = d.state[s].rand_range
    /\ m.op # "worker run" => r.running = d.running
    /\ m.op = "worker run" => r.running

-------------------------------------------------------------------------------
(* Writing one state, or one entry, of the tables.                         *)
LEMMA PutState ==
    ASSUME NEW d \in ConfigRec, NEW s \in Indices, NEW e \in StateRec
    PROVE  /\ [d EXCEPT !.state[s] = e] \in ConfigRec
           /\ [d EXCEPT !.state[s] = e].action = d.action
           /\ [d EXCEPT !.state[s] = e].running = d.running
           /\ [d EXCEPT !.state[s] = e].state[s] = e
           /\ \A x \in Indices : x # s => [d EXCEPT !.state[s] = e].state[x] = d.state[x]
BY DEF ConfigRec

LEMMA PutAction ==
    ASSUME NEW d \in ConfigRec, NEW a \in Indices, NEW e \in EntryRec
    PROVE  /\ [d EXCEPT !.action[a] = e] \in ConfigRec
           /\ [d EXCEPT !.action[a] = e].state = d.state
           /\ [d EXCEPT !.action[a] = e].running = d.running
           /\ [d EXCEPT !.action[a] = e].action[a] = e
           /\ \A x \in Indices : x # a => [d EXCEPT !.action[a] = e].action[x] = d.action[x]
BY DEF ConfigRec

(* What is known of a configuration's parts.                               *)
LEMMA ConfigParts ==
    ASSUME NEW d \in ConfigRec
    PROVE  /\ d.par \in [frequency : Int, data_state_size : Nat]
           /\ d.state \in [Indices -> StateRec] /\ d.action \in [Indices -> EntryRec]
           /\ d.reta \in [RssBuckets -> 0 .. 23] /\ d.running \in BOOLEAN
           /\ d.buckets \in [Cores -> [RssBuckets -> Indices]]
           /\ d.port \in {"none", "failed", "started"}
BY DEF ConfigRec

LEMMA Initial == config_init \in ConfigRec
<1>1. state_init \in StateRec
  BY ConfigAssumption DEF state_init, StateRec, ZeroPath, Local
<1>2. ZeroEntry \in EntryRec
  BY ConfigAssumption DEF ZeroEntry, EntryRec, ZeroPath, Local, Slots, EntryFunctions
<1>3. 0 \in Indices /\ 0 \in Cores
  BY ConfigAssumption
<1> QED BY <1>1, <1>2, <1>3 DEF config_init, ConfigRec

-------------------------------------------------------------------------------
(* The queue of a core.                                                    *)
LEMMA Halves == ASSUME NEW w \in Cores PROVE w \div 2 \in 0 .. 23
<1>1. w \in 0 .. 47 /\ w \in Nat
  BY ConfigAssumption
<1>2. /\ (w \div 2) \in Nat /\ (w % 2) \in 0 .. 2 - 1
      /\ w = 2 * (w \div 2) + (w % 2)
  BY <1>1, Division
<1>3. PICK q \in Nat : q = w \div 2
  BY <1>2
<1>4. PICK r \in 0 .. 2 - 1 : r = w % 2
  BY <1>2
<1>5. w = 2 * q + r
  BY <1>2, <1>3, <1>4
<1>6. q \in 0 .. 23
  BY ONLY <1>1, <1>3, <1>4, <1>5
<1> QED BY <1>3, <1>6

(* The handlers that write no entry and no state.                          *)
LEMMA OtherHandlers ==
    ASSUME NEW S, S \subseteq Indices, NEW d \in ConfigRec, NEW m \in Command(S),
           m.op \in {"config parameter", "rss_reta_config", "worker first_action", "worker run",
                     "last_action", "first_action"}
    PROVE  Served(S, d, m, cli_process(d, m))
<1> USE ConfigAssumption
<1>1. ASSUME NEW r \in ConfigRec, r.state = d.state, r.action = d.action,
             m.op # "worker run" => r.running = d.running, m.op = "worker run" => r.running
      PROVE  Served(S, d, m, r)
  BY <1>1 DEF Served
<1>2. CASE m.op = "config parameter"
  <2>1. m.par \in [frequency : Int, data_state_size : Nat]
    BY <1>2 DEF Command, Idle
  <2>2. cli_process(d, m) = config_parameter(d, m)
    BY <1>2 DEF cli_process, Idle
  <2>3. /\ config_parameter(d, m) \in ConfigRec
        /\ config_parameter(d, m).state = d.state /\ config_parameter(d, m).action = d.action
        /\ config_parameter(d, m).running = d.running
    BY <2>1 DEF config_parameter, ConfigRec
  <2> QED BY <1>1, <1>2, <2>2, <2>3
<1>3. CASE m.op = "rss_reta_config"
  <2>1. m.worker \in Cores /\ m.action \in Indices
    BY <1>3 DEF Command, Idle
  <2>2. cli_process(d, m) = rss_reta_config(d, m)
    BY <1>3 DEF cli_process, Idle
  <2>3. queue_id(m.worker) \in 0 .. 23
    BY <2>1, Halves DEF queue_id
  <2>4. /\ rss_reta_config(d, m) \in ConfigRec
        /\ rss_reta_config(d, m).state = d.state /\ rss_reta_config(d, m).action = d.action
        /\ rss_reta_config(d, m).running = d.running
    BY <2>1, <2>3 DEF rss_reta_config, ConfigRec
  <2> QED BY <1>1, <1>3, <2>2, <2>4
<1>4. CASE m.op = "worker first_action"
  <2>1. m.worker \in Cores /\ m.action \in Indices
    BY <1>4 DEF Command, Idle
  <2>2. cli_process(d, m) = worker_first_action(d, m)
    BY <1>4 DEF cli_process, Idle
  <2>4. /\ worker_first_action(d, m) \in ConfigRec
        /\ worker_first_action(d, m).state = d.state
        /\ worker_first_action(d, m).action = d.action
        /\ worker_first_action(d, m).running = d.running
    <3> DEFINE range == m.start .. m.start + m.num - 1
               row(old) == [b \in RssBuckets |-> IF b \in range THEN m.action ELSE old[b]]
               new == [d.buckets EXCEPT ![m.worker] = row(@)]
    <3>1. worker_first_action(d, m) =
            [d EXCEPT !.buckets = new, !.first_action = [@ EXCEPT ![m.worker] = TRUE]]
      BY DEF worker_first_action
    <3>2. d.buckets \in [Cores -> [RssBuckets -> Indices]] /\ d.first_action \in [Cores -> BOOLEAN]
      BY DEF ConfigRec
    <3>3. \A old \in [RssBuckets -> Indices] : row(old) \in [RssBuckets -> Indices]
      BY <2>1
    <3> HIDE DEF row
    <3>4. new \in [Cores -> [RssBuckets -> Indices]]
      BY <2>1, <3>2, <3>3
    <3>5. [d.first_action EXCEPT ![m.worker] = TRUE] \in [Cores -> BOOLEAN]
      BY <3>2
    <3> HIDE DEF new
    <3> QED BY <3>1, <3>4, <3>5 DEF ConfigRec
  <2> QED BY <1>1, <1>4, <2>2, <2>4
<1>5. CASE m.op = "worker run"
  <2>2. cli_process(d, m) = worker_run(d)
    BY <1>5 DEF cli_process, Idle
  <2>4. /\ worker_run(d) \in ConfigRec
        /\ worker_run(d).state = d.state /\ worker_run(d).action = d.action
        /\ worker_run(d).running
    BY DEF worker_run, ConfigRec
  <2> QED BY <1>1, <1>5, <2>2, <2>4
<1>6. CASE m.op = "last_action"
  <2>1. m.worker \in Cores
    BY <1>6 DEF Command, Idle
  <2>2. cli_process(d, m) = last_action(d, m)
    BY <1>6 DEF cli_process, Idle
  <2>4. /\ last_action(d, m) \in ConfigRec
        /\ last_action(d, m).state = d.state /\ last_action(d, m).action = d.action
        /\ last_action(d, m).running = d.running
    BY <2>1 DEF last_action, ConfigRec
  <2> QED BY <1>1, <1>6, <2>2, <2>4
<1>7. CASE m.op = "first_action"
  <2>1. m.worker \in Cores
    BY <1>7 DEF Command, Idle
  <2>2. cli_process(d, m) = first_action(d, m)
    BY <1>7 DEF cli_process, Idle
  <2>4. /\ first_action(d, m) \in ConfigRec
        /\ first_action(d, m).state = d.state /\ first_action(d, m).action = d.action
        /\ first_action(d, m).running = d.running
    BY <2>1 DEF first_action, ConfigRec
  <2> QED BY <1>1, <1>7, <2>2, <2>4
<1> QED BY <1>2, <1>3, <1>4, <1>5, <1>6, <1>7

(* state_update on a state.                                                *)
LEMMA CreatedState ==
    ASSUME NEW old \in StateRec, NEW size \in Nat, NEW f \in Int
    PROVE  /\ [old EXCEPT !.rand_range = size, !.frequency = f, !.counter = 0] \in StateRec
           /\ [old EXCEPT !.rand_range = size, !.frequency = f, !.counter = 0].hash_table
                  = old.hash_table
<1>1. PICK e1 : e1 = [old EXCEPT !.rand_range = size]
  OBVIOUS
<1>2. PICK e2 : e2 = [e1 EXCEPT !.frequency = f]
  OBVIOUS
<1>3. PICK e3 : e3 = [e2 EXCEPT !.counter = 0]
  OBVIOUS
<1>4. e1 \in StateRec /\ e1.hash_table = old.hash_table
  BY <1>1 DEF StateRec
<1>5. e2 \in StateRec /\ e2.hash_table = e1.hash_table
  BY <1>2, <1>4 DEF StateRec
<1>6. e3 \in StateRec /\ e3.hash_table = e2.hash_table
  BY <1>3, <1>5 DEF StateRec
<1>7. [old EXCEPT !.rand_range = size, !.frequency = f, !.counter = 0] = e3
  BY ONLY <1>1, <1>2, <1>3
<1> QED BY <1>4, <1>5, <1>6, <1>7

(* The handlers that write a state.                                        *)
LEMMA StateHandlers ==
    ASSUME NEW S, S \subseteq Indices, NEW d \in ConfigRec, NEW m \in Command(S),
           m.op \in {"state create", "control_frequency", "data_state", "install_simple_path"}
    PROVE  Served(S, d, m, cli_process(d, m))
<1>1. m.state \in S /\ m.state \in Indices
  BY DEF Command, Idle
<1>2. PICK s \in Indices : s = m.state
  BY <1>1
<1>3. PICK old : old = d.state[s]
  OBVIOUS
<1>4. old \in StateRec /\ d.par \in [frequency : Int, data_state_size : Nat]
  BY <1>3, ConfigParts
<1>5. ASSUME NEW e \in StateRec, e.hash_table = old.hash_table,
             m.op \notin {"state create", "data_state"} => e.rand_range = old.rand_range
      PROVE  Served(S, d, m, [d EXCEPT !.state[s] = e])
  <2>1. PICK r : r = [d EXCEPT !.state[s] = e]
    OBVIOUS
  <2>2. /\ r \in ConfigRec /\ r.action = d.action /\ r.running = d.running /\ r.state[s] = e
        /\ \A x \in Indices : x # s => r.state[x] = d.state[x]
    <3>1. s \in Indices /\ e \in StateRec /\ d \in ConfigRec
      BY <1>2, <1>5
    <3>2. r = [d EXCEPT !.state[s] = e]
      BY <2>1
    <3> QED BY ONLY <3>1, <3>2, PutState
  <2>3. /\ \A x \in Indices : r.state[x].hash_table = d.state[x].hash_table
        /\ m.op \notin {"state create", "data_state"} =>
              \A x \in Indices : r.state[x].rand_range = d.state[x].rand_range
    BY <1>3, <1>5, <2>2
  <2>4. m.op # "worker run"
    OBVIOUS
  <2>5. Served(S, d, m, r)
    BY <2>2, <2>3, <2>4 DEF Served
  <2> QED BY <2>1, <2>5
<1>6. CASE m.op = "state create"
  <2> DEFINE e == [old EXCEPT !.rand_range = d.par.data_state_size,
                              !.frequency = d.par.frequency, !.counter = 0]
  <2>1. cli_process(d, m) = [d EXCEPT !.state[s] = e]
    BY <1>2, <1>3, <1>6, ConfigParts DEF cli_process, Idle, state_create
  <2>2. e \in StateRec /\ e.hash_table = old.hash_table
    <3>1. PICK size \in Nat : size = d.par.data_state_size
      BY <1>4
    <3>2. PICK f \in Int : f = d.par.frequency
      BY <1>4
    <3> QED BY <1>4, <3>1, <3>2, CreatedState
  <2> QED BY <1>5, <1>6, <2>1, <2>2
<1>7. CASE m.op = "control_frequency"
  <2> DEFINE e == [old EXCEPT !.frequency = m.val]
  <2>1. m.val \in Int
    BY <1>7 DEF Command, Idle
  <2>2. cli_process(d, m) = [d EXCEPT !.state[s] = e]
    BY <1>2, <1>3, <1>7, ConfigParts DEF cli_process, Idle, control_frequency
  <2>3. e \in StateRec /\ e.hash_table = old.hash_table /\ e.rand_range = old.rand_range
    BY <1>4, <2>1 DEF StateRec
  <2> QED BY <1>5, <1>7, <2>2, <2>3
<1>8. CASE m.op = "data_state"
  <2> DEFINE e == [old EXCEPT !.rand_range = m.val]
  <2>1. m.val \in Nat
    BY <1>8 DEF Command, Idle
  <2>2. cli_process(d, m) = [d EXCEPT !.state[s] = e]
    BY <1>2, <1>3, <1>8, ConfigParts DEF cli_process, Idle, data_state
  <2>3. e \in StateRec /\ e.hash_table = old.hash_table
    BY <1>4, <2>1 DEF StateRec
  <2> QED BY <1>5, <1>8, <2>2, <2>3
<1>9. CASE m.op = "install_simple_path"
  <2> DEFINE e == [old EXCEPT !.simple_path[m.path] = m.action]
  <2>1. m.path \in Local(MaximumPath) /\ m.action \in Indices
    BY <1>9 DEF Command, Idle
  <2>2. cli_process(d, m) = [d EXCEPT !.state[s] = e]
    BY <1>2, <1>3, <1>9, ConfigParts DEF cli_process, Idle, install_simple_path
  <2>3. e \in StateRec /\ e.hash_table = old.hash_table /\ e.rand_range = old.rand_range
    BY <1>4, <2>1 DEF StateRec
  <2> QED BY <1>5, <1>9, <2>2, <2>3
<1> QED BY <1>6, <1>7, <1>8, <1>9

-------------------------------------------------------------------------------
(* No slot of a new entry is taken.                                        *)
LEMMA Unused ==
    NoInstance \in [Local(MaximumPath) -> Slots] /\ ZeroPath \in [Local(MaximumPath) -> Nat]
<1>1. PICK unused : unused = [j \in Local(MaximumPathInstance) |-> -1]
  OBVIOUS
<1>2. unused \in Slots
  BY <1>1 DEF Slots
<1>3. NoInstance = [i \in Local(MaximumPath) |-> unused]
  BY <1>1 DEF NoInstance
<1> QED BY <1>2, <1>3 DEF ZeroPath

-------------------------------------------------------------------------------
(* The handlers that write an entry.                                       *)
LEMMA EntryServed ==
    ASSUME NEW S, NEW d \in ConfigRec, NEW m, NEW a \in Indices, NEW e \in EntryRec,
           m.op \in {"install_path", "action create", "create_packet_out"},
           Complete(S, d.action[a]) => Complete(S, e)
    PROVE  Served(S, d, m, [d EXCEPT !.action[a] = e])
<1>1. PICK r : r = [d EXCEPT !.action[a] = e]
  OBVIOUS
<1>2. /\ r \in ConfigRec /\ r.state = d.state /\ r.running = d.running /\ r.action[a] = e
      /\ \A x \in Indices : x # a => r.action[x] = d.action[x]
  BY <1>1, PutAction
<1>3. ASSUME \A x \in Indices : Complete(S, d.action[x])
      PROVE  \A x \in Indices : Complete(S, r.action[x])
  BY <1>2, <1>3
<1>4. Served(S, d, m, r)
  BY <1>2, <1>3 DEF Served
<1> QED BY <1>1, <1>4

LEMMA IndexIsNumber == ASSUME NEW x \in Indices PROVE x \in Int
BY ConfigAssumption

(* What register_action may hold.                                          *)
LEMMA Registered == \A i \in 0 .. 5 : register_action[i] \in EntryFunctions
<1>1. /\ register_action[0] = "none" /\ register_action[1] = "none"
      /\ register_action[2] = "none" /\ register_action[3] = "gd_classifier"
      /\ register_action[4] = "gd_data" /\ register_action[5] = "gd_control"
  BY DEF register_action
<1>2. \A i \in 0 .. 5 : i = 0 \/ i = 1 \/ i = 2 \/ i = 3 \/ i = 4 \/ i = 5
  OBVIOUS
<1> QED BY <1>1, <1>2 DEF EntryFunctions

LEMMA ActionCreate ==
    ASSUME NEW S, S \subseteq Indices, NEW d \in ConfigRec, NEW m \in Command(S),
           m.op = "action create"
    PROVE  Served(S, d, m, cli_process(d, m))
<1>1. /\ m.action \in Indices /\ m.state \in S /\ m.state \in Indices /\ m.core \in Cores
      /\ m.registration \in 0 .. 5
  BY DEF Command, Idle
<1>2. PICK e : e = [function |-> register_action[m.registration], state |-> m.state,
                    core |-> m.core, path |-> NoInstance, path_instance_number |-> ZeroPath]
  OBVIOUS
<1>3. cli_process(d, m) = [d EXCEPT !.action[m.action] = e]
  <2>1. cli_process(d, m) = action_create(d, m)
    BY DEF cli_process, Idle
  <2> QED BY <1>2, <2>1 DEF action_create
<1>4. register_action[m.registration] \in EntryFunctions
  BY <1>1, Registered
<1>5. NoInstance \in [Local(MaximumPath) -> Slots] /\ ZeroPath \in [Local(MaximumPath) -> Nat]
  BY Unused
<1>6. m.state \in Int
  BY <1>1, IndexIsNumber
<1>7. e \in EntryRec
  BY <1>1, <1>2, <1>4, <1>5, <1>6 DEF EntryRec
<1>8. Complete(S, e)
  BY <1>1, <1>2 DEF Complete
<1>9. m.action \in Indices /\ (Complete(S, d.action[m.action]) => Complete(S, e))
  BY <1>1, <1>8
<1>10. Served(S, d, m, [d EXCEPT !.action[m.action] = e])
  BY <1>7, <1>9, EntryServed
<1> QED BY <1>3, <1>10

LEMMA CreatePacketOut ==
    ASSUME NEW S, S \subseteq Indices, NEW d \in ConfigRec, NEW m \in Command(S),
           m.op = "create_packet_out"
    PROVE  Served(S, d, m, cli_process(d, m))
<1>1. m.action \in Indices /\ m.core \in Cores
  BY DEF Command, Idle
<1>2. PICK old \in EntryRec : old = d.action[m.action]
  BY <1>1, ConfigParts
<1>3. PICK e : e = [function |-> "transmit_packet", state |-> -1, core |-> m.core,
                    path |-> old.path, path_instance_number |-> old.path_instance_number]
  OBVIOUS
<1>4. e \in EntryRec
  BY <1>1, <1>2, <1>3 DEF EntryRec, EntryFunctions
<1>5. Complete(S, e)
  BY <1>3 DEF Complete
<1>6. e = [old EXCEPT !.function = "transmit_packet", !.state = -1, !.core = m.core]
  <2>1. PICK e1 : e1 = [old EXCEPT !.function = "transmit_packet"]
    OBVIOUS
  <2>2. PICK e2 : e2 = [e1 EXCEPT !.state = -1]
    OBVIOUS
  <2>3. e1 = [function |-> "transmit_packet", state |-> old.state, core |-> old.core,
              path |-> old.path, path_instance_number |-> old.path_instance_number]
    BY <1>2, <2>1 DEF EntryRec
  <2>4. e2 = [function |-> "transmit_packet", state |-> -1, core |-> old.core,
              path |-> old.path, path_instance_number |-> old.path_instance_number]
    BY <2>2, <2>3
  <2>5. e = [e2 EXCEPT !.core = m.core]
    BY <1>3, <2>4
  <2> QED BY <2>1, <2>2, <2>5
<1>7. PICK r : r = [d EXCEPT !.action[m.action] = e]
  OBVIOUS
<1>8. cli_process(d, m) = [r EXCEPT !.last_action[m.core] = TRUE]
  BY <1>1, <1>2, <1>6, <1>7 DEF cli_process, Idle, create_packet_out
<1>9. r \in ConfigRec /\ Served(S, d, m, r)
  <2>1. Served(S, d, m, r)
    BY <1>1, <1>4, <1>5, <1>7, EntryServed
  <2> QED BY <2>1 DEF Served
<1>10. PICK t : t = [r EXCEPT !.last_action[m.core] = TRUE]
  OBVIOUS
<1>11. t \in ConfigRec /\ t.state = r.state /\ t.action = r.action /\ t.running = r.running
  BY <1>1, <1>9, <1>10 DEF ConfigRec
<1>12. Served(S, d, m, t)
  BY <1>9, <1>11 DEF Served
<1> QED BY <1>8, <1>10, <1>12

(* install_path writes the slots and the count only.                       *)
LEMMA InstallPath ==
    ASSUME NEW S, S \subseteq Indices, NEW d \in ConfigRec, NEW m \in Command(S),
           m.op = "install_path"
    PROVE  Served(S, d, m, cli_process(d, m))
<1>1. m.action \in Indices /\ m.path \in Local(MaximumPath) /\ m.to \in Nat
  <2>1. m.action \in Indices /\ m.path \in Local(MaximumPath) /\ m.to \in Indices
    BY DEF Command, Idle
  <2> QED BY <2>1, ConfigAssumption
<1>2. PICK old \in EntryRec : old = d.action[m.action]
  BY <1>1, ConfigParts
<1>3. PICK slots \in Slots : slots = old.path[m.path]
  BY <1>1, <1>2 DEF EntryRec
<1>4. PICK number \in Nat : number = old.path_instance_number[m.path]
  BY <1>1, <1>2 DEF EntryRec
<1>5. PICK e : e = [old EXCEPT !.path_instance_number[m.path] = number + 1]
  OBVIOUS
<1>6. /\ e \in EntryRec /\ e.function = old.function /\ e.state = old.state
      /\ e.path = old.path /\ e.path_instance_number[m.path] = number + 1
      /\ \A p \in Local(MaximumPath) : p # m.path =>
            e.path_instance_number[p] = old.path_instance_number[p]
  BY <1>1, <1>2, <1>5 DEF EntryRec
<1>7. PICK counted : counted = [d EXCEPT !.action[m.action] = e]
  OBVIOUS
<1>8. counted = [d EXCEPT !.action[m.action].path_instance_number[m.path] = @ + 1]
  BY <1>1, <1>2, <1>4, <1>5, <1>7, ConfigParts
<1>9. counted \in ConfigRec /\ counted.action[m.action] = e
  BY <1>1, <1>6, <1>7, PutAction
<1>10. PICK free : free = {i \in Local(MaximumPathInstance) : slots[i] = -1}
  OBVIOUS
<1>11. CASE free = {}
  <2>1. cli_process(d, m) = counted
    BY <1>2, <1>3, <1>8, <1>10, <1>11 DEF cli_process, Idle, install_path
  <2>2. Complete(S, old) => Complete(S, e)
    BY <1>6 DEF Complete
  <2>3. Served(S, d, m, [d EXCEPT !.action[m.action] = e])
    BY <1>1, <1>2, <1>6, <2>2, EntryServed
  <2> QED BY <1>7, <2>1, <2>3
<1>12. CASE free # {}
  <2>1. PICK slot : slot = CHOOSE i \in free : \A j \in free : i <= j
    OBVIOUS
  <2>2. slot \in Local(MaximumPathInstance) /\ slots[slot] = -1
    <3>1. free \subseteq Nat
      BY <1>10 DEF Local
    <3>2. \E i \in free : \A j \in free : i <= j
      BY <1>12, <3>1, Least
    <3> QED BY <1>10, <2>1, <3>2
  <2>3. PICK f : f = [e EXCEPT !.path[m.path] = [slots EXCEPT ![slot] = m.to]]
    OBVIOUS
  <2>4. cli_process(d, m) = [counted EXCEPT !.action[m.action].path[m.path][slot] = m.to]
    <3>1. cli_process(d, m) = install_path(d, m)
      BY DEF cli_process, Idle
    <3>2. free = {i \in Local(MaximumPathInstance) : d.action[m.action].path[m.path][i] = -1}
      BY <1>2, <1>3, <1>10
    <3> QED BY <1>8, <1>12, <2>1, <3>1, <3>2 DEF install_path
  <2>5. [counted EXCEPT !.action[m.action].path[m.path][slot] = m.to]
          = [counted EXCEPT !.action[m.action] = f]
    BY <1>1, <1>3, <1>6, <1>9, <2>3, ConfigParts DEF EntryRec
  <2>6. [counted EXCEPT !.action[m.action] = f] = [d EXCEPT !.action[m.action] = f]
    BY <1>1, <1>7, ConfigParts
  <2>7. /\ f \in EntryRec /\ f.function = e.function /\ f.state = e.state
        /\ f.path_instance_number = e.path_instance_number
        /\ f.path[m.path] = [slots EXCEPT ![slot] = m.to]
        /\ \A p \in Local(MaximumPath) : p # m.path => f.path[p] = e.path[p]
    <3>1. PICK taken : taken = [slots EXCEPT ![slot] = m.to]
      OBVIOUS
    <3>2. taken \in Slots
      BY <1>1, <2>2, <3>1 DEF Slots
    <3>3. f = [e EXCEPT !.path[m.path] = taken]
      BY <2>3, <3>1
    <3>4. e.path \in [Local(MaximumPath) -> Slots]
      BY <1>6 DEF EntryRec
    <3>5. [e.path EXCEPT ![m.path] = taken] \in [Local(MaximumPath) -> Slots]
      BY <3>2, <3>4
    <3>6. f = [e EXCEPT !.path = [e.path EXCEPT ![m.path] = taken]]
      BY <3>3
    <3>7. /\ f \in EntryRec /\ f.function = e.function /\ f.state = e.state
          /\ f.path_instance_number = e.path_instance_number
          /\ f.path = [e.path EXCEPT ![m.path] = taken]
      BY <1>6, <3>5, <3>6 DEF EntryRec
    <3> QED BY <1>1, <3>1, <3>4, <3>7
  <2>8. Complete(S, old) => Complete(S, f)
    BY <1>6, <2>7 DEF Complete
  <2>9. Served(S, d, m, [d EXCEPT !.action[m.action] = f])
    BY <1>1, <1>2, <2>7, <2>8, EntryServed
  <2> QED BY <2>4, <2>5, <2>6, <2>9
<1> QED BY <1>11, <1>12

(* Every command that is such.                                             *)
LEMMA EveryCommand ==
    ASSUME NEW S, S \subseteq Indices, NEW d \in ConfigRec, NEW m \in Command(S), m.op \in Simple
    PROVE  Served(S, d, m, cli_process(d, m))
<1>1. CASE m.op \in Idle
  <2>1. cli_process(d, m) = d
    BY <1>1 DEF cli_process, Idle
  <2>2. m.op # "worker run"
    BY <1>1 DEF Idle
  <2> QED BY <2>1, <2>2 DEF Served
<1>2. CASE m.op \in {"config parameter", "rss_reta_config", "worker first_action", "worker run",
                     "last_action", "first_action"}
  BY <1>2, OtherHandlers
<1>3. CASE m.op \in {"state create", "control_frequency", "data_state", "install_simple_path"}
  BY <1>3, StateHandlers
<1>4. CASE m.op = "action create"
  BY <1>4, ActionCreate
<1>5. CASE m.op = "create_packet_out"
  BY <1>5, CreatePacketOut
<1>6. CASE m.op = "install_path"
  BY <1>6, InstallPath
<1> QED BY <1>1, <1>2, <1>3, <1>4, <1>5, <1>6 DEF Simple

LEMMA PortInit ==
    ASSUME NEW d \in ConfigRec, NEW r \in port_init(d)
    PROVE  /\ r \in ConfigRec /\ r.state = d.state /\ r.action = d.action
           /\ r.running = d.running
<1>1. ASSUME NEW p \in {"failed", "started"}, r = [d EXCEPT !.port = p]
      PROVE  /\ r \in ConfigRec /\ r.state = d.state /\ r.action = d.action
             /\ r.running = d.running
  BY <1>1 DEF ConfigRec
<1>2. r = d \/ \E p \in {"failed", "started"} : r = [d EXCEPT !.port = p]
  BY DEF port_init
<1> QED BY <1>1, <1>2

-------------------------------------------------------------------------------
(* One access to a state: its key advances and is put in a table with room. *)
Bounded(h) == IsFiniteSet(h) /\ Cardinality(h) <= Entries

LEMMA TableAccess ==
    ASSUME NEW st \in StateRec, st.rand_range # 0, Bounded(st.hash_table),
           NEW key, key = (st.key + 1) % st.rand_range,
           NEW h, h = IF Full(st, key) THEN st.hash_table ELSE st.hash_table \union {key}
    PROVE  /\ key \in 0 .. st.rand_range - 1 /\ h \in SUBSET Nat /\ Bounded(h)
           /\ st.hash_table \subseteq 0 .. st.rand_range - 1 =>
                 /\ h \subseteq 0 .. st.rand_range - 1
                 /\ Full(st, key) => st.rand_range > Entries
<1>1. PICK range \in Nat \ {0} : range = st.rand_range
  BY DEF StateRec
<1>2. PICK k \in Nat : k = st.key + 1
  BY DEF StateRec
<1>3. PICK t \in SUBSET Nat : t = st.hash_table
  BY DEF StateRec
<1>4. key \in 0 .. range - 1
  <2>1. (k % range) \in 0 .. range - 1
    BY <1>1, <1>2, Division
  <2> QED BY <1>1, <1>2, <2>1
<1>5. IsFiniteSet(t) /\ Cardinality(t) \in Nat /\ Cardinality(t) <= Entries
  BY <1>3, FS_CardinalityType DEF Bounded
<1>6. Full(st, key) <=> key \notin t /\ Cardinality(t) >= Entries
  BY <1>3 DEF Full
<1>7. h \in SUBSET Nat /\ Bounded(h)
  <2>1. CASE Full(st, key)
    BY <1>3, <1>5, <2>1 DEF Bounded
  <2>2. CASE ~Full(st, key)
    <3>1. h = t \union {key}
      BY <1>3, <2>2
    <3>2. IsFiniteSet(h) /\ Cardinality(h) = (IF key \in t THEN Cardinality(t) ELSE Cardinality(t) + 1)
      BY <1>5, <3>1, FS_AddElement
    <3>3. Cardinality(h) <= Entries
      BY <1>5, <1>6, <2>2, <3>2, EntriesAssumption
    <3>4. key \in Nat
      BY <1>1, <1>4
    <3>5. h \in SUBSET Nat
      BY <3>1, <3>4
    <3> QED BY <3>2, <3>3, <3>5 DEF Bounded
  <2> QED BY <2>1, <2>2
<1>8. ASSUME t \subseteq 0 .. range - 1
      PROVE  /\ h \subseteq 0 .. range - 1
             /\ Full(st, key) => range > Entries
  <2>1. h \subseteq 0 .. range - 1
    BY <1>3, <1>4, <1>8
  <2>2. ASSUME Full(st, key)
        PROVE  range > Entries
    <3>1. IsFiniteSet(t \union {key}) /\ Cardinality(t \union {key}) = Cardinality(t) + 1
      BY <1>5, <1>6, <2>2, FS_AddElement
    <3>2. IsFiniteSet(0 .. range - 1) /\ Cardinality(0 .. range - 1) = range
      <4>1. IsFiniteSet(0 .. range - 1) /\ Cardinality(0 .. range - 1)
              = IF 0 > range - 1 THEN 0 ELSE range - 1 - 0 + 1
        BY FS_Interval
      <4> QED BY <4>1
    <3>3. t \union {key} \subseteq 0 .. range - 1
      BY <1>4, <1>8
    <3>4. Cardinality(t \union {key}) <= Cardinality(0 .. range - 1)
      BY <3>2, <3>3, FS_Subset
    <3> QED BY <1>5, <1>6, <2>2, <3>1, <3>2, <3>4, EntriesAssumption
  <2> QED BY <2>1, <2>2
<1> QED BY <1>1, <1>3, <1>4, <1>7, <1>8

-------------------------------------------------------------------------------
(* What holds between the steps: the script and the tables are well formed, *)
(* and an entry that runs a function has a state of the plan.  The last     *)
(* part is why a packet's function finds its state and its next entry.     *)
Instances == States(plan)
FaultsAtZero ==
    alive = "fpe" => \E s \in Indices : c.state[s].rand_range = 0 /\ s < Len(state_instances(plan))
Travelling == packet = Nowhere \/ packet \in [bucket : RssBuckets, at : Indices, early : BOOLEAN, gap : BOOLEAN]
Tables ==
    /\ c \in ConfigRec
    /\ \A a \in Indices : Complete(Instances, c.action[a])
    /\ \A s \in Indices : Bounded(c.state[s].hash_table)
Commanded ==
    /\ plan \in Plans
    /\ script \in Seq(Command(Instances)) /\ typed \in Seq(OperatorCommands)
DeploymentInv == Commanded /\ Tables /\ Travelling /\ alive \in {"up", "exit", "fpe"} /\ FaultsAtZero

(* Why the tables' ranges say what was written: the workers start when the *)
(* director is done, and until then nothing is in a table.                 *)
RunIsLast(sent) == \A x \in DOMAIN sent : sent[x].op = "worker run" => x = Len(sent)
BeforeRun ==
    /\ c.running => script = << >>
    /\ ~c.running =>
          packet = Nowhere /\ overrun = {} /\ \A s \in Indices : c.state[s].hash_table = {}
RangeTyped == \E i \in DOMAIN typed : typed[i].op = "data_state"
WithinRange ==
    ~RangeTyped =>
        /\ \A s \in Indices : c.state[s].hash_table \subseteq 0 .. c.state[s].rand_range - 1
        /\ \A s \in overrun : c.state[s].rand_range > Entries
RangeInv == RunIsLast(script) /\ BeforeRun /\ overrun \subseteq Indices /\ WithinRange

LEMMA ServeKeeps ==
    ASSUME NEW S, S \subseteq Indices, c \in ConfigRec, NEW m \in Command(S), Serve(m)
    PROVE  Served(S, c, m, c') /\ alive' \in {alive, "exit"}
<1>1. CASE m.op \in Simple /\ c' = cli_process(c, m) /\ UNCHANGED alive
  BY <1>1, EveryCommand
<1>2. CASE m.op = "port init" /\ c' \in port_init(c) /\ UNCHANGED alive
  <2>1. /\ c' \in ConfigRec /\ c'.state = c.state /\ c'.action = c.action
        /\ c'.running = c.running
    BY <1>2, PortInit
  <2> QED BY <1>2, <2>1 DEF Served
<1>3. CASE m.op = "rss" /\ config_rss /\ UNCHANGED c
  <2>1. alive' \in {alive, "exit"}
    BY <1>3 DEF config_rss
  <2> QED BY <1>3, <2>1 DEF Served
<1> QED BY <1>1, <1>2, <1>3 DEF Serve

(* A served command keeps the tables; it is served while all is up.        *)
LEMMA ServedTables ==
    ASSUME Tables, NEW m, Served(Instances, c, m, c'), UNCHANGED plan
    PROVE  Tables'
BY DEF Tables, Served, Instances

LEMMA DeploymentBegins == ASSUME CommandsFit, Init PROVE DeploymentInv
<1>1. plan \in Plans /\ c = config_init /\ typed = << >> /\ alive = "up" /\ packet = Nowhere
  BY DEF Init
<1>2. script \in Seq(Command(Instances))
  BY DEF Init, CommandsFit, Instances
<1>3. c \in ConfigRec
  BY <1>1, Initial
<1>4. \A a \in Indices : Complete(Instances, c.action[a])
  BY <1>1 DEF config_init, ZeroEntry, Complete
<1>5. \A s \in Indices : Bounded(c.state[s].hash_table)
  <2>1. \A s \in Indices : c.state[s].hash_table = {}
    BY <1>1 DEF config_init, state_init
  <2>2. Bounded({})
    BY FS_EmptySet, EntriesAssumption DEF Bounded
  <2> QED BY <2>1, <2>2
<1> QED BY <1>1, <1>2, <1>3, <1>4, <1>5
        DEF DeploymentInv, Commanded, Tables, Travelling, FaultsAtZero

LEMMA RangesBegin == ASSUME RunsLast, Init PROVE RangeInv
<1>1. RunIsLast(script)
  BY DEF Init, RunsLast, RunIsLast
<1>2. c = config_init /\ packet = Nowhere /\ overrun = {}
  BY DEF Init
<1>3. ~c.running /\ \A s \in Indices : c.state[s].hash_table = {}
  BY <1>2 DEF config_init, state_init
<1> QED BY <1>1, <1>2, <1>3 DEF RangeInv, BeforeRun, WithinRange

-------------------------------------------------------------------------------
(* A packet's function finds its state.                                    *)
LEMMA Found ==
    ASSUME CommandsFit, DeploymentInv, NEW f \in {"gd_classifier", "gd_control", "gd_data"}, Runs(f)
    PROVE  /\ alive = "up" /\ packet \in [bucket : RssBuckets, at : Indices, early : BOOLEAN, gap : BOOLEAN]
           /\ c \in ConfigRec /\ entry.state \in Instances /\ entry.state \in Indices
           /\ c.state[entry.state] \in StateRec
<1>1. alive = "up" /\ packet \in [bucket : RssBuckets, at : Indices, early : BOOLEAN, gap : BOOLEAN]
  BY DEF Runs, DeploymentInv, Travelling
<1>2. packet.at \in Indices /\ entry = c.action[packet.at]
  BY <1>1 DEF entry
<1>3. entry.function \notin {"none", "transmit_packet"}
  BY DEF Runs
<1>4. Complete(Instances, entry) /\ c \in ConfigRec
  BY <1>2 DEF DeploymentInv, Tables
<1>5. entry.state \in Instances
  BY <1>3, <1>4 DEF Complete
<1>6. Instances \subseteq Indices
  BY DEF CommandsFit, DeploymentInv, Commanded, Instances
<1>7. entry.state \in Indices
  BY <1>5, <1>6
<1>8. c.state[entry.state] \in StateRec
  BY <1>4, <1>7, ConfigParts
<1> QED BY <1>1, <1>4, <1>5, <1>7, <1>8

-------------------------------------------------------------------------------
(* The commands.                                                           *)
LEMMA DeploySteps ==
    ASSUME CommandsFit, DeploymentInv, Deploy
    PROVE  /\ DeploymentInv'
           /\ RunsLast /\ RangeInv => RangeInv'
<1>1. PICK m : m = Head(script)
  OBVIOUS
<1>2. /\ alive = "up" /\ script # << >> /\ Serve(m) /\ script' = Tail(script)
      /\ UNCHANGED <<plan, typed, packet, overrun>>
  BY <1>1 DEF Deploy, config
<1>3. plan \in Plans /\ script \in Seq(Command(Instances)) /\ typed \in Seq(OperatorCommands)
      /\ Instances \subseteq Indices /\ c \in ConfigRec
  BY DEF DeploymentInv, Commanded, Tables, CommandsFit, Instances
<1>4. m \in Command(Instances) /\ Tail(script) \in Seq(Command(Instances))
  BY <1>1, <1>2, <1>3
<1>5. Served(Instances, c, m, c') /\ alive' \in {alive, "exit"}
  BY <1>2, <1>3, <1>4, ServeKeeps
<1>6. Instances' = Instances
  BY <1>2 DEF Instances
<1>7. DeploymentInv'
  <2>1. Tables'
    BY <1>2, <1>5, ServedTables DEF DeploymentInv
  <2>2. Commanded'
    BY <1>2, <1>3, <1>4, <1>6 DEF Commanded
  <2>3. Travelling'
    BY <1>2 DEF DeploymentInv, Travelling
  <2>4. alive' \in {"up", "exit"}
    BY <1>2, <1>5
  <2> QED BY <2>1, <2>2, <2>3, <2>4 DEF DeploymentInv, FaultsAtZero
<1>8. ASSUME RangeInv PROVE RangeInv'
  <2>1. ~c.running /\ packet = Nowhere /\ overrun = {}
        /\ \A s \in Indices : c.state[s].hash_table = {}
    BY <1>2, <1>3, <1>8 DEF RangeInv, BeforeRun
  <2>2. \A s \in Indices : c'.state[s].hash_table = {}
    BY <1>5, <2>1 DEF Served
  <2>3. overrun' = {} /\ packet' = Nowhere
    BY <1>2, <2>1
  <2>4. /\ Tail(script) \in Seq(Command(Instances)) /\ Len(Tail(script)) = Len(script) - 1
        /\ \A x \in DOMAIN Tail(script) : x + 1 \in DOMAIN script /\ Tail(script)[x] = script[x + 1]
    BY <1>2, <1>3
  <2>5. RunIsLast(script')
    <3>1. RunIsLast(script)
      BY <1>8 DEF RangeInv
    <3>2. DOMAIN Tail(script) \subseteq Nat /\ Len(script) \in Nat
      BY <1>2, <1>3, <2>4
    <3>3. ASSUME NEW x \in DOMAIN Tail(script), Tail(script)[x].op = "worker run"
          PROVE  x = Len(Tail(script))
      <4>1. x + 1 \in DOMAIN script /\ script[x + 1].op = "worker run"
        BY <2>4, <3>3
      <4>2. x + 1 = Len(script)
        BY <3>1, <4>1 DEF RunIsLast
      <4>3. x \in Nat
        BY <3>2
      <4>4. PICK k \in Nat : k = Len(script)
        BY <3>2
      <4>5. Len(Tail(script)) = k - 1 /\ x + 1 = k
        BY <2>4, <4>2, <4>4
      <4> QED BY ONLY <4>3, <4>4, <4>5
    <3> QED BY <1>2, <3>3 DEF RunIsLast
  <2>6. m.op = "worker run" => script' = << >>
    <3>1. ASSUME m.op = "worker run"
          PROVE  Tail(script) = << >>
      <4>1. 1 \in DOMAIN script /\ script[1] = m
        BY <1>1, <1>2, <1>3
      <4>2. Len(script) = 1
        BY <1>8, <3>1, <4>1 DEF RangeInv, RunIsLast
      <4> QED BY <1>3, <2>4, <4>2
    <3> QED BY <1>2, <3>1
  <2>7. m.op # "worker run" => ~c'.running
    BY <1>5, <2>1 DEF Served
  <2>8. BeforeRun'
    BY <2>2, <2>3, <2>6, <2>7 DEF BeforeRun
  <2>9. WithinRange'
    BY <2>2, <2>3 DEF WithinRange
  <2> QED BY <2>3, <2>5, <2>8, <2>9 DEF RangeInv
<1> QED BY <1>7, <1>8

LEMMA TypeSteps ==
    ASSUME CommandsFit, DeploymentInv, Type
    PROVE  /\ DeploymentInv'
           /\ RunsLast /\ RangeInv => RangeInv'
<1>1. PICK m \in OperatorCommands : Serve(m) /\ typed' = Append(typed, m)
  BY DEF Type
<1>2. alive = "up" /\ UNCHANGED <<plan, script, packet, overrun>>
  BY DEF Type, config
<1>3. plan \in Plans /\ script \in Seq(Command(Instances)) /\ typed \in Seq(OperatorCommands)
      /\ Instances \subseteq Indices /\ c \in ConfigRec /\ m \in Command(Instances)
  BY DEF DeploymentInv, Commanded, Tables, CommandsFit, Instances
<1>4. Served(Instances, c, m, c') /\ alive' \in {alive, "exit"}
  BY <1>1, <1>3, ServeKeeps
<1>5. Instances' = Instances
  BY <1>2 DEF Instances
<1>6. DeploymentInv'
  <2>1. Tables'
    BY <1>2, <1>4, ServedTables DEF DeploymentInv
  <2>2. Commanded'
    BY <1>1, <1>2, <1>3, <1>5 DEF Commanded
  <2>3. Travelling'
    BY <1>2 DEF DeploymentInv, Travelling
  <2>4. alive' \in {"up", "exit"}
    BY <1>2, <1>4
  <2> QED BY <2>1, <2>2, <2>3, <2>4 DEF DeploymentInv, FaultsAtZero
<1>7. ASSUME RunsLast, RangeInv PROVE RangeInv'
  <2>1. m.op \notin {"state create", "worker run"}
    BY <1>7 DEF RunsLast
  <2>2. /\ c'.running = c.running
        /\ \A s \in Indices : c'.state[s].hash_table = c.state[s].hash_table
    BY <1>4, <2>1 DEF Served
  <2>3. BeforeRun'
    BY <1>2, <1>7, <2>2 DEF RangeInv, BeforeRun
  <2>4. WithinRange'
    <3>1. SUFFICES ASSUME ~RangeTyped'
                   PROVE  /\ \A s \in Indices : c'.state[s].hash_table \subseteq 0 .. c'.state[s].rand_range - 1
                          /\ \A s \in overrun' : c'.state[s].rand_range > Entries
      BY DEF WithinRange
    <3>2. /\ \A i \in DOMAIN typed : i \in DOMAIN typed' /\ typed'[i] = typed[i]
          /\ Len(typed) + 1 \in DOMAIN typed' /\ typed'[Len(typed) + 1] = m
      BY <1>1, <1>3
    <3>3. ~RangeTyped /\ m.op # "data_state"
      BY <3>1, <3>2 DEF RangeTyped
    <3>4. \A s \in Indices : c'.state[s].rand_range = c.state[s].rand_range
      BY <1>4, <2>1, <3>3 DEF Served
    <3>5. /\ \A s \in Indices : c.state[s].hash_table \subseteq 0 .. c.state[s].rand_range - 1
          /\ \A s \in overrun : c.state[s].rand_range > Entries
          /\ overrun \subseteq Indices
      BY <1>7, <3>3 DEF RangeInv, WithinRange
    <3> QED BY <1>2, <2>2, <3>4, <3>5
  <2> QED BY <1>2, <1>7, <2>3, <2>4 DEF RangeInv
<1> QED BY <1>6, <1>7

-------------------------------------------------------------------------------
(* A packet that comes, is parked or is sent changes no table.             *)
LEMMA PacketSteps ==
    ASSUME DeploymentInv,
           (\E b \in RssBuckets : Arrive(b)) \/ Park \/ transmit_packet \/ UNCHANGED vars
    PROVE  DeploymentInv' /\ (RangeInv => RangeInv')
<1>1. UNCHANGED <<c, plan, script, alive, typed, overrun>>
  BY DEF Arrive, Park, transmit_packet, vars, config
<1>2. Travelling' /\ (BeforeRun => BeforeRun')
  <2>1. ASSUME NEW b \in RssBuckets, Arrive(b)
        PROVE  Travelling' /\ (BeforeRun => BeforeRun')
    <3>1. PICK w \in Polling(b) :
             packet' = [bucket |-> b, at |-> c.buckets[w][b],
                        early |-> script # << >>, gap |-> FALSE]
      BY <2>1 DEF Arrive
    <3>2. w \in Cores
      BY ConfigAssumption DEF Polling
    <3>3. c.buckets[w][b] \in Indices
      BY <2>1, <3>2, ConfigParts DEF DeploymentInv, Tables
    <3>4. c.running
      BY <2>1 DEF Arrive
    <3> QED BY <1>1, <2>1, <3>1, <3>3, <3>4 DEF Travelling, BeforeRun
  <2>2. ASSUME Park \/ transmit_packet
        PROVE  Travelling' /\ (BeforeRun => BeforeRun')
    BY <1>1, <2>2 DEF Park, transmit_packet, Travelling, BeforeRun
  <2>3. ASSUME UNCHANGED vars
        PROVE  Travelling' /\ (BeforeRun => BeforeRun')
    BY <1>1, <2>3 DEF vars, DeploymentInv, Travelling, BeforeRun
  <2> QED BY <2>1, <2>2, <2>3
<1>3. Instances' = Instances
  BY <1>1 DEF Instances
<1>4. Tables' /\ Commanded' /\ FaultsAtZero'
  BY <1>1, <1>3 DEF DeploymentInv, Tables, Commanded, FaultsAtZero
<1>5. RangeInv => RangeInv'
  BY <1>1, <1>2 DEF RangeInv, RunIsLast, WithinRange, RangeTyped
<1> QED BY <1>1, <1>2, <1>4, <1>5 DEF DeploymentInv

-------------------------------------------------------------------------------
(* A function that writes one state of the tables keeps their shape.       *)
LEMMA OneWritten ==
    ASSUME DeploymentInv, NEW x \in Indices, NEW e \in StateRec,
           Bounded(e.hash_table), c' = [c EXCEPT !.state[x] = e], UNCHANGED <<plan, script, typed>>
    PROVE  /\ Tables' /\ Commanded' /\ Instances' = Instances
           /\ c'.running = c.running /\ c'.state[x] = e
           /\ \A s \in Indices : s # x => c'.state[s] = c.state[s]
<1>1. c \in ConfigRec /\ \A s \in Indices : Bounded(c.state[s].hash_table)
  BY DEF DeploymentInv, Tables
<1>2. /\ c' \in ConfigRec /\ c'.action = c.action /\ c'.running = c.running /\ c'.state[x] = e
      /\ \A s \in Indices : s # x => c'.state[s] = c.state[s]
  BY <1>1, PutState
<1>3. Instances' = Instances
  BY DEF Instances
<1>4. \A s \in Indices : Bounded(c'.state[s].hash_table)
  BY <1>1, <1>2
<1>5. \A a \in Indices : Complete(Instances, c'.action[a])
  BY <1>2 DEF DeploymentInv, Tables
<1>6. Tables'
  BY <1>2, <1>3, <1>4, <1>5 DEF Tables
<1>7. Commanded'
  BY <1>3 DEF DeploymentInv, Commanded
<1> QED BY <1>2, <1>3, <1>6, <1>7

LEMMA ClassifierSteps ==
    ASSUME CommandsFit, DeploymentInv, generic_decomposed_classifier
    PROVE  DeploymentInv' /\ (RangeInv => RangeInv')
<1> USE ConfigAssumption
<1>1. PICK x : x = entry.state
  OBVIOUS
<1>2. PICK s : s = c.state[x]
  OBVIOUS
<1>3. Runs("gd_classifier") /\ UNCHANGED <<plan, script, alive, typed, overrun>>
  BY DEF generic_decomposed_classifier, config
<1>4. /\ alive = "up" /\ packet \in [bucket : RssBuckets, at : Indices, early : BOOLEAN, gap : BOOLEAN]
      /\ c \in ConfigRec /\ x \in Indices /\ s \in StateRec
  BY <1>1, <1>2, <1>3, Found
<1>5. PICK n0 : n0 = ClassifierCounter(s.frequency, s.counter)
  OBVIOUS
<1>6. PICK e : e = [s EXCEPT !.counter = n0]
  OBVIOUS
<1>7. c' = [c EXCEPT !.state[x] = e]
  <2>1. c' = [c EXCEPT !.state[x].counter = n0]
    BY <1>1, <1>2, <1>5 DEF generic_decomposed_classifier
  <2> QED BY <1>2, <1>4, <1>6, <2>1, ConfigParts
<1>8. e \in StateRec /\ e.hash_table = s.hash_table /\ e.rand_range = s.rand_range
  <2>1. PICK f \in Int : f = s.frequency
    BY <1>4 DEF StateRec
  <2>2. PICK k \in Int : k = s.counter
    BY <1>4 DEF StateRec
  <2>3. n0 = ClassifierCounter(f, k)
    BY <1>5, <2>1, <2>2
  <2>4. f = 0 \/ (f > 0 /\ k = f) \/ (f > 0 /\ k # f) \/ (f < 0 /\ k = f) \/ (f < 0 /\ k # f)
    OBVIOUS
  <2>5. n0 \in Int
    BY <2>3, <2>4 DEF ClassifierCounter
  <2> QED BY <1>4, <1>6, <2>5 DEF StateRec
<1>9. Bounded(e.hash_table)
  BY <1>2, <1>4, <1>8 DEF DeploymentInv, Tables
<1>10. /\ Tables' /\ Commanded' /\ c'.running = c.running /\ c'.state[x] = e
       /\ \A y \in Indices : y # x => c'.state[y] = c.state[y]
  BY <1>3, <1>4, <1>7, <1>8, <1>9, OneWritten
<1>11. packet' \in [bucket : RssBuckets, at : Indices, early : BOOLEAN, gap : BOOLEAN]
  <2>1. PICK path : path = ClassifierPath(s.frequency, s.counter)
    OBVIOUS
  <2>2. path \in Local(MaximumPath)
    BY <2>1 DEF ClassifierPath, DataPath, ControlPath, Local
  <2>3. s.simple_path[path] \in Indices
    BY <1>4, <2>2 DEF StateRec
  <2>4. PICK g \in BOOLEAN : g = (packet.gap \/ ~Numbered(entry.function, path))
    OBVIOUS
  <2>5. packet' = [packet EXCEPT !.at = s.simple_path[path], !.gap = g]
    BY <1>1, <1>2, <1>4, <2>1, <2>4 DEF generic_decomposed_classifier
  <2> QED BY <1>4, <2>3, <2>5
<1>12. DeploymentInv'
  BY <1>3, <1>4, <1>10, <1>11 DEF DeploymentInv, Travelling, FaultsAtZero
<1>13. ASSUME RangeInv PROVE RangeInv'
  <2>1. \A y \in Indices : c'.state[y].hash_table = c.state[y].hash_table
                           /\ c'.state[y].rand_range = c.state[y].rand_range
    BY <1>2, <1>8, <1>10
  <2>2. packet # Nowhere
    BY <1>3 DEF Runs
  <2>3. c.running
    BY <1>4, <1>13, <2>2, ConfigParts DEF RangeInv, BeforeRun
  <2>4. BeforeRun'
    BY <1>3, <1>10, <1>13, <2>3 DEF RangeInv, BeforeRun
  <2>5. WithinRange'
    BY <1>3, <1>13, <2>1 DEF RangeInv, WithinRange, RangeTyped
  <2> QED BY <1>3, <1>13, <2>4, <2>5 DEF RangeInv, RunIsLast
<1> QED BY <1>12, <1>13

LEMMA AccessSteps ==
    ASSUME CommandsFit, DeploymentInv, NEW f \in {"gd_control", "gd_data"}, Runs(f),
           NEW path \in Local(MaximumPath), NEW Tested \in BOOLEAN, Access(path, Tested)
    PROVE  DeploymentInv' /\ (RangeInv => RangeInv')
<1>1. PICK x : x = entry.state
  OBVIOUS
<1>2. PICK s : s = c.state[x]
  OBVIOUS
<1>3. UNCHANGED <<plan, script, typed>>
  BY DEF Access, config
<1>4. /\ alive = "up" /\ packet \in [bucket : RssBuckets, at : Indices, early : BOOLEAN, gap : BOOLEAN]
      /\ c \in ConfigRec /\ x \in Instances /\ x \in Indices /\ s \in StateRec
      /\ Bounded(s.hash_table) /\ packet # Nowhere
  <2>1. Bounded(c.state[x].hash_table)
    BY <1>1, Found DEF DeploymentInv, Tables
  <2> QED BY <1>1, <1>2, <2>1, Found DEF Runs
<1>5. CASE s.rand_range = 0
  <2>1. alive' = "fpe" /\ UNCHANGED <<c, packet, overrun>>
    BY <1>1, <1>2, <1>5 DEF Access
  <2>2. x < Len(state_instances(plan))
    <3>1. PICK y \in 0 .. Len(state_instances(plan)) - 1 : y = x
      BY <1>4 DEF Instances, States
    <3>2. plan \in Plans
      BY DEF DeploymentInv, Commanded
    <3> QED BY <3>1
  <2>3. FaultsAtZero'
    BY <1>2, <1>3, <1>4, <1>5, <2>1, <2>2 DEF FaultsAtZero
  <2>4. Instances' = Instances
    BY <1>3 DEF Instances
  <2>5. Tables' /\ Commanded' /\ Travelling'
    BY <1>3, <2>1, <2>4 DEF DeploymentInv, Tables, Commanded, Travelling
  <2>6. RangeInv => RangeInv'
    BY <1>3, <2>1 DEF RangeInv, RunIsLast, BeforeRun, WithinRange, RangeTyped
  <2> QED BY <2>1, <2>3, <2>5, <2>6 DEF DeploymentInv
<1>6. CASE s.rand_range # 0
  <2>1. PICK key : key = (s.key + 1) % s.rand_range
    OBVIOUS
  <2>2. PICK h : h = IF Full(s, key) THEN s.hash_table ELSE s.hash_table \union {key}
    OBVIOUS
  <2>3. PICK e : e = [s EXCEPT !.key = key, !.hash_table = h]
    OBVIOUS
  <2>4. /\ key \in 0 .. s.rand_range - 1 /\ h \in SUBSET Nat /\ Bounded(h)
        /\ s.hash_table \subseteq 0 .. s.rand_range - 1 =>
              /\ h \subseteq 0 .. s.rand_range - 1
              /\ Full(s, key) => s.rand_range > Entries
    <3>1. s \in StateRec /\ s.rand_range # 0 /\ Bounded(s.hash_table)
      BY <1>4, <1>6
    <3> QED BY ONLY <3>1, <2>1, <2>2, TableAccess
  <2>5. key \in Nat
    <3>1. PICK range \in Nat : range = s.rand_range
      BY <1>4 DEF StateRec
    <3>2. key \in 0 .. range - 1
      BY <2>4, <3>1
    <3> QED BY ONLY <3>1, <3>2
  <2>6. e \in StateRec /\ e.hash_table = h /\ e.rand_range = s.rand_range
    <3>1. PICK s1 : s1 = [s EXCEPT !.key = key]
      OBVIOUS
    <3>2. s1 \in StateRec /\ s1.rand_range = s.rand_range
      BY <1>4, <2>5, <3>1 DEF StateRec
    <3>3. e = [s1 EXCEPT !.hash_table = h]
      BY ONLY <2>3, <3>1
    <3> QED BY <2>4, <3>2, <3>3 DEF StateRec
  <2>7. /\ c' = [c EXCEPT !.state[x].key = key,
                          !.state[x].hash_table = IF Full(s, key) THEN @ ELSE @ \union {key}]
        /\ overrun' = IF Full(s, key) /\ ~Tested THEN overrun \union {x} ELSE overrun
        /\ packet' = [packet EXCEPT !.at = s.simple_path[path],
                                    !.gap = @ \/ ~Numbered(entry.function, path)]
        /\ UNCHANGED alive
    BY <1>1, <1>2, <1>6, <2>1 DEF Access
  <2>8. c' = [c EXCEPT !.state[x] = e]
    <3>1. PICK c1 : c1 = [c EXCEPT !.state[x].key = key]
      OBVIOUS
    <3>2. c1 = [c EXCEPT !.state[x] = [s EXCEPT !.key = key]]
      BY <1>2, <1>4, <3>1, ConfigParts
    <3>3. PICK s1 : s1 = [s EXCEPT !.key = key]
      OBVIOUS
    <3>4. s1 \in StateRec /\ s1.hash_table = s.hash_table
      BY <1>4, <2>5, <3>3 DEF StateRec
    <3>5. c1 \in ConfigRec /\ c1.state[x] = s1
      BY <1>4, <3>2, <3>3, <3>4, PutState
    <3>6. c' = [c1 EXCEPT !.state[x].hash_table = IF Full(s, key) THEN @ ELSE @ \union {key}]
      BY <2>7, <3>1
    <3>7. c' = [c1 EXCEPT !.state[x] = [s1 EXCEPT !.hash_table = h]]
      BY <1>4, <2>2, <3>4, <3>5, <3>6, ConfigParts
    <3>8. e = [s1 EXCEPT !.hash_table = h]
      BY <2>3, <3>3
    <3> QED BY <1>4, <3>2, <3>3, <3>7, <3>8, ConfigParts
  <2>9. /\ Tables' /\ Commanded' /\ c'.running = c.running /\ c'.state[x] = e
        /\ \A y \in Indices : y # x => c'.state[y] = c.state[y]
    BY <1>3, <1>4, <2>4, <2>6, <2>8, OneWritten
  <2>10. packet' \in [bucket : RssBuckets, at : Indices, early : BOOLEAN, gap : BOOLEAN]
    <3>1. s.simple_path[path] \in Indices
      BY <1>4 DEF StateRec
    <3>2. PICK b \in BOOLEAN : b = (packet.gap \/ ~Numbered(entry.function, path))
      OBVIOUS
    <3>3. packet' = [packet EXCEPT !.at = s.simple_path[path], !.gap = b]
      BY <1>4, <2>7, <3>2
    <3> QED BY <1>4, <3>1, <3>3
  <2>11. DeploymentInv'
    BY <1>4, <2>7, <2>9, <2>10 DEF DeploymentInv, Travelling, FaultsAtZero
  <2>12. ASSUME RangeInv PROVE RangeInv'
    <3>1. c.running
      BY <1>4, <2>12, ConfigParts DEF RangeInv, BeforeRun
    <3>2. BeforeRun'
      BY <1>3, <2>9, <2>12, <3>1 DEF RangeInv, BeforeRun
    <3>3. overrun' \subseteq Indices
      BY <1>4, <2>7, <2>12 DEF RangeInv
    <3>4. \A y \in Indices : c'.state[y].rand_range = c.state[y].rand_range
      BY <1>2, <2>6, <2>9
    <3>5. ASSUME ~RangeTyped
          PROVE  /\ \A y \in Indices : c'.state[y].hash_table \subseteq 0 .. c'.state[y].rand_range - 1
                 /\ \A y \in overrun' : c'.state[y].rand_range > Entries
      <4>1. /\ \A y \in Indices : c.state[y].hash_table \subseteq 0 .. c.state[y].rand_range - 1
            /\ \A y \in overrun : c.state[y].rand_range > Entries
        BY <2>12, <3>5 DEF RangeInv, WithinRange
      <4>2. s.hash_table \subseteq 0 .. s.rand_range - 1
        BY <1>2, <1>4, <4>1
      <4>3. h \subseteq 0 .. s.rand_range - 1 /\ (Full(s, key) => s.rand_range > Entries)
        BY <2>4, <4>2
      <4>4. \A y \in overrun' : y \in overrun \/ (y = x /\ Full(s, key))
        BY <2>7
      <4>5. ASSUME NEW y \in overrun'
            PROVE  c'.state[y].rand_range > Entries
        BY <1>2, <1>4, <3>3, <3>4, <4>1, <4>3, <4>4
      <4>6. ASSUME NEW y \in Indices
            PROVE  c'.state[y].hash_table \subseteq 0 .. c'.state[y].rand_range - 1
        BY <2>6, <2>9, <4>1, <4>3
      <4> QED BY <4>5, <4>6
    <3>6. WithinRange'
      BY <1>3, <3>5 DEF WithinRange, RangeTyped
    <3>7. RunIsLast(script')
      BY <1>3, <2>12 DEF RangeInv
    <3> QED BY <3>2, <3>3, <3>6, <3>7 DEF RangeInv
  <2> QED BY <2>11, <2>12
<1> QED BY <1>5, <1>6

(* Every step.                                                             *)
LEMMA EveryStep ==
    ASSUME CommandsFit, DeploymentInv, [Next]_vars
    PROVE  DeploymentInv' /\ (RunsLast /\ RangeInv => RangeInv')
<1>1. CASE Deploy
  BY <1>1, DeploySteps
<1>2. CASE Type
  BY <1>2, TypeSteps
<1>3. CASE (\E b \in RssBuckets : Arrive(b)) \/ Park \/ transmit_packet \/ UNCHANGED vars
  BY <1>3, PacketSteps
<1>4. CASE generic_decomposed_classifier
  BY <1>4, ClassifierSteps
<1>5. DataPath \in Local(MaximumPath) /\ OutPath \in Local(MaximumPath)
  BY ConfigAssumption DEF DataPath, OutPath, Local
<1>6. CASE generic_decomposed_control_action
  BY <1>5, <1>6, AccessSteps DEF generic_decomposed_control_action
<1>7. CASE generic_decomposed_data_action
  BY <1>5, <1>7, AccessSteps DEF generic_decomposed_data_action
<1> QED BY <1>1, <1>2, <1>3, <1>4, <1>6, <1>7 DEF Next, Forward

-------------------------------------------------------------------------------
LEMMA InvHolds == ASSUME CommandsFit PROVE Spec => []DeploymentInv
<1>1. Init => DeploymentInv
  BY DeploymentBegins
<1>2. DeploymentInv /\ [Next]_vars => DeploymentInv'
  BY EveryStep
<1> QED BY <1>1, <1>2, PTL DEF Spec

(* The tables keep their shape: for every command of the director and of   *)
(* the operator that names what there is, the handlers of cli.c and the    *)
(* functions that walk the tables leave every next entry, core and number  *)
(* in range, and no hash table above its size.                             *)
THEOREM ShapeKept == ASSUME CommandsFit PROVE Spec => []DeploymentTypeOK
<1>1. DeploymentInv => DeploymentTypeOK
  <2>1. SUFFICES ASSUME DeploymentInv PROVE DeploymentTypeOK
    OBVIOUS
  <2>2. c \in ConfigRec /\ \A s \in Indices : Bounded(c.state[s].hash_table)
    BY <2>1 DEF DeploymentInv, Tables
  <2>3. ASSUME NEW a \in Indices PROVE c.action[a].core \in Cores
    BY <2>2, ConfigParts DEF EntryRec
  <2>4. ASSUME NEW s \in Indices
        PROVE  /\ c.state[s].simple_path \in [Local(MaximumPath) -> Indices]
               /\ c.state[s].rand_range \in Nat
               /\ Cardinality(c.state[s].hash_table) <= Entries
    BY <2>2, ConfigParts DEF StateRec, Bounded
  <2>5. packet = Nowhere \/ packet.at \in Indices
    BY <2>1 DEF DeploymentInv, Travelling
  <2> QED BY <2>1, <2>2, <2>3, <2>4, <2>5, ConfigParts DEF DeploymentTypeOK, DeploymentInv
<1> QED BY <1>1, InvHolds, PTL

(* The process divides by 0 only with a state of the plan that was given   *)
(* no range, and a value is written outside its array only with a range    *)
(* above the entries of the table or after an operator changed one: when   *)
(* the workers are started last and no state is created after.             *)
THEOREM FaultsFromRanges == ASSUME CommandsFit, RunsLast PROVE Spec => []FaultNeedsRange
<1>1. Init => DeploymentInv /\ RangeInv
  BY DeploymentBegins, RangesBegin
<1>2. (DeploymentInv /\ RangeInv) /\ [Next]_vars => (DeploymentInv /\ RangeInv)'
  BY EveryStep
<1>3. DeploymentInv /\ RangeInv => FaultNeedsRange
  BY DEF DeploymentInv, FaultsAtZero, RangeInv, WithinRange, RangeTyped, FaultNeedsRange
<1> QED BY <1>1, <1>2, <1>3, PTL DEF Spec

-------------------------------------------------------------------------------
(* A multiple of a positive number that is above minus that number.        *)
LEMMA Multiple ==
    ASSUME NEW k \in Nat \ {0}, NEW x \in Int
    PROVE  /\ k * x > -k => x >= 0
           /\ k * x > 0 => x >= 1
<1>1. CASE x >= 1
  BY <1>1
<1>2. CASE x = 0
  <2>1. k * x = 0
    BY <1>2
  <2> QED BY <1>2, <2>1
<1>3. CASE x <= -1
  <2>1. PICK y \in Nat : x = -1 - y
    BY <1>3
  <2>2. PICK z \in Nat : z = k * y
    BY <2>1
  <2>3. k * x = -k - z
    BY <2>1, <2>2
  <2> QED BY <1>3, <2>2, <2>3
<1> QED BY <1>1, <1>2, <1>3

(* The bucket after i shares of size / k is one quotient at least before   *)
(* the one after j, and more where j shares are whole and one is not.      *)
LEMMA Quotients ==
    ASSUME NEW size \in Nat, NEW k \in Nat \ {0}, NEW i \in Nat, NEW j \in Nat, i < j
    PROVE  /\ (i * size) \div k \in Nat /\ (j * size) \div k \in Nat /\ size \div k \in Nat
           /\ (i * size) \div k + size \div k <= (j * size) \div k
           /\ size % k # 0 /\ (j * size) % k = 0 =>
                 (i * size) \div k + size \div k <= (j * size) \div k - 1
<1>1. PICK x \in Nat : x = i * size
  OBVIOUS
<1>2. PICK y \in Nat : y = j * size
  OBVIOUS
<1>3. y >= x + size
  <2>1. PICK d \in Nat : j = i + 1 + d
    <3>1. j - i - 1 \in Nat /\ j = i + 1 + (j - i - 1)
      OBVIOUS
    <3> QED BY <3>1
  <2>2. PICK z \in Nat : z = d * size
    BY <2>1
  <2>3. y = x + size + z
    BY <1>1, <1>2, <2>1, <2>2
  <2> QED BY <1>1, <1>2, <2>2, <2>3
<1>4. PICK a \in Nat, ra \in 0 .. k - 1 : a = x \div k /\ ra = (x % k) /\ x = k * a + ra
  BY <1>1, Division
<1>5. PICK b \in Nat, rb \in 0 .. k - 1 : b = y \div k /\ rb = (y % k) /\ y = k * b + rb
  BY <1>2, Division
<1>6. PICK q \in Nat, r \in 0 .. k - 1 : q = size \div k /\ r = (size % k) /\ size = k * q + r
  BY Division
<1>7. PICK e \in Int : e = b - a - q
  BY <1>4, <1>5, <1>6
<1>8. PICK ka \in Int, kb \in Int, kq \in Int, ke \in Int :
          ka = k * a /\ kb = k * b /\ kq = k * q /\ ke = k * e
  <2>1. k * a \in Int /\ k * b \in Int /\ k * q \in Int
    BY <1>4, <1>5, <1>6
  <2>2. k * e \in Int
    BY <1>7
  <2> QED BY <2>1, <2>2
<1>9. ke = kb - ka - kq
  BY <1>4, <1>5, <1>6, <1>7, <1>8
<1>10. ke >= ra + r - rb
  BY <1>3, <1>4, <1>5, <1>6, <1>8, <1>9
<1>11. ke > -k /\ (r # 0 /\ rb = 0 => ke > 0)
  BY <1>4, <1>5, <1>6, <1>8, <1>10
<1>12. e >= 0 /\ (r # 0 /\ rb = 0 => e >= 1)
  BY <1>7, <1>8, <1>11, Multiple
<1>13. a + q <= b /\ (r # 0 /\ rb = 0 => a + q <= b - 1)
  BY ONLY <1>12, <1>7, <1>4, <1>5, <1>6
<1> QED BY <1>1, <1>2, <1>4, <1>5, <1>6, <1>13

(* The shares follow each other among the buckets, whatever the rounding.  *)
LEMMA StartFacts ==
    ASSUME NEW k \in Nat \ {0}, NEW s \in Starts(k)
    PROVE  /\ NumBuckets(k) \in Nat
           /\ \A i \in 0 .. k - 1 : s[i] \in Nat /\ s[i] + NumBuckets(k) <= NBuckets
           /\ \A i, j \in 0 .. k - 1 : i < j => s[i] + NumBuckets(k) <= s[j]
<1> USE BucketsAssumption
<1>1. PICK q \in Nat : q = NBuckets \div k
  BY Division
<1>2. \A i \in 0 .. k - 1 : i \in Nat /\ s[i] \in Nat
  BY DEF Starts
<1>3. ASSUME NEW i \in 0 .. k - 1
      PROVE  /\ s[i] <= (i * NBuckets) \div k
             /\ \/ s[i] = (i * NBuckets) \div k
                \/ /\ NBuckets % k # 0 /\ (i * NBuckets) % k = 0
                   /\ s[i] = (i * NBuckets) \div k - 1
  <2>1. (i * NBuckets) \div k \in Nat
    <3>1. i * NBuckets \in Nat
      OBVIOUS
    <3> QED BY <3>1, Division
  <2>2. \/ s[i] = (i * NBuckets) \div k
        \/ /\ NBuckets % k # 0 /\ (i * NBuckets) % k = 0
           /\ s[i] = (i * NBuckets) \div k - 1
    BY DEF Starts
  <2> QED BY <2>1, <2>2
<1>4. ASSUME NEW i \in 0 .. k - 1, NEW j \in 0 .. k - 1, i < j PROVE s[i] + q <= s[j]
  <2>1. /\ (i * NBuckets) \div k \in Nat /\ (j * NBuckets) \div k \in Nat
        /\ (i * NBuckets) \div k + q <= (j * NBuckets) \div k
        /\ NBuckets % k # 0 /\ (j * NBuckets) % k = 0 =>
                 (i * NBuckets) \div k + q <= (j * NBuckets) \div k - 1
    BY <1>1, <1>4, Quotients
  <2>2. PICK a \in Nat, b \in Nat : a = (i * NBuckets) \div k /\ b = (j * NBuckets) \div k
    BY <2>1
  <2>3. s[i] <= a /\ a + q <= b /\ (s[j] = b \/ (s[j] = b - 1 /\ a + q <= b - 1))
    BY <1>3, <2>1, <2>2
  <2>4. PICK x \in Nat, y \in Nat : x = s[i] /\ y = s[j]
    BY <1>2
  <2> QED BY <1>1, <2>2, <2>3, <2>4
<1>5. ASSUME NEW i \in 0 .. k - 1 PROVE s[i] + q <= NBuckets
  <2>1. /\ (i * NBuckets) \div k \in Nat /\ (k * NBuckets) \div k \in Nat
        /\ (i * NBuckets) \div k + q <= (k * NBuckets) \div k
    BY <1>1, Quotients
  <2>2. PICK a \in Nat, b \in Nat : a = (i * NBuckets) \div k /\ b = (k * NBuckets) \div k
    BY <2>1
  <2>3. PICK x \in Nat : x = k * NBuckets
    OBVIOUS
  <2>4. PICK r \in 0 .. k - 1 : x = k * b + r
    BY <2>2, <2>3, Division
  <2>5. PICK e \in Int : e = b - NBuckets
    BY <2>2
  <2>6. PICK kb \in Int, ke \in Int : kb = k * b /\ ke = k * (NBuckets - b)
    BY <2>2
  <2>7. ke = x - kb /\ ke = r
    BY <2>2, <2>3, <2>4, <2>6
  <2>8. k * (b - NBuckets) = -ke
    BY <2>2, <2>6
  <2>9. k * (NBuckets - b) < k
    BY <2>4, <2>6, <2>7
  <2>10. ~(b > NBuckets)
    <3>1. SUFFICES ASSUME b > NBuckets PROVE FALSE
      OBVIOUS
    <3>2. PICK y \in Nat : b = NBuckets + 1 + y
      <4>1. b - NBuckets - 1 \in Nat /\ b = NBuckets + 1 + (b - NBuckets - 1)
        BY <2>2, <3>1
      <4> QED BY <4>1
    <3>3. PICK ky \in Nat : ky = k * y
      BY <3>2
    <3>4. ke = -k - ky
      BY <2>2, <2>6, <3>2, <3>3
    <3> QED BY <2>4, <2>7, <3>3, <3>4
  <2>11. s[i] <= a /\ a + q <= b
    BY <1>3, <2>1, <2>2
  <2>12. PICK z \in Nat : z = s[i]
    BY <1>2
  <2> QED BY <1>1, <2>2, <2>10, <2>11, <2>12
<1> QED BY <1>1, <1>2, <1>4, <1>5 DEF NumBuckets

(* list.index finds a member.                                              *)
LEMMA IndexFinds ==
    ASSUME NEW L, NEW list \in Seq(L), NEW x \in ToSet(list)
    PROVE  /\ Index(list, x) \in Nat /\ Index(list, x) + 1 \in DOMAIN list
           /\ list[Index(list, x) + 1] = x
<1>1. \E i \in DOMAIN list : list[i] = x
  BY DEF ToSet
<1>2. PICK i \in DOMAIN list : i = (CHOOSE k \in DOMAIN list : list[k] = x) /\ list[i] = x
  BY <1>1
<1>3. i \in Nat \ {0} /\ Index(list, x) = i - 1
  BY <1>2 DEF Index
<1> QED BY <1>2, <1>3

(* Two members at one index are one.                                       *)
LEMMA IndexTells ==
    ASSUME NEW L, NEW list \in Seq(L), NEW x \in ToSet(list), NEW y \in ToSet(list),
           Index(list, x) = Index(list, y)
    PROVE  x = y
BY IndexFinds

(* The instances of the actions and of the states under plan p.            *)
Actions == ToSet(ActionList)
Members(p) == {x \in [action : Actions, id : Nat] : x.id < p[x.action]}
StateMembers(p) == {x \in [state : ToSet(StateList), id : Nat] : x.id < p[FirstAction(x.state)]}

(* instances of the model: action by action, those that the plan asks for. *)
LEMMA ActionInstances ==
    ASSUME NEW p \in [Actions -> Nat]
    PROVE  action_instances(p) \in Seq(Members(p)) /\ ToSet(action_instances(p)) = Members(p)
<1>1. PICK g : g = [a \in Actions |-> [j \in 1 .. p[a] |-> [action |-> a, id |-> j - 1]]]
  OBVIOUS
<1>2. ActionList \in Seq(STRING) /\ \A i \in DOMAIN ActionList : ActionList[i] \in Actions
  BY ListsAssumption DEF ToSet, Actions
<1>3. PICK parts : parts = [i \in DOMAIN ActionList |-> g[ActionList[i]]]
  OBVIOUS
<1>4. parts = [x \in DOMAIN ActionList |->
                  [j \in 1 .. p[ActionList[x]] |-> [action |-> ActionList[x], id |-> j - 1]]]
  BY <1>1, <1>2, <1>3
<1>5. action_instances(p) = FlattenSeq(parts)
  BY <1>4 DEF action_instances
<1>6. ASSUME NEW a \in Actions
      PROVE  /\ g[a] \in Seq(Members(p))
             /\ \A y : y \in ToSet(g[a]) <=> y \in Members(p) /\ y.action = a
  <2>1. PICK k \in Nat : k = p[a]
    OBVIOUS
  <2>2. g[a] = [j \in 1 .. k |-> [action |-> a, id |-> j - 1]]
    BY <1>1, <2>1
  <2>3. ASSUME NEW j \in 1 .. k PROVE g[a][j] \in Members(p) /\ g[a][j].action = a
    BY <2>1, <2>2 DEF Members
  <2>4. g[a] \in Seq(Members(p))
    BY <2>2, <2>3
  <2>5. ASSUME NEW y \in Members(p), y.action = a PROVE y \in ToSet(g[a])
    <3>1. PICK d \in Nat : d = y.id /\ d < k
      BY <2>1, <2>5 DEF Members
    <3>2. y = [action |-> a, id |-> d]
      BY <2>5, <3>1 DEF Members
    <3>3. d + 1 \in 1 .. k /\ (d + 1) - 1 = d
      BY <3>1
    <3>4. g[a][d + 1] = y /\ d + 1 \in DOMAIN g[a]
      BY <2>2, <3>2, <3>3
    <3> QED BY <3>4 DEF ToSet
  <2>6. ASSUME NEW y \in ToSet(g[a]) PROVE y \in Members(p) /\ y.action = a
    BY <2>2, <2>3 DEF ToSet
  <2> QED BY <2>4, <2>5, <2>6
<1>7. /\ FlattenSeq(parts) \in Seq(Members(p))
      /\ \A y : y \in ToSet(FlattenSeq(parts)) <=> \E a \in ToSet(ActionList) : y \in ToSet(g[a])
  <2>1. \A a \in ToSet(ActionList) : g[a] \in Seq(Members(p))
    BY <1>6 DEF Actions
  <2> QED BY ONLY <1>2, <1>3, <2>1, ForEachFacts
<1>8. ASSUME NEW y PROVE y \in ToSet(FlattenSeq(parts)) <=> y \in Members(p)
  <2>1. ASSUME y \in Members(p) PROVE y.action \in Actions
    BY <2>1 DEF Members
  <2> QED BY <1>6, <1>7, <2>1 DEF Actions
<1> QED BY <1>5, <1>7, <1>8

(* And the states, as many of each as its first action has instances.      *)
LEMMA StateInstances ==
    ASSUME NEW p \in [Actions -> Nat], \A s \in ToSet(StateList) : FirstAction(s) \in Actions
    PROVE  state_instances(p) \in Seq(StateMembers(p)) /\ ToSet(state_instances(p)) = StateMembers(p)
<1>1. PICK g : g = [s \in ToSet(StateList) |-> [j \in 1 .. p[FirstAction(s)] |-> [state |-> s, id |-> j - 1]]]
  OBVIOUS
<1>2. StateList \in Seq(STRING) /\ \A i \in DOMAIN StateList : StateList[i] \in ToSet(StateList)
  BY ListsAssumption DEF ToSet
<1>3. PICK parts : parts = [i \in DOMAIN StateList |-> g[StateList[i]]]
  OBVIOUS
<1>4. parts = [x \in DOMAIN StateList |->
                  [j \in 1 .. p[FirstAction(StateList[x])] |-> [state |-> StateList[x], id |-> j - 1]]]
  BY <1>1, <1>2, <1>3
<1>5. state_instances(p) = FlattenSeq(parts)
  BY <1>4 DEF state_instances
<1>6. ASSUME NEW a \in ToSet(StateList)
      PROVE  /\ g[a] \in Seq(StateMembers(p))
             /\ \A y : y \in ToSet(g[a]) <=> y \in StateMembers(p) /\ y.state = a
  <2>1. PICK k \in Nat : k = p[FirstAction(a)]
    OBVIOUS
  <2>2. g[a] = [j \in 1 .. k |-> [state |-> a, id |-> j - 1]]
    BY <1>1, <2>1
  <2>3. ASSUME NEW j \in 1 .. k PROVE g[a][j] \in StateMembers(p) /\ g[a][j].state = a
    BY <2>1, <2>2 DEF StateMembers
  <2>4. g[a] \in Seq(StateMembers(p))
    BY <2>2, <2>3
  <2>5. ASSUME NEW y \in StateMembers(p), y.state = a PROVE y \in ToSet(g[a])
    <3>1. PICK d \in Nat : d = y.id /\ d < k
      BY <2>1, <2>5 DEF StateMembers
    <3>2. y = [state |-> a, id |-> d]
      BY <2>5, <3>1 DEF StateMembers
    <3>3. d + 1 \in 1 .. k /\ (d + 1) - 1 = d
      BY <3>1
    <3>4. g[a][d + 1] = y /\ d + 1 \in DOMAIN g[a]
      BY <2>2, <3>2, <3>3
    <3> QED BY <3>4 DEF ToSet
  <2>6. ASSUME NEW y \in ToSet(g[a]) PROVE y \in StateMembers(p) /\ y.state = a
    BY <2>2, <2>3 DEF ToSet
  <2> QED BY <2>4, <2>5, <2>6
<1>7. /\ FlattenSeq(parts) \in Seq(StateMembers(p))
      /\ \A y : y \in ToSet(FlattenSeq(parts)) <=> \E a \in ToSet(StateList) : y \in ToSet(g[a])
  <2>1. \A a \in ToSet(StateList) : g[a] \in Seq(StateMembers(p))
    BY <1>6
  <2> QED BY ONLY <1>2, <1>3, <2>1, ForEachFacts
<1>8. ASSUME NEW y PROVE y \in ToSet(FlattenSeq(parts)) <=> y \in StateMembers(p)
  <2>1. ASSUME y \in StateMembers(p) PROVE y.state \in ToSet(StateList)
    BY <2>1 DEF StateMembers
  <2> QED BY <1>6, <1>7, <2>1
<1> QED BY <1>5, <1>7, <1>8
-------------------------------------------------------------------------------
(* The commands of the script that place something.                        *)
SentReta(p, s, m) == \E i \in 0 .. p["packet_in"] - 1 : m = RetaCommand(p, s, i)
SentCreate(p, m) == \E a \in Members(p) : a.action \notin Bare /\ m = CreateCommand(p, a)
SentOut(p, m) == \E a \in Members(p) : a.action = "packet_out" /\ m = OutCommand(p, a)
SentFirst(p, s, m) ==
    \E a, b \in Members(p) : a.action = "packet_in" /\ Wired(p, a, b) /\ m = FirstCommand(p, s, a, b)
SentPath(p, m) ==
    \E a, b \in Members(p) : a.action # "packet_in" /\ Wired(p, a, b) /\ m = PathCommand(p, a, b)
IsSent(p, s, m) ==
    SentReta(p, s, m) \/ SentCreate(p, m) \/ SentOut(p, m) \/ SentFirst(p, s, m) \/ SentPath(p, m)

(* Each kind of placing command, loop by loop: the creates,                *)
LEMMA CreatesAre ==
    ASSUME NEW p \in [Actions -> Nat], \A s \in ToSet(StateList) : FirstAction(s) \in Actions
    PROVE  \E T : /\ Creates(p) \in Seq(T)
                  /\ \A m : m \in ToSet(Creates(p)) <=>
                        \/ \E i \in DOMAIN state_instances(p) : m = [op |-> "state create", state |-> i - 1]
                        \/ \E a \in Members(p) : a.action \notin Bare /\ m = CreateCommand(p, a)
                        \/ \E a \in Members(p) : a.action = "packet_out" /\ m = OutCommand(p, a)
<1>1. PICK list \in Seq(Members(p)) : list = action_instances(p) /\ ToSet(list) = Members(p)
  BY ActionInstances
<1>2. PICK states : states = [i \in DOMAIN state_instances(p) |-> [op |-> "state create", state |-> i - 1]]
  OBVIOUS
<1>3. PICK k \in Nat : DOMAIN state_instances(p) = 1 .. k
  <2>1. state_instances(p) \in Seq(StateMembers(p))
    BY StateInstances
  <2> QED BY <2>1
<1>4. PICK A : A = {[op |-> "state create", state |-> i - 1] : i \in 1 .. k}
  OBVIOUS
<1>5. states \in Seq(A) /\ \A m : m \in ToSet(states) <=>
          \E i \in DOMAIN state_instances(p) : m = [op |-> "state create", state |-> i - 1]
  <2>1. states = [i \in 1 .. k |-> [op |-> "state create", state |-> i - 1]]
    BY <1>2, <1>3
  <2>2. \A i \in 1 .. k : states[i] \in A
    BY <1>4, <2>1
  <2>3. states \in Seq(A)
    <3>1. states = [i \in 1 .. k |-> states[i]] /\ k \in Nat
      BY <2>1
    <3> QED BY ONLY <3>1, <2>2
  <2>4. \A m : m \in ToSet(states) <=> \E i \in 1 .. k : m = [op |-> "state create", state |-> i - 1]
    BY <2>1 DEF ToSet
  <2> QED BY <1>3, <2>3, <2>4
<1>6. PICK g : g = [a \in Members(p) |->
                      CASE a.action \notin Bare -> << CreateCommand(p, a) >>
                        [] a.action = "packet_out" -> << OutCommand(p, a) >>
                        [] OTHER -> << >>]
  OBVIOUS
<1>7. PICK B : B = {CreateCommand(p, a) : a \in Members(p)} \union {OutCommand(p, a) : a \in Members(p)}
  OBVIOUS
<1>8. ASSUME NEW a \in Members(p)
      PROVE  /\ g[a] \in Seq(B)
             /\ \A m : m \in ToSet(g[a]) <=>
                   \/ a.action \notin Bare /\ m = CreateCommand(p, a)
                   \/ a.action = "packet_out" /\ m = OutCommand(p, a)
  <2>1. "packet_out" \in Bare
    BY DEF Bare
  <2>2. CASE a.action \notin Bare
    <3>1. g[a] = << CreateCommand(p, a) >>
      BY <1>6, <2>1, <2>2
    <3> QED BY <1>7, <2>1, <2>2, <3>1 DEF ToSet
  <2>3. CASE a.action = "packet_out"
    <3>1. g[a] = << OutCommand(p, a) >>
      BY <1>6, <2>1, <2>3
    <3> QED BY <1>7, <2>1, <2>3, <3>1 DEF ToSet
  <2>4. CASE a.action \in Bare /\ a.action # "packet_out"
    <3>1. g[a] = << >>
      BY <1>6, <2>4
    <3> QED BY <2>4, <3>1 DEF ToSet
  <2> QED BY <2>2, <2>3, <2>4
<1>9. PICK parts : parts = [i \in DOMAIN list |-> g[list[i]]]
  OBVIOUS
<1>10. FlattenSeq(parts) \in Seq(B)
       /\ \A m : m \in ToSet(FlattenSeq(parts)) <=> \E a \in ToSet(list) : m \in ToSet(g[a])
  <2>1. list \in Seq(Members(p)) /\ \A a \in ToSet(list) : g[a] \in Seq(B)
    BY <1>1, <1>8
  <2> QED BY ONLY <1>9, <2>1, ForEachFacts
<1>11. Creates(p) = states \o FlattenSeq(parts)
  <2>1. \A i \in DOMAIN list : list[i] \in Members(p)
    BY <1>1 DEF ToSet
  <2>2. parts = [i \in DOMAIN list |->
                   CASE list[i].action \notin Bare -> << CreateCommand(p, list[i]) >>
                     [] list[i].action = "packet_out" -> << OutCommand(p, list[i]) >>
                     [] OTHER -> << >>]
    BY <1>6, <1>9, <2>1
  <2>3. FlattenSeq(parts) = ForEach(list, LAMBDA a :
           CASE a.action \notin Bare -> << CreateCommand(p, a) >>
             [] a.action = "packet_out" -> << OutCommand(p, a) >>
             [] OTHER -> << >>)
    BY <2>2 DEF ForEach
  <2> QED BY <1>1, <1>2, <2>3 DEF Creates
<1>12. /\ Creates(p) \in Seq(A \union B)
       /\ \A m : m \in ToSet(Creates(p)) <=> m \in ToSet(states) \/ m \in ToSet(FlattenSeq(parts))
  <2>1. PICK u : u = FlattenSeq(parts)
    OBVIOUS
  <2>2. PICK C : C = A \union B
    OBVIOUS
  <2>6. states \in Seq(A) /\ u \in Seq(B)
    BY <1>5, <1>10, <2>1
  <2>3. states \in Seq(C) /\ u \in Seq(C)
    BY ONLY <2>2, <2>6
  <2>4. states \o u \in Seq(C) /\ \A m : m \in ToSet(states \o u) <=> m \in ToSet(states) \/ m \in ToSet(u)
    BY ONLY <2>3, TogetherFacts
  <2>5. Creates(p) = states \o u
    BY <1>11, <2>1
  <2> QED BY <2>1, <2>2, <2>4, <2>5
<1>13. ASSUME NEW m
       PROVE  m \in ToSet(Creates(p)) <=>
                \/ \E i \in DOMAIN state_instances(p) : m = [op |-> "state create", state |-> i - 1]
                \/ \E a \in Members(p) : a.action \notin Bare /\ m = CreateCommand(p, a)
                \/ \E a \in Members(p) : a.action = "packet_out" /\ m = OutCommand(p, a)
  <2>1. m \in ToSet(Creates(p)) <=>
          \/ \E i \in DOMAIN state_instances(p) : m = [op |-> "state create", state |-> i - 1]
          \/ \E a \in Members(p) : m \in ToSet(g[a])
    BY <1>1, <1>5, <1>10, <1>12
  <2> QED BY <1>8, <2>1
<1> QED BY <1>12, <1>13

(* the redirection table, a command for each instance of packet_in,        *)
LEMMA BucketsAre ==
    ASSUME NEW p \in [Actions -> Nat], "packet_in" \in Actions, NEW s
    PROVE  \E T : /\ Buckets(p, s) \in Seq(T)
                  /\ \A m : m \in ToSet(Buckets(p, s)) <=>
                        \E i \in 0 .. p["packet_in"] - 1 : m = RetaCommand(p, s, i)
<1>1. PICK k \in Nat : k = p["packet_in"]
  OBVIOUS
<1>2. Buckets(p, s) = [i \in 1 .. k |-> RetaCommand(p, s, i - 1)]
  BY <1>1 DEF Buckets
<1>3. PICK T : T = {RetaCommand(p, s, i) : i \in 0 .. k - 1}
  OBVIOUS
<1>4. ASSUME NEW i \in 1 .. k PROVE i - 1 \in 0 .. k - 1 /\ RetaCommand(p, s, i - 1) \in T
  BY <1>3
<1>5. Buckets(p, s) \in Seq(T)
  BY <1>2, <1>4
<1>6. ASSUME NEW i \in 0 .. k - 1 PROVE RetaCommand(p, s, i) \in ToSet(Buckets(p, s))
  <2>1. i + 1 \in 1 .. k /\ (i + 1) - 1 = i
    OBVIOUS
  <2>2. Buckets(p, s)[i + 1] = RetaCommand(p, s, i) /\ i + 1 \in DOMAIN Buckets(p, s)
    BY <1>2, <2>1
  <2> QED BY <2>2 DEF ToSet
<1>7. ASSUME NEW m \in ToSet(Buckets(p, s)) PROVE \E i \in 0 .. k - 1 : m = RetaCommand(p, s, i)
  <2>1. PICK i \in 1 .. k : m = RetaCommand(p, s, i - 1)
    BY <1>2 DEF ToSet
  <2> QED BY <1>4, <2>1
<1> QED BY <1>1, <1>5, <1>6, <1>7

(* the first actions, a command for each edge out of one,                  *)
LEMMA FirstActionsAre ==
    ASSUME NEW p \in [Actions -> Nat], NEW s
    PROVE  \E T : /\ FirstActions(p, s) \in Seq(T)
                  /\ \A m : m \in ToSet(FirstActions(p, s)) <=>
                        \E a, b \in Members(p) :
                          a.action = "packet_in" /\ Wired(p, a, b) /\ m = FirstCommand(p, s, a, b)
<1>1. PICK list \in Seq(Members(p)) : list = action_instances(p) /\ ToSet(list) = Members(p)
  BY ActionInstances
<1>2. \A i \in DOMAIN list : list[i] \in Members(p)
  BY <1>1 DEF ToSet
<1>3. PICK T : T = {FirstCommand(p, s, q[1], q[2]) : q \in Members(p) \X Members(p)}
  OBVIOUS
<1>4. ASSUME NEW a \in Members(p), NEW b \in Members(p) PROVE FirstCommand(p, s, a, b) \in T
  <2>1. <<a, b>> \in Members(p) \X Members(p) /\ <<a, b>>[1] = a /\ <<a, b>>[2] = b
    OBVIOUS
  <2> QED BY <1>3, <2>1
<1>5. PICK g : g = [a \in Members(p) |->
                      IF a.action = "packet_in"
                      THEN FlattenSeq([j \in DOMAIN list |-> IF Wired(p, a, list[j])
                                                             THEN << FirstCommand(p, s, a, list[j]) >> ELSE << >>])
                      ELSE << >>]
  OBVIOUS
<1>6. ASSUME NEW a \in Members(p)
      PROVE  /\ g[a] \in Seq(T)
             /\ \A m : m \in ToSet(g[a]) <=>
                   \E b \in Members(p) :
                     a.action = "packet_in" /\ Wired(p, a, b) /\ m = FirstCommand(p, s, a, b)
  <2>1. CASE a.action = "packet_in"
    <3>1. PICK W : W = {b \in Members(p) : Wired(p, a, b)}
      OBVIOUS
    <3>2. PICK h : h = [b \in Members(p) |-> FirstCommand(p, s, a, b)]
      OBVIOUS
    <3>3. PICK cell : cell = [b \in Members(p) |-> IF b \in W THEN << h[b] >> ELSE << >>]
      OBVIOUS
    <3>4. PICK row : row = [j \in DOMAIN list |-> cell[list[j]]]
      OBVIOUS
    <3>5. row = [j \in DOMAIN list |-> IF Wired(p, a, list[j]) THEN << FirstCommand(p, s, a, list[j]) >> ELSE << >>]
      BY <1>2, <3>1, <3>2, <3>3, <3>4
    <3>6. g[a] = FlattenSeq(row)
      BY <1>5, <2>1, <3>5
    <3>7. ASSUME NEW b \in Members(p)
          PROVE  cell[b] \in Seq(T) /\ \A m : m \in ToSet(cell[b]) <=> Wired(p, a, b) /\ m = FirstCommand(p, s, a, b)
      <4>1. CASE Wired(p, a, b)
        <5>1. cell[b] = << FirstCommand(p, s, a, b) >>
          BY <3>1, <3>2, <3>3, <4>1
        <5>2. ToSet(<< FirstCommand(p, s, a, b) >>) = {FirstCommand(p, s, a, b)}
          BY DEF ToSet
        <5>3. FirstCommand(p, s, a, b) \in T
          BY <1>4
        <5>4. << FirstCommand(p, s, a, b) >> \in Seq(T)
          BY <5>3
        <5> QED BY <4>1, <5>1, <5>2, <5>4
      <4>2. CASE ~Wired(p, a, b)
        <5>1. cell[b] = << >>
          BY <3>1, <3>3, <4>2
        <5> QED BY <4>2, <5>1 DEF ToSet
      <4> QED BY <4>1, <4>2
    <3>8. /\ FlattenSeq(row) \in Seq(T)
          /\ \A y : y \in ToSet(FlattenSeq(row)) <=> \E b \in ToSet(list) : y \in ToSet(cell[b])
      <4>1. list \in Seq(Members(p)) /\ \A b \in ToSet(list) : cell[b] \in Seq(T)
        BY <1>1, <3>7
      <4> QED BY ONLY <3>4, <4>1, ForEachFacts
    <3>9. ASSUME NEW m
          PROVE  m \in ToSet(g[a]) <=> \E b \in Members(p) : m \in ToSet(cell[b])
      BY <1>1, <3>6, <3>8
    <3>10. g[a] \in Seq(T)
      BY <3>6, <3>8
    <3> QED BY <2>1, <3>7, <3>9, <3>10
  <2>2. CASE ~(a.action = "packet_in")
    <3>1. g[a] = << >>
      BY <1>5, <2>2
    <3> QED BY <2>2, <3>1 DEF ToSet
  <2> QED BY <2>1, <2>2
<1>7. PICK parts : parts = [i \in DOMAIN list |-> g[list[i]]]
  OBVIOUS
<1>8. FirstActions(p, s) = FlattenSeq(parts)
  <2>1. parts = [i \in DOMAIN list |-> IF list[i].action = "packet_in"
                                   THEN FlattenSeq([j \in DOMAIN list |->
                                          IF Wired(p, list[i], list[j])
                                          THEN << FirstCommand(p, s, list[i], list[j]) >> ELSE << >>])
                                   ELSE << >>]
    BY <1>2, <1>5, <1>7
  <2> QED BY <1>1, <2>1 DEF FirstActions, ForWired, ForEach
<1>9. /\ FlattenSeq(parts) \in Seq(T)
      /\ \A m : m \in ToSet(FlattenSeq(parts)) <=> \E a \in ToSet(list) : m \in ToSet(g[a])
  <2>1. list \in Seq(Members(p)) /\ \A a \in ToSet(list) : g[a] \in Seq(T)
    BY <1>1, <1>6
  <2> QED BY ONLY <1>7, <2>1, ForEachFacts
<1>10. ASSUME NEW m
       PROVE  m \in ToSet(FirstActions(p, s)) <=>
                \E a, b \in Members(p) :
                  a.action = "packet_in" /\ Wired(p, a, b) /\ m = FirstCommand(p, s, a, b)
  <2>1. m \in ToSet(FirstActions(p, s)) <=> \E a \in Members(p) : m \in ToSet(g[a])
    BY <1>1, <1>8, <1>9
  <2>2. \A a \in Members(p) : m \in ToSet(g[a]) <=>
           \E b \in Members(p) :
              a.action = "packet_in" /\ Wired(p, a, b) /\ m = FirstCommand(p, s, a, b)
    BY <1>6
  <2> QED BY ONLY <2>1, <2>2
<1> QED BY <1>8, <1>9, <1>10

(* and the paths, a command for each other edge.                           *)
LEMMA PathsAre ==
    ASSUME NEW p \in [Actions -> Nat]
    PROVE  \E T : /\ Paths(p) \in Seq(T)
                  /\ \A m : m \in ToSet(Paths(p)) <=>
                        \E a, b \in Members(p) :
                          a.action # "packet_in" /\ Wired(p, a, b) /\ m = PathCommand(p, a, b)
<1>1. PICK list \in Seq(Members(p)) : list = action_instances(p) /\ ToSet(list) = Members(p)
  BY ActionInstances
<1>2. \A i \in DOMAIN list : list[i] \in Members(p)
  BY <1>1 DEF ToSet
<1>3. PICK T : T = {PathCommand(p, q[1], q[2]) : q \in Members(p) \X Members(p)}
  OBVIOUS
<1>4. ASSUME NEW a \in Members(p), NEW b \in Members(p) PROVE PathCommand(p, a, b) \in T
  <2>1. <<a, b>> \in Members(p) \X Members(p) /\ <<a, b>>[1] = a /\ <<a, b>>[2] = b
    OBVIOUS
  <2> QED BY <1>3, <2>1
<1>5. PICK g : g = [a \in Members(p) |->
                      IF a.action # "packet_in"
                      THEN FlattenSeq([j \in DOMAIN list |-> IF Wired(p, a, list[j])
                                                             THEN << PathCommand(p, a, list[j]) >> ELSE << >>])
                      ELSE << >>]
  OBVIOUS
<1>6. ASSUME NEW a \in Members(p)
      PROVE  /\ g[a] \in Seq(T)
             /\ \A m : m \in ToSet(g[a]) <=>
                   \E b \in Members(p) :
                     a.action # "packet_in" /\ Wired(p, a, b) /\ m = PathCommand(p, a, b)
  <2>1. CASE a.action # "packet_in"
    <3>1. PICK W : W = {b \in Members(p) : Wired(p, a, b)}
      OBVIOUS
    <3>2. PICK h : h = [b \in Members(p) |-> PathCommand(p, a, b)]
      OBVIOUS
    <3>3. PICK cell : cell = [b \in Members(p) |-> IF b \in W THEN << h[b] >> ELSE << >>]
      OBVIOUS
    <3>4. PICK row : row = [j \in DOMAIN list |-> cell[list[j]]]
      OBVIOUS
    <3>5. row = [j \in DOMAIN list |-> IF Wired(p, a, list[j]) THEN << PathCommand(p, a, list[j]) >> ELSE << >>]
      BY <1>2, <3>1, <3>2, <3>3, <3>4
    <3>6. g[a] = FlattenSeq(row)
      BY <1>5, <2>1, <3>5
    <3>7. ASSUME NEW b \in Members(p)
          PROVE  cell[b] \in Seq(T) /\ \A m : m \in ToSet(cell[b]) <=> Wired(p, a, b) /\ m = PathCommand(p, a, b)
      <4>1. CASE Wired(p, a, b)
        <5>1. cell[b] = << PathCommand(p, a, b) >>
          BY <3>1, <3>2, <3>3, <4>1
        <5>2. ToSet(<< PathCommand(p, a, b) >>) = {PathCommand(p, a, b)}
          BY DEF ToSet
        <5>3. PathCommand(p, a, b) \in T
          BY <1>4
        <5>4. << PathCommand(p, a, b) >> \in Seq(T)
          BY <5>3
        <5> QED BY <4>1, <5>1, <5>2, <5>4
      <4>2. CASE ~Wired(p, a, b)
        <5>1. cell[b] = << >>
          BY <3>1, <3>3, <4>2
        <5> QED BY <4>2, <5>1 DEF ToSet
      <4> QED BY <4>1, <4>2
    <3>8. /\ FlattenSeq(row) \in Seq(T)
          /\ \A y : y \in ToSet(FlattenSeq(row)) <=> \E b \in ToSet(list) : y \in ToSet(cell[b])
      <4>1. list \in Seq(Members(p)) /\ \A b \in ToSet(list) : cell[b] \in Seq(T)
        BY <1>1, <3>7
      <4> QED BY ONLY <3>4, <4>1, ForEachFacts
    <3>9. ASSUME NEW m
          PROVE  m \in ToSet(g[a]) <=> \E b \in Members(p) : m \in ToSet(cell[b])
      BY <1>1, <3>6, <3>8
    <3>10. g[a] \in Seq(T)
      BY <3>6, <3>8
    <3> QED BY <2>1, <3>7, <3>9, <3>10
  <2>2. CASE ~(a.action # "packet_in")
    <3>1. g[a] = << >>
      BY <1>5, <2>2
    <3> QED BY <2>2, <3>1 DEF ToSet
  <2> QED BY <2>1, <2>2
<1>7. PICK parts : parts = [i \in DOMAIN list |-> g[list[i]]]
  OBVIOUS
<1>8. Paths(p) = FlattenSeq(parts)
  <2>1. parts = [i \in DOMAIN list |-> IF list[i].action # "packet_in"
                                   THEN FlattenSeq([j \in DOMAIN list |->
                                          IF Wired(p, list[i], list[j])
                                          THEN << PathCommand(p, list[i], list[j]) >> ELSE << >>])
                                   ELSE << >>]
    BY <1>2, <1>5, <1>7
  <2> QED BY <1>1, <2>1 DEF Paths, ForWired, ForEach
<1>9. /\ FlattenSeq(parts) \in Seq(T)
      /\ \A m : m \in ToSet(FlattenSeq(parts)) <=> \E a \in ToSet(list) : m \in ToSet(g[a])
  <2>1. list \in Seq(Members(p)) /\ \A a \in ToSet(list) : g[a] \in Seq(T)
    BY <1>1, <1>6
  <2> QED BY ONLY <1>7, <2>1, ForEachFacts
<1>10. ASSUME NEW m
       PROVE  m \in ToSet(Paths(p)) <=>
                \E a, b \in Members(p) :
                  a.action # "packet_in" /\ Wired(p, a, b) /\ m = PathCommand(p, a, b)
  <2>1. m \in ToSet(Paths(p)) <=> \E a \in Members(p) : m \in ToSet(g[a])
    BY <1>1, <1>8, <1>9
  <2>2. \A a \in Members(p) : m \in ToSet(g[a]) <=>
           \E b \in Members(p) :
              a.action # "packet_in" /\ Wired(p, a, b) /\ m = PathCommand(p, a, b)
    BY <1>6
  <2> QED BY ONLY <2>1, <2>2
<1> QED BY <1>8, <1>9, <1>10

(* Two lists of commands end to end, whatever the commands are.            *)
LEMMA Joined ==
    ASSUME NEW s, NEW t, NEW u, u = s \o t, \E A : s \in Seq(A), \E B : t \in Seq(B)
    PROVE  (\E C : u \in Seq(C)) /\ \A y : y \in ToSet(u) <=> y \in ToSet(s) \/ y \in ToSet(t)
<1>1. PICK A : s \in Seq(A)
  OBVIOUS
<1>2. PICK B : t \in Seq(B)
  OBVIOUS
<1>3. PICK C : C = A \union B
  OBVIOUS
<1>4. s \in Seq(C) /\ t \in Seq(C)
  BY <1>1, <1>2, <1>3
<1>5. s \o t \in Seq(C) /\ \A y : y \in ToSet(s \o t) <=> y \in ToSet(s) \/ y \in ToSet(t)
  BY ONLY <1>4, TogetherFacts
<1> QED BY <1>5

(* A list of three.                                                        *)
LEMMA ThreeFacts ==
    ASSUME NEW T, NEW x \in T, NEW y \in T, NEW z \in T
    PROVE  <<x, y, z>> \in Seq(T) /\ \A m : m \in ToSet(<<x, y, z>>) <=> m = x \/ m = y \/ m = z
BY DEF ToSet

(* What configure_state sends to every state.                              *)
LEMMA ConfiguresAre ==
    ASSUME NEW p \in [Actions -> Nat], \A s \in ToSet(StateList) : FirstAction(s) \in Actions,
           NEW op, NEW val
    PROVE  \E T : /\ configure_state(p, op, val) \in Seq(T)
                  /\ \A m \in ToSet(configure_state(p, op, val)) :
                        \E i \in DOMAIN state_instances(p) : m = [op |-> op, state |-> i - 1, val |-> val]
<1>1. PICK k \in Nat : DOMAIN state_instances(p) = 1 .. k
  <2>1. state_instances(p) \in Seq(StateMembers(p))
    BY StateInstances
  <2> QED BY <2>1
<1>2. PICK q : q = configure_state(p, op, val)
  OBVIOUS
<1>3. q = [i \in 1 .. k |-> [op |-> op, state |-> i - 1, val |-> val]]
  BY <1>1, <1>2 DEF configure_state
<1>4. PICK T : T = {[op |-> op, state |-> i - 1, val |-> val] : i \in 1 .. k}
  OBVIOUS
<1>5. \A i \in 1 .. k : q[i] \in T
  BY <1>3, <1>4
<1>6. q \in Seq(T)
  <2>1. q = [i \in 1 .. k |-> q[i]] /\ k \in Nat
    BY <1>3
  <2> QED BY ONLY <1>5, <2>1
<1>7. \A m \in ToSet(q) : \E i \in 1 .. k : m = [op |-> op, state |-> i - 1, val |-> val]
  BY <1>3 DEF ToSet
<1> QED BY <1>1, <1>2, <1>6, <1>7

(* What the script sends besides, for each state.                          *)
Prepares(p, r, f, m) ==
    \E i \in DOMAIN state_instances(p) :
        \/ m = [op |-> "state create", state |-> i - 1]
        \/ m = [op |-> "data_state", state |-> i - 1, val |-> r]
        \/ m = [op |-> "control_frequency", state |-> i - 1, val |-> f]

(* Their names.                                                            *)
LEMMA PreparesOp ==
    ASSUME NEW p, NEW r, NEW f, NEW m, Prepares(p, r, f, m)
    PROVE  m.op \in {"state create", "data_state", "control_frequency"}
<1>1. PICK i \in DOMAIN state_instances(p) :
         \/ m = [op |-> "state create", state |-> i - 1]
         \/ m = [op |-> "data_state", state |-> i - 1, val |-> r]
         \/ m = [op |-> "control_frequency", state |-> i - 1, val |-> f]
  BY DEF Prepares
<1>2. CASE m = [op |-> "state create", state |-> i - 1]
  <2>1. m.op = "state create"
    BY <1>2
  <2> QED BY <2>1
<1>3. CASE m = [op |-> "data_state", state |-> i - 1, val |-> r]
  <2>1. m.op = "data_state"
    BY <1>3
  <2> QED BY <2>1
<1>4. CASE m = [op |-> "control_frequency", state |-> i - 1, val |-> f]
  <2>1. m.op = "control_frequency"
    BY <1>4
  <2> QED BY <2>1
<1> QED BY <1>1, <1>2, <1>3, <1>4

(* The three commands of run come last.                                    *)
LEMMA ScriptBody ==
    ASSUME NEW p \in [Actions -> Nat], \A t \in ToSet(StateList) : FirstAction(t) \in Actions,
           "packet_in" \in Actions, NEW s, NEW r, NEW f
    PROVE  \E body :
              /\ \E T : body \in Seq(T)
              /\ Script(p, s, r, f) = body \o run
              /\ \A m \in ToSet(body) : IsSent(p, s, m) \/ Prepares(p, r, f, m)
              /\ \A m : IsSent(p, s, m) => m \in ToSet(body)
<1>1. PICK a : a = Creates(p)
  OBVIOUS
<1>2. PICK A :
         /\ a \in Seq(A)
         /\ \A m : m \in ToSet(a) <=>
               \/ \E i \in DOMAIN state_instances(p) : m = [op |-> "state create", state |-> i - 1]
               \/ \E x \in Members(p) : x.action \notin Bare /\ m = CreateCommand(p, x)
               \/ \E x \in Members(p) : x.action = "packet_out" /\ m = OutCommand(p, x)
  BY <1>1, CreatesAre
<1>3. PICK b : b = Buckets(p, s)
  OBVIOUS
<1>4. PICK B :
         /\ b \in Seq(B)
         /\ \A m : m \in ToSet(b) <=> \E i \in 0 .. p["packet_in"] - 1 : m = RetaCommand(p, s, i)
  BY <1>3, BucketsAre
<1>5. PICK d : d = FirstActions(p, s)
  OBVIOUS
<1>6. PICK C :
         /\ d \in Seq(C)
         /\ \A m : m \in ToSet(d) <=>
               \E x, y \in Members(p) :
                 x.action = "packet_in" /\ Wired(p, x, y) /\ m = FirstCommand(p, s, x, y)
  BY <1>5, FirstActionsAre
<1>7. PICK e : e = Paths(p)
  OBVIOUS
<1>8. PICK D :
         /\ e \in Seq(D)
         /\ \A m : m \in ToSet(e) <=>
               \E x, y \in Members(p) :
                 x.action # "packet_in" /\ Wired(p, x, y) /\ m = PathCommand(p, x, y)
  BY <1>7, PathsAre
<1>9. PICK g : g = (IF r = 0 THEN << >> ELSE configure_state(p, "data_state", r))
  OBVIOUS
<1>10. PICK E :
         /\ g \in Seq(E)
         /\ \A m \in ToSet(g) : Prepares(p, r, f, m)
  <2>1. CASE r = 0
    <3>1. << >> \in Seq(Nat) /\ ToSet(<< >>) = {}
      BY DEF ToSet
    <3> QED BY <1>9, <2>1, <3>1
  <2>2. CASE r # 0
    <3>1. PICK T : /\ configure_state(p, "data_state", r) \in Seq(T)
                   /\ \A m \in ToSet(configure_state(p, "data_state", r)) :
                        \E i \in DOMAIN state_instances(p) :
                          m = [op |-> "data_state", state |-> i - 1, val |-> r]
      BY ConfiguresAre
    <3> QED BY <1>9, <2>2, <3>1 DEF Prepares
  <2> QED BY <2>1, <2>2
<1>11. PICK h : h = (IF f = 0 THEN << >> ELSE configure_state(p, "control_frequency", f))
  OBVIOUS
<1>12. PICK G :
         /\ h \in Seq(G)
         /\ \A m \in ToSet(h) : Prepares(p, r, f, m)
  <2>1. CASE f = 0
    <3>1. << >> \in Seq(Nat) /\ ToSet(<< >>) = {}
      BY DEF ToSet
    <3> QED BY <1>11, <2>1, <3>1
  <2>2. CASE f # 0
    <3>1. PICK T : /\ configure_state(p, "control_frequency", f) \in Seq(T)
                   /\ \A m \in ToSet(configure_state(p, "control_frequency", f)) :
                        \E i \in DOMAIN state_instances(p) :
                          m = [op |-> "control_frequency", state |-> i - 1, val |-> f]
      BY ConfiguresAre
    <3> QED BY <1>11, <2>2, <3>1 DEF Prepares
  <2> QED BY <2>1, <2>2
<1>13. Script(p, s, r, f) = (((((a \o b) \o d) \o e) \o g) \o h) \o run
  BY <1>1, <1>3, <1>5, <1>7, <1>9, <1>11 DEF Script, deployment
<1>14. PICK q1 : q1 = a \o b
  OBVIOUS
<1>15. /\ \E Q : q1 \in Seq(Q)
       /\ \A m : m \in ToSet(q1) <=> m \in ToSet(a) \/ m \in ToSet(b)
  BY ONLY <1>2, <1>4, <1>14, Joined
<1>16. PICK q2 : q2 = q1 \o d
  OBVIOUS
<1>17. /\ \E Q : q2 \in Seq(Q)
       /\ \A m : m \in ToSet(q2) <=> m \in ToSet(q1) \/ m \in ToSet(d)
  BY ONLY <1>15, <1>6, <1>16, Joined
<1>18. PICK q3 : q3 = q2 \o e
  OBVIOUS
<1>19. /\ \E Q : q3 \in Seq(Q)
       /\ \A m : m \in ToSet(q3) <=> m \in ToSet(q2) \/ m \in ToSet(e)
  BY ONLY <1>17, <1>8, <1>18, Joined
<1>20. PICK q4 : q4 = q3 \o g
  OBVIOUS
<1>21. /\ \E Q : q4 \in Seq(Q)
       /\ \A m : m \in ToSet(q4) <=> m \in ToSet(q3) \/ m \in ToSet(g)
  BY ONLY <1>19, <1>10, <1>20, Joined
<1>22. PICK q5 : q5 = q4 \o h
  OBVIOUS
<1>23. /\ \E Q : q5 \in Seq(Q)
       /\ \A m : m \in ToSet(q5) <=> m \in ToSet(q4) \/ m \in ToSet(h)
  BY ONLY <1>21, <1>12, <1>22, Joined
<1>24. Script(p, s, r, f) = q5 \o run
  BY <1>13, <1>14, <1>16, <1>18, <1>20, <1>22
<1>25. \A m : m \in ToSet(q5) <=> \/ m \in ToSet(a) \/ m \in ToSet(b) \/ m \in ToSet(d)
                               \/ m \in ToSet(e) \/ m \in ToSet(g) \/ m \in ToSet(h)
  BY <1>15, <1>17, <1>19, <1>21, <1>23
<1>26. \A m : IsSent(p, s, m) <=>
          \/ \E x \in Members(p) : x.action \notin Bare /\ m = CreateCommand(p, x)
          \/ \E x \in Members(p) : x.action = "packet_out" /\ m = OutCommand(p, x)
          \/ m \in ToSet(b) \/ m \in ToSet(d) \/ m \in ToSet(e)
  BY <1>4, <1>6, <1>8 DEF IsSent, SentReta, SentCreate, SentOut, SentFirst, SentPath
<1>27. \A m : IsSent(p, s, m) => m \in ToSet(q5)
  BY <1>2, <1>25, <1>26
<1>28. \A m \in ToSet(a) : IsSent(p, s, m) \/ Prepares(p, r, f, m)
  BY <1>2, <1>26 DEF Prepares
<1>29. \A m \in ToSet(q5) : IsSent(p, s, m) \/ Prepares(p, r, f, m)
  BY <1>10, <1>12, <1>25, <1>26, <1>28
<1> QED BY <1>23, <1>24, <1>27, <1>29

(* What run sends.                                                         *)
LEMMA RunIs ==
    /\ \E T : run \in Seq(T)
    /\ Len(run) = 3 /\ run[1].op = "port init" /\ run[2].op = "rss" /\ run[3].op = "worker run"
    /\ \A m : m \in ToSet(run) <=> m \in {[op |-> "port init"], [op |-> "rss"], [op |-> "worker run"]}
    /\ \A m \in ToSet(run) : m.op \in {"port init", "rss", "worker run"}
<1>1. PICK x : x = [op |-> "port init"]
  OBVIOUS
<1>2. PICK y : y = [op |-> "rss"]
  OBVIOUS
<1>3. PICK z : z = [op |-> "worker run"]
  OBVIOUS
<1>4. x.op = "port init" /\ y.op = "rss" /\ z.op = "worker run"
  BY <1>1, <1>2, <1>3
<1>5. run = <<x, y, z>>
  BY <1>1, <1>2, <1>3 DEF run
<1>6. PICK T : T = {x, y, z}
  OBVIOUS
<1>7. x \in T /\ y \in T /\ z \in T
  BY <1>6
<1>8. run \in Seq(T) /\ \A m : m \in ToSet(run) <=> m = x \/ m = y \/ m = z
  BY ONLY <1>5, <1>7, ThreeFacts
<1>9. Len(run) = 3 /\ run[1] = x /\ run[2] = y /\ run[3] = z
  BY ONLY <1>5
<1>10. \A m : m \in ToSet(run) <=> m \in {x, y, z}
  BY ONLY <1>8
<1>11. \A m \in ToSet(run) : m.op \in {"port init", "rss", "worker run"}
  BY ONLY <1>4, <1>8
<1> QED BY <1>1, <1>2, <1>3, <1>4, <1>8, <1>9, <1>10, <1>11

(* The script places what IsSent says, and nothing else.                   *)
LEMMA ScriptIs ==
    ASSUME BucketsFit, NEW p \in Plans, NEW s, NEW r, NEW f
    PROVE  /\ \A m \in ToSet(Script(p, s, r, f)) : m.op \in Placing => IsSent(p, s, m)
           /\ \A m : IsSent(p, s, m) => m \in ToSet(Script(p, s, r, f))
<1>1. /\ p \in [Actions -> Nat] /\ \A t \in ToSet(StateList) : FirstAction(t) \in Actions
      /\ "packet_in" \in Actions
  BY DEF BucketsFit, Actions, Follows
<1>2. PICK body : /\ \E T : body \in Seq(T)
                  /\ Script(p, s, r, f) = body \o run
                  /\ \A m \in ToSet(body) : IsSent(p, s, m) \/ Prepares(p, r, f, m)
                  /\ \A m : IsSent(p, s, m) => m \in ToSet(body)
  BY <1>1, ScriptBody
<1>3. PICK q : q = body \o run
  OBVIOUS
<1>4. \A m : m \in ToSet(q) <=> m \in ToSet(body) \/ m \in ToSet(run)
  BY ONLY <1>2, <1>3, RunIs, Joined
<1>5. ASSUME NEW m, Prepares(p, r, f, m) PROVE m.op \notin Placing
  <2>1. m.op \in {"state create", "data_state", "control_frequency"}
    BY <1>5, PreparesOp
  <2> QED BY <2>1 DEF Placing
<1>6. \A m \in ToSet(run) : m.op \notin Placing
  BY RunIs DEF Placing
<1> QED BY <1>2, <1>3, <1>4, <1>5, <1>6
-------------------------------------------------------------------------------
Span(m) == m.start .. m.start + m.num - 1

(* Nothing moved: r has the buckets, the entries and the paths of d.       *)
StillPlaced(d, r) ==
    /\ r.reta = d.reta /\ r.buckets = d.buckets
    /\ \A w \in Cores : d.first_action[w] => r.first_action[w]
    /\ \A x \in Indices : /\ r.action[x].function = d.action[x].function
                          /\ r.action[x].state = d.action[x].state
                          /\ r.action[x].core = d.action[x].core
                          /\ r.state[x].simple_path = d.state[x].simple_path

(* What command m writes of them.                                          *)
WrittenReta(d, m, r) ==
    \A b \in RssBuckets :
        r.reta[b] = IF m.op = "rss_reta_config" /\ b \in Span(m) THEN queue_id(m.worker) ELSE d.reta[b]
WrittenBuckets(d, m, r) ==
    \A w \in Cores :
        LET to == m.op = "worker first_action" /\ m.worker = w
        IN  /\ d.first_action[w] \/ to => r.first_action[w]
            /\ \A b \in RssBuckets :
                 r.buckets[w][b] = IF to /\ b \in Span(m) THEN m.action ELSE d.buckets[w][b]
WrittenEntries(d, m, r) ==
    \A x \in Indices :
        LET e == r.action[x]
        IN  /\ m.op = "action create" /\ m.action = x =>
                 e.function = register_action[m.registration] /\ e.state = m.state /\ e.core = m.core
            /\ m.op = "create_packet_out" /\ m.action = x =>
                 e.function = "transmit_packet" /\ e.core = m.core
            /\ ~(m.op \in {"action create", "create_packet_out"} /\ m.action = x) =>
                 /\ e.function = d.action[x].function
                 /\ e.state = d.action[x].state /\ e.core = d.action[x].core
WrittenPaths(d, m, r) ==
    \A x \in Indices : \A q \in Local(MaximumPath) :
        r.state[x].simple_path[q] =
            IF m.op = "install_simple_path" /\ m.state = x /\ m.path = q THEN m.action
            ELSE d.state[x].simple_path[q]
Written(d, m, r) ==
    WrittenReta(d, m, r) /\ WrittenBuckets(d, m, r) /\ WrittenEntries(d, m, r) /\ WrittenPaths(d, m, r)

(* A command that places nothing writes nothing when all is still placed.  *)
LEMMA StillWritten ==
    ASSUME NEW d, NEW m, NEW r, StillPlaced(d, r), m.op \notin Placing
    PROVE  Written(d, m, r)
<1>1. m.op # "rss_reta_config" /\ m.op # "worker first_action" /\ m.op # "install_simple_path"
      /\ m.op \notin {"action create", "create_packet_out"}
  BY DEF Placing
<1>2. WrittenReta(d, m, r)
  BY <1>1 DEF WrittenReta, StillPlaced
<1>3. WrittenBuckets(d, m, r)
  BY <1>1 DEF WrittenBuckets, StillPlaced
<1>4. WrittenEntries(d, m, r)
  BY <1>1 DEF WrittenEntries, StillPlaced
<1>5. WrittenPaths(d, m, r)
  BY <1>1 DEF WrittenPaths, StillPlaced
<1> QED BY <1>2, <1>3, <1>4, <1>5 DEF Written

(* Writing a state or an entry leaves the rest.                            *)
LEMMA StateStill ==
    ASSUME NEW d \in ConfigRec, NEW x \in Indices, NEW e
    PROVE  /\ [d EXCEPT !.state[x] = e].reta = d.reta /\ [d EXCEPT !.state[x] = e].buckets = d.buckets
           /\ [d EXCEPT !.state[x] = e].first_action = d.first_action
           /\ [d EXCEPT !.state[x] = e].action = d.action
           /\ [d EXCEPT !.state[x] = e].state[x] = e
           /\ \A y \in Indices : y # x => [d EXCEPT !.state[x] = e].state[y] = d.state[y]
BY DEF ConfigRec

(* The same for an entry of the action table.                              *)
LEMMA EntryStill ==
    ASSUME NEW d \in ConfigRec, NEW x \in Indices, NEW e
    PROVE  /\ [d EXCEPT !.action[x] = e].reta = d.reta /\ [d EXCEPT !.action[x] = e].buckets = d.buckets
           /\ [d EXCEPT !.action[x] = e].first_action = d.first_action
           /\ [d EXCEPT !.action[x] = e].state = d.state
           /\ [d EXCEPT !.action[x] = e].action[x] = e
           /\ \A y \in Indices : y # x => [d EXCEPT !.action[x] = e].action[y] = d.action[y]
BY DEF ConfigRec

(* A state written with its path as it was moves nothing,                  *)
LEMMA StatePlaced ==
    ASSUME NEW d \in ConfigRec, NEW x \in Indices, NEW e, e.simple_path = d.state[x].simple_path
    PROVE  StillPlaced(d, [d EXCEPT !.state[x] = e])
<1>1. PICK r : r = [d EXCEPT !.state[x] = e]
  OBVIOUS
<1>2. /\ r.reta = d.reta /\ r.buckets = d.buckets /\ r.first_action = d.first_action
      /\ r.action = d.action /\ r.state[x] = e /\ \A y \in Indices : y # x => r.state[y] = d.state[y]
  BY <1>1, StateStill
<1>3. \A y \in Indices : r.state[y].simple_path = d.state[y].simple_path
  BY <1>2
<1>4. StillPlaced(d, r)
  BY <1>2, <1>3 DEF StillPlaced
<1> QED BY <1>1, <1>4

(* nor does an entry with its function, its state and its core.            *)
LEMMA EntryPlaced ==
    ASSUME NEW d \in ConfigRec, NEW x \in Indices, NEW e,
           e.function = d.action[x].function, e.state = d.action[x].state, e.core = d.action[x].core
    PROVE  StillPlaced(d, [d EXCEPT !.action[x] = e])
<1>1. PICK r : r = [d EXCEPT !.action[x] = e]
  OBVIOUS
<1>2. /\ r.reta = d.reta /\ r.buckets = d.buckets /\ r.first_action = d.first_action
      /\ r.state = d.state /\ r.action[x] = e /\ \A y \in Indices : y # x => r.action[y] = d.action[y]
  BY <1>1, EntryStill
<1>3. \A y \in Indices : /\ r.action[y].function = d.action[y].function
                         /\ r.action[y].state = d.action[y].state
                         /\ r.action[y].core = d.action[y].core
  BY <1>2
<1>4. StillPlaced(d, r)
  BY <1>2, <1>3 DEF StillPlaced
<1> QED BY <1>1, <1>4

(* The handlers that write none of it.                                     *)
LEMMA OthersStill ==
    ASSUME NEW S, S \subseteq Indices, NEW d \in ConfigRec, NEW m \in Command(S),
           m.op \in {"config parameter", "worker run", "last_action", "first_action"}
    PROVE  StillPlaced(d, cli_process(d, m))
<1>1. CASE m.op = "config parameter"
  <2>1. cli_process(d, m) = config_parameter(d, m)
    BY <1>1 DEF cli_process, Idle
  <2>2. PICK r : r = config_parameter(d, m)
    OBVIOUS
  <2>3. /\ r.reta = d.reta /\ r.buckets = d.buckets /\ r.first_action = d.first_action
        /\ r.action = d.action /\ r.state = d.state
    BY <2>2 DEF config_parameter, ConfigRec
  <2> QED BY <2>1, <2>2, <2>3 DEF StillPlaced
<1>2. CASE m.op = "worker run"
  <2>1. cli_process(d, m) = worker_run(d)
    BY <1>2 DEF cli_process, Idle
  <2>2. PICK r : r = worker_run(d)
    OBVIOUS
  <2>3. /\ r.reta = d.reta /\ r.buckets = d.buckets /\ r.first_action = d.first_action
        /\ r.action = d.action /\ r.state = d.state
    BY <2>2 DEF worker_run, ConfigRec
  <2> QED BY <2>1, <2>2, <2>3 DEF StillPlaced
<1>3. CASE m.op = "last_action"
  <2>1. cli_process(d, m) = last_action(d, m)
    BY <1>3 DEF cli_process, Idle
  <2>2. PICK r : r = last_action(d, m)
    OBVIOUS
  <2>3. /\ r.reta = d.reta /\ r.buckets = d.buckets /\ r.first_action = d.first_action
        /\ r.action = d.action /\ r.state = d.state
    BY <2>2 DEF last_action, ConfigRec
  <2> QED BY <2>1, <2>2, <2>3 DEF StillPlaced
<1>4. CASE m.op = "first_action"
  <2>1. cli_process(d, m) = first_action(d, m)
    BY <1>4 DEF cli_process, Idle
  <2>2. PICK r : r = first_action(d, m)
    OBVIOUS
  <2>3. /\ r.reta = d.reta /\ r.buckets = d.buckets
        /\ r.first_action = [d.first_action EXCEPT ![m.worker] = TRUE]
        /\ r.action = d.action /\ r.state = d.state
    BY <2>2 DEF first_action, ConfigRec
  <2>4. \A w \in Cores : d.first_action[w] => r.first_action[w]
    BY <2>3 DEF ConfigRec
  <2> QED BY <2>1, <2>2, <2>3, <2>4 DEF StillPlaced
<1> QED BY <1>1, <1>2, <1>3, <1>4

(* Those that write one state besides its path.                            *)
LEMMA StatesStill ==
    ASSUME NEW S, S \subseteq Indices, NEW d \in ConfigRec, NEW m \in Command(S),
           m.op \in {"state create", "control_frequency", "data_state"}
    PROVE  StillPlaced(d, cli_process(d, m))
<1>1. m.state \in S /\ m.state \in Indices
  BY DEF Command, Idle
<1>2. PICK x \in Indices : x = m.state
  BY <1>1
<1>3. PICK old \in StateRec : old = d.state[x]
  BY ConfigParts
<1>4. ASSUME NEW e, e.simple_path = old.simple_path PROVE StillPlaced(d, [d EXCEPT !.state[x] = e])
  BY <1>3, <1>4, StatePlaced
<1>5. CASE m.op = "state create"
  <2>1. PICK e1 : e1 = [old EXCEPT !.rand_range = d.par.data_state_size]
    OBVIOUS
  <2>2. PICK e2 : e2 = [e1 EXCEPT !.frequency = d.par.frequency]
    OBVIOUS
  <2>3. PICK e : e = [e2 EXCEPT !.counter = 0]
    OBVIOUS
  <2>4. e.simple_path = old.simple_path
    BY <2>1, <2>2, <2>3 DEF StateRec
  <2>5. e = [old EXCEPT !.rand_range = d.par.data_state_size,
                        !.frequency = d.par.frequency, !.counter = 0]
    BY ONLY <2>1, <2>2, <2>3
  <2>6. cli_process(d, m) = [d EXCEPT !.state[x] = e]
    BY <1>2, <1>3, <1>5, <2>5, ConfigParts DEF cli_process, Idle, state_create
  <2> QED BY <1>4, <2>4, <2>6
<1>6. CASE m.op = "control_frequency"
  <2>1. PICK e : e = [old EXCEPT !.frequency = m.val]
    OBVIOUS
  <2>2. e.simple_path = old.simple_path
    BY <2>1 DEF StateRec
  <2>3. cli_process(d, m) = [d EXCEPT !.state[x] = e]
    BY <1>2, <1>3, <1>6, <2>1, ConfigParts DEF cli_process, Idle, control_frequency
  <2> QED BY <1>4, <2>2, <2>3
<1>7. CASE m.op = "data_state"
  <2>1. PICK e : e = [old EXCEPT !.rand_range = m.val]
    OBVIOUS
  <2>2. e.simple_path = old.simple_path
    BY <2>1 DEF StateRec
  <2>3. cli_process(d, m) = [d EXCEPT !.state[x] = e]
    BY <1>2, <1>3, <1>7, <2>1, ConfigParts DEF cli_process, Idle, data_state
  <2> QED BY <1>4, <2>2, <2>3
<1> QED BY <1>5, <1>6, <1>7

(* install_path writes the slots of the generic path only.                 *)
LEMMA InstallStill ==
    ASSUME NEW S, S \subseteq Indices, NEW d \in ConfigRec, NEW m \in Command(S),
           m.op = "install_path"
    PROVE  StillPlaced(d, cli_process(d, m))
<1>1. PICK x \in Indices : x = m.action
  BY DEF Command, Idle
<1>2. m.path \in Local(MaximumPath)
  BY DEF Command, Idle
<1>3. PICK old \in EntryRec : old = d.action[x]
  BY ConfigParts
<1>4. PICK e : e = [old EXCEPT !.path_instance_number[m.path] = @ + 1]
  OBVIOUS
<1>5. e.function = old.function /\ e.state = old.state /\ e.core = old.core
  BY <1>4 DEF EntryRec
<1>6. PICK counted : counted = [d EXCEPT !.action[x] = e]
  OBVIOUS
<1>7. counted = [d EXCEPT !.action[m.action].path_instance_number[m.path] = @ + 1]
  BY <1>1, <1>3, <1>4, <1>6, ConfigParts
<1>8. counted.action[x] = e
  BY <1>6, EntryStill
<1>9. \/ cli_process(d, m) = counted
      \/ \E slot : cli_process(d, m) = [counted EXCEPT !.action[m.action].path[m.path][slot] = m.to]
  <2>1. cli_process(d, m) = install_path(d, m)
    BY DEF cli_process, Idle
  <2> QED BY <1>7, <2>1 DEF install_path
<1>10. ASSUME NEW slot,
              cli_process(d, m) = [counted EXCEPT !.action[m.action].path[m.path][slot] = m.to]
       PROVE  StillPlaced(d, cli_process(d, m))
  <2>1. PICK f : f = [e EXCEPT !.path[m.path][slot] = m.to]
    OBVIOUS
  <2>2. f.function = old.function /\ f.state = old.state /\ f.core = old.core
    BY <1>4, <2>1 DEF EntryRec
  <2>3. cli_process(d, m) = [d EXCEPT !.action[x] = f]
    <3>1. cli_process(d, m) = [counted EXCEPT !.action[x] = f]
      BY <1>1, <1>8, <1>10, <2>1
    <3>2. [counted EXCEPT !.action[x] = f] = [d EXCEPT !.action[x] = f]
      BY <1>6, ConfigParts
    <3> QED BY <3>1, <3>2
  <2> QED BY <1>3, <2>2, <2>3, EntryPlaced
<1>11. CASE cli_process(d, m) = counted
  BY <1>3, <1>5, <1>6, <1>11, EntryPlaced
<1> QED BY <1>9, <1>10, <1>11

(* The five that write some of it.                                         *)
LEMMA RetaWritten ==
    ASSUME NEW S, S \subseteq Indices, NEW d \in ConfigRec, NEW m \in Command(S),
           m.op = "rss_reta_config"
    PROVE  Written(d, m, cli_process(d, m))
<1>1. PICK r : r = rss_reta_config(d, m)
  OBVIOUS
<1>2. cli_process(d, m) = r
  BY <1>1 DEF cli_process, Idle
<1>3. /\ r.reta = [b \in RssBuckets |-> IF b \in Span(m) THEN queue_id(m.worker) ELSE d.reta[b]]
      /\ r.buckets = d.buckets /\ r.first_action = d.first_action
      /\ r.action = d.action /\ r.state = d.state
  BY <1>1 DEF rss_reta_config, ConfigRec, Span
<1>4. WrittenReta(d, m, r)
  BY <1>3 DEF WrittenReta
<1>5. WrittenBuckets(d, m, r) /\ WrittenPaths(d, m, r)
  BY <1>3 DEF WrittenBuckets, WrittenPaths
<1>6. WrittenEntries(d, m, r)
  BY <1>3 DEF WrittenEntries
<1> QED BY <1>2, <1>4, <1>5, <1>6 DEF Written

(* worker first_action: the buckets of one worker.                         *)
LEMMA BucketsWritten ==
    ASSUME NEW S, S \subseteq Indices, NEW d \in ConfigRec, NEW m \in Command(S),
           m.op = "worker first_action"
    PROVE  Written(d, m, cli_process(d, m))
<1>1. PICK r : r = worker_first_action(d, m)
  OBVIOUS
<1>2. cli_process(d, m) = r /\ m.worker \in Cores
  BY <1>1 DEF cli_process, Command, Idle
<1>3. PICK row : row = [b \in RssBuckets |-> IF b \in Span(m) THEN m.action ELSE d.buckets[m.worker][b]]
  OBVIOUS
<1>4. /\ r.buckets = [d.buckets EXCEPT ![m.worker] = row]
      /\ r.first_action = [d.first_action EXCEPT ![m.worker] = TRUE]
      /\ r.reta = d.reta /\ r.action = d.action /\ r.state = d.state
  <2>1. row = [b \in RssBuckets |-> IF b \in m.start .. m.start + m.num - 1 THEN m.action
                                   ELSE d.buckets[m.worker][b]]
    BY <1>3 DEF Span
  <2>2. PICK t : t = [d EXCEPT !.buckets[m.worker] = row]
    OBVIOUS
  <2>3. r = [t EXCEPT !.first_action[m.worker] = TRUE]
    BY <1>1, <1>2, <2>1, <2>2, ConfigParts DEF worker_first_action
  <2>4. /\ t.buckets = [d.buckets EXCEPT ![m.worker] = row] /\ t.first_action = d.first_action
        /\ t.reta = d.reta /\ t.action = d.action /\ t.state = d.state
        /\ DOMAIN t = DOMAIN d
    BY <2>2 DEF ConfigRec
  <2> QED BY <2>3, <2>4 DEF ConfigRec
<1>5. d.buckets \in [Cores -> [RssBuckets -> Indices]] /\ d.first_action \in [Cores -> BOOLEAN]
  BY DEF ConfigRec
<1>6. WrittenBuckets(d, m, r)
  <2>1. ASSUME NEW w \in Cores PROVE d.first_action[w] \/ m.worker = w => r.first_action[w]
    BY <1>2, <1>4, <1>5
  <2>2. ASSUME NEW w \in Cores, NEW b \in RssBuckets
        PROVE  r.buckets[w][b] = IF m.worker = w /\ b \in Span(m) THEN m.action ELSE d.buckets[w][b]
    <3>1. row[b] = IF b \in Span(m) THEN m.action ELSE d.buckets[m.worker][b]
      BY <1>3
    <3>2. r.buckets[w] = IF m.worker = w THEN row ELSE d.buckets[w]
      BY <1>2, <1>4, <1>5
    <3> QED BY <3>1, <3>2
  <2> QED BY <2>1, <2>2 DEF WrittenBuckets
<1>7. WrittenReta(d, m, r) /\ WrittenPaths(d, m, r)
  BY <1>4 DEF WrittenReta, WrittenPaths
<1>8. WrittenEntries(d, m, r)
  BY <1>4 DEF WrittenEntries
<1> QED BY <1>2, <1>6, <1>7, <1>8 DEF Written

(* action create: an entry.                                                *)
LEMMA EntryWritten ==
    ASSUME NEW S, S \subseteq Indices, NEW d \in ConfigRec, NEW m \in Command(S),
           m.op = "action create"
    PROVE  Written(d, m, cli_process(d, m))
<1>1. PICK x \in Indices : x = m.action
  BY DEF Command, Idle
<1>2. PICK e : e = [function |-> register_action[m.registration], state |-> m.state,
                    core |-> m.core, path |-> NoInstance, path_instance_number |-> ZeroPath]
  OBVIOUS
<1>3. PICK r : r = [d EXCEPT !.action[x] = e]
  OBVIOUS
<1>4. cli_process(d, m) = r
  <2>1. cli_process(d, m) = action_create(d, m)
    BY DEF cli_process, Idle
  <2> QED BY <1>1, <1>2, <1>3, <2>1 DEF action_create
<1>5. /\ r.reta = d.reta /\ r.buckets = d.buckets /\ r.first_action = d.first_action
      /\ r.state = d.state /\ r.action[x] = e
      /\ \A y \in Indices : y # x => r.action[y] = d.action[y]
  BY ONLY d \in ConfigRec, <1>1, <1>3, EntryStill
<1>6. e.function = register_action[m.registration] /\ e.state = m.state /\ e.core = m.core
  BY <1>2
<1>7. WrittenEntries(d, m, r)
  BY <1>1, <1>5, <1>6 DEF WrittenEntries
<1>8. WrittenReta(d, m, r) /\ WrittenPaths(d, m, r) /\ WrittenBuckets(d, m, r)
  BY <1>5 DEF WrittenReta, WrittenPaths, WrittenBuckets
<1> QED BY <1>4, <1>7, <1>8 DEF Written

(* create_packet_out: an entry, too.                                       *)
LEMMA OutWritten ==
    ASSUME NEW S, S \subseteq Indices, NEW d \in ConfigRec, NEW m \in Command(S),
           m.op = "create_packet_out"
    PROVE  Written(d, m, cli_process(d, m))
<1>1. m.action \in Indices /\ m.core \in Cores
  BY DEF Command, Idle
<1>2. PICK old \in EntryRec : old = d.action[m.action]
  BY <1>1, ConfigParts
<1>3. PICK e1 : e1 = [old EXCEPT !.function = "transmit_packet"]
  OBVIOUS
<1>4. PICK e2 : e2 = [e1 EXCEPT !.state = -1]
  OBVIOUS
<1>5. PICK e : e = [e2 EXCEPT !.core = m.core]
  OBVIOUS
<1>6. e.function = "transmit_packet" /\ e.core = m.core
  BY <1>3, <1>4, <1>5 DEF EntryRec
<1>7. e = [old EXCEPT !.function = "transmit_packet", !.state = -1, !.core = m.core]
  BY ONLY <1>3, <1>4, <1>5
<1>8. PICK r : r = [d EXCEPT !.action[m.action] = e]
  OBVIOUS
<1>9. PICK t : t = [r EXCEPT !.last_action[m.core] = TRUE]
  OBVIOUS
<1>10. cli_process(d, m) = t
  BY <1>2, <1>7, <1>8, <1>9 DEF cli_process, Idle, create_packet_out
<1>11. /\ r.reta = d.reta /\ r.buckets = d.buckets /\ r.first_action = d.first_action
       /\ r.state = d.state /\ r.action[m.action] = e
       /\ \A y \in Indices : y # m.action => r.action[y] = d.action[y]
  BY <1>1, <1>8, EntryStill
<1>12. /\ t.reta = r.reta /\ t.buckets = r.buckets /\ t.first_action = r.first_action
       /\ t.state = r.state /\ t.action = r.action
  BY <1>8, <1>9 DEF ConfigRec
<1>13. WrittenEntries(d, m, t)
  BY <1>6, <1>11, <1>12 DEF WrittenEntries
<1>14. WrittenReta(d, m, t) /\ WrittenPaths(d, m, t) /\ WrittenBuckets(d, m, t)
  BY <1>11, <1>12 DEF WrittenReta, WrittenPaths, WrittenBuckets
<1> QED BY <1>10, <1>13, <1>14 DEF Written

(* install_simple_path: a slot of a state.                                 *)
LEMMA PathWritten ==
    ASSUME NEW S, S \subseteq Indices, NEW d \in ConfigRec, NEW m \in Command(S),
           m.op = "install_simple_path"
    PROVE  Written(d, m, cli_process(d, m))
<1>1. m.state \in Indices /\ m.path \in Local(MaximumPath)
  BY DEF Command, Idle
<1>2. PICK old \in StateRec : old = d.state[m.state]
  BY <1>1, ConfigParts
<1>3. PICK e : e = [old EXCEPT !.simple_path[m.path] = m.action]
  OBVIOUS
<1>4. PICK r : r = [d EXCEPT !.state[m.state] = e]
  OBVIOUS
<1>5. cli_process(d, m) = r
  BY <1>1, <1>2, <1>3, <1>4, ConfigParts DEF cli_process, Idle, install_simple_path
<1>6. /\ r.reta = d.reta /\ r.buckets = d.buckets /\ r.first_action = d.first_action
      /\ r.action = d.action /\ r.state[m.state] = e
      /\ \A y \in Indices : y # m.state => r.state[y] = d.state[y]
  BY <1>1, <1>4, StateStill
<1>7. \A q \in Local(MaximumPath) :
         e.simple_path[q] = IF m.path = q THEN m.action ELSE old.simple_path[q]
  BY <1>3 DEF StateRec
<1>8. WrittenPaths(d, m, r)
  <2>1. ASSUME NEW x \in Indices, NEW q \in Local(MaximumPath)
        PROVE  r.state[x].simple_path[q] = IF m.state = x /\ m.path = q THEN m.action
                                           ELSE d.state[x].simple_path[q]
    BY <1>2, <1>6, <1>7
  <2> QED BY <2>1 DEF WrittenPaths
<1>9. WrittenReta(d, m, r) /\ WrittenBuckets(d, m, r)
  BY <1>6 DEF WrittenReta, WrittenBuckets
<1>10. WrittenEntries(d, m, r)
  BY <1>6 DEF WrittenEntries
<1> QED BY <1>5, <1>8, <1>9, <1>10 DEF Written

(* The port is none of it, whether it starts or not.                       *)
LEMMA PortStill ==
    ASSUME NEW d \in ConfigRec, NEW r \in port_init(d)
    PROVE  StillPlaced(d, r)
<1>1. ASSUME NEW p, r = [d EXCEPT !.port = p] PROVE StillPlaced(d, r)
  <2>1. /\ r.reta = d.reta /\ r.buckets = d.buckets /\ r.first_action = d.first_action
        /\ r.action = d.action /\ r.state = d.state
    BY <1>1 DEF ConfigRec
  <2> QED BY <2>1 DEF StillPlaced
<1>2. r = d \/ \E p \in {"failed", "started"} : r = [d EXCEPT !.port = p]
  BY DEF port_init
<1>3. CASE r = d
  BY <1>3 DEF StillPlaced
<1> QED BY <1>1, <1>2, <1>3

(* Each command served writes what Written says.                           *)
LEMMA ServeWrites ==
    ASSUME NEW S, S \subseteq Indices, c \in ConfigRec, NEW m \in Command(S), Serve(m)
    PROVE  Written(c, m, c')
<1>1. CASE m.op \in Simple /\ c' = cli_process(c, m)
  <2>1. CASE m.op \in Idle
    <3>1. cli_process(c, m) = c
      BY <2>1 DEF cli_process, Idle
    <3>2. m.op \notin Placing /\ StillPlaced(c, c')
      BY <1>1, <2>1, <3>1 DEF Idle, Placing, StillPlaced
    <3> QED BY <3>2, StillWritten
  <2>2. CASE m.op \in {"config parameter", "worker run", "last_action", "first_action"}
    <3>1. StillPlaced(c, c') /\ m.op \notin Placing
      BY <1>1, <2>2, OthersStill DEF Placing
    <3> QED BY <3>1, StillWritten
  <2>3. CASE m.op \in {"state create", "control_frequency", "data_state"}
    <3>1. StillPlaced(c, c') /\ m.op \notin Placing
      BY <1>1, <2>3, StatesStill DEF Placing
    <3> QED BY <3>1, StillWritten
  <2>4. CASE m.op = "install_path"
    <3>1. StillPlaced(c, c') /\ m.op \notin Placing
      BY <1>1, <2>4, InstallStill DEF Placing
    <3> QED BY <3>1, StillWritten
  <2>5. CASE m.op = "rss_reta_config"
    BY <1>1, <2>5, RetaWritten
  <2>6. CASE m.op = "worker first_action"
    BY <1>1, <2>6, BucketsWritten
  <2>7. CASE m.op = "action create"
    BY <1>1, <2>7, EntryWritten
  <2>8. CASE m.op = "create_packet_out"
    BY <1>1, <2>8, OutWritten
  <2>9. CASE m.op = "install_simple_path"
    BY <1>1, <2>9, PathWritten
  <2> QED BY <1>1, <2>1, <2>2, <2>3, <2>4, <2>5, <2>6, <2>7, <2>8, <2>9 DEF Simple
<1>2. CASE m.op = "port init" /\ c' \in port_init(c)
  <2>1. StillPlaced(c, c') /\ m.op \notin Placing
    BY <1>2, PortStill DEF Placing
  <2> QED BY <2>1, StillWritten
<1>3. CASE m.op = "rss" /\ UNCHANGED c
  <2>1. StillPlaced(c, c') /\ m.op \notin Placing
    BY <1>3 DEF StillPlaced, Placing
  <2> QED BY <2>1, StillWritten
<1> QED BY <1>1, <1>2, <1>3 DEF Serve
-------------------------------------------------------------------------------
(* What a command of the script leaves: of the path commands for one entry *)
(* of a state the last stays, whichever it was.                            *)
Holds(p, m, d) ==
    /\ m.op = "rss_reta_config" =>
          \A b \in RssBuckets : b \in Span(m) => d.reta[b] = queue_id(m.worker)
    /\ m.op = "worker first_action" =>
          /\ d.first_action[m.worker]
          /\ \A b \in RssBuckets : b \in Span(m) => d.buckets[m.worker][b] = m.action
    /\ m.op = "action create" =>
          /\ d.action[m.action].function = register_action[m.registration]
          /\ d.action[m.action].state = m.state /\ d.action[m.action].core = m.core
    /\ m.op = "create_packet_out" =>
          d.action[m.action].function = "transmit_packet" /\ d.action[m.action].core = m.core
    /\ m.op = "install_simple_path" =>
          \E m1 : /\ SentPath(p, m1) /\ m1.state = m.state /\ m1.path = m.path
                 /\ d.state[m.state].simple_path[m.path] = m1.action

(* No bucket is in the shares of two instances.                            *)
LEMMA Apart ==
    ASSUME NEW k \in Nat \ {0}, NEW s \in Starts(k), NEW i \in 0 .. k - 1, NEW j \in 0 .. k - 1,
           i # j, NEW b, b \in s[i] .. s[i] + NumBuckets(k) - 1, b \in s[j] .. s[j] + NumBuckets(k) - 1
    PROVE  FALSE
<1>1. /\ NumBuckets(k) \in Nat
      /\ \A x \in 0 .. k - 1 : s[x] \in Nat
      /\ \A x, y \in 0 .. k - 1 : x < y => s[x] + NumBuckets(k) <= s[y]
  BY StartFacts
<1>2. PICK q \in Nat : q = NumBuckets(k)
  BY <1>1
<1>3. PICK x \in Nat : x = s[i]
  BY <1>1
<1>4. PICK y \in Nat : y = s[j]
  BY <1>1
<1>5. i < j \/ j < i
  OBVIOUS
<1>6. x + q <= y \/ y + q <= x
  BY <1>1, <1>2, <1>3, <1>4, <1>5
<1>7. b \in x .. x + q - 1 /\ b \in y .. y + q - 1
  BY <1>2, <1>3, <1>4
<1> QED BY ONLY <1>2, <1>3, <1>4, <1>6, <1>7

(* The command's name tells which loop sent it.                            *)
LEMMA SentOps ==
    ASSUME NEW p, NEW s, NEW m, IsSent(p, s, m)
    PROVE  /\ m.op \in Placing
           /\ m.op = "rss_reta_config" => SentReta(p, s, m)
           /\ m.op = "action create" => SentCreate(p, m)
           /\ m.op = "create_packet_out" => SentOut(p, m)
           /\ m.op = "worker first_action" => SentFirst(p, s, m)
           /\ m.op = "install_simple_path" => SentPath(p, m)
<1>1. CASE SentReta(p, s, m)
  <2>1. m.op = "rss_reta_config"
    BY <1>1 DEF SentReta, RetaCommand
  <2> QED BY <1>1, <2>1 DEF Placing
<1>2. CASE SentCreate(p, m)
  <2>1. m.op = "action create"
    <3>1. PICK a \in Members(p) : m = CreateCommand(p, a)
      BY <1>2 DEF SentCreate
    <3> QED BY ONLY <3>1 DEF CreateCommand
  <2> QED BY <1>2, <2>1 DEF Placing
<1>3. CASE SentOut(p, m)
  <2>1. m.op = "create_packet_out"
    BY <1>3 DEF SentOut, OutCommand
  <2> QED BY <1>3, <2>1 DEF Placing
<1>4. CASE SentFirst(p, s, m)
  <2>1. m.op = "worker first_action"
    <3>1. PICK a \in Members(p), b \in Members(p) : m = FirstCommand(p, s, a, b)
      BY <1>4 DEF SentFirst
    <3> QED BY ONLY <3>1 DEF FirstCommand
  <2> QED BY <1>4, <2>1 DEF Placing
<1>5. CASE SentPath(p, m)
  <2>1. m.op = "install_simple_path"
    BY <1>5 DEF SentPath, PathCommand
  <2> QED BY <1>5, <2>1 DEF Placing
<1> QED BY <1>1, <1>2, <1>3, <1>4, <1>5 DEF IsSent

(* One fact for each name:                                                 *)
LEMMA OpReta ==
    ASSUME NEW p, NEW s, NEW m, IsSent(p, s, m), m.op = "rss_reta_config"
    PROVE  SentReta(p, s, m)
BY SentOps

(* the same for an entry,                                                  *)
LEMMA OpCreate ==
    ASSUME NEW p, NEW s, NEW m, IsSent(p, s, m), m.op = "action create"
    PROVE  SentCreate(p, m)
BY SentOps

(* for packet_out,                                                         *)
LEMMA OpOut ==
    ASSUME NEW p, NEW s, NEW m, IsSent(p, s, m), m.op = "create_packet_out"
    PROVE  SentOut(p, m)
BY SentOps

(* for a first action                                                      *)
LEMMA OpFirst ==
    ASSUME NEW p, NEW s, NEW m, IsSent(p, s, m), m.op = "worker first_action"
    PROVE  SentFirst(p, s, m)
BY SentOps

(* and for a path.                                                         *)
LEMMA OpPath ==
    ASSUME NEW p, NEW s, NEW m, IsSent(p, s, m), m.op = "install_simple_path"
    PROVE  SentPath(p, m)
BY SentOps

(* What the plans are.                                                     *)
LEMMA PlanFacts ==
    ASSUME BucketsFit, NEW p \in Plans
    PROVE  /\ p \in [Actions -> Nat] /\ p["packet_in"] \in Nat \ {0}
           /\ p["gd_classifier"] = p["packet_in"]
           /\ "packet_in" \in Actions /\ "gd_classifier" \in Actions
BY DEF BucketsFit, Follows, Actions

(* What an instance is.                                                    *)
LEMMA MemberFacts ==
    ASSUME NEW p, NEW a \in Members(p)
    PROVE  a.action \in Actions /\ a.id \in Nat /\ a.id < p[a.action]
BY DEF Members

(* An instance is its action and its number.                               *)
LEMMA SameMember ==
    ASSUME NEW p, NEW a \in Members(p), NEW b \in Members(p), a.action = b.action, a.id = b.id
    PROVE  a = b
BY DEF Members

(* packet_in's instance i is wired to the classifier i.                    *)
LEMMA WiredIn ==
    ASSUME BucketsFit, NEW p \in Plans, NEW a \in Members(p), NEW b \in Members(p)
    PROVE  /\ Wired(p, a, b) => Follows(a.action, b.action)
           /\ a.action = "packet_in" =>
                (Wired(p, a, b) <=> b.action = "gd_classifier" /\ b.id = a.id)
<1>1. a.action \in Actions /\ b.action \in Actions
  BY DEF Members
<1>2. Wired(p, a, b) => Follows(a.action, b.action)
  BY <1>1 DEF Wired, Follows, Actions
<1>3. ASSUME a.action = "packet_in"
      PROVE  Wired(p, a, b) <=> b.action = "gd_classifier" /\ b.id = a.id
  <2>1. Follows("packet_in", b.action) <=> b.action = "gd_classifier"
    BY <1>1 DEF BucketsFit, Actions
  <2>2. p["gd_classifier"] = p["packet_in"] /\ p["packet_in"] \in Nat
    BY DEF BucketsFit, Follows
  <2>3. CASE b.action = "gd_classifier"
    <3>1. Follows(a.action, b.action)
      BY <1>3, <2>1, <2>3
    <3>2. PICK k \in Nat : p[a.action] = k /\ p[b.action] = k
      BY <1>3, <2>2, <2>3
    <3>3. ~(k < k) /\ ~(k > k)
      OBVIOUS
    <3> QED BY <2>3, <3>1, <3>2, <3>3 DEF Wired, Follows
  <2>4. CASE b.action # "gd_classifier"
    BY <1>2, <1>3, <2>1, <2>4
  <2> QED BY <2>3, <2>4
<1> QED BY <1>2, <1>3

(* One command of the script writes a bucket of the redirection table,     *)
LEMMA OneReta ==
    ASSUME BucketsFit, NEW p \in Plans, NEW s \in Starts(p["packet_in"]), NEW m, NEW m0,
           IsSent(p, s, m), IsSent(p, s, m0), m.op = "rss_reta_config", m0.op = "rss_reta_config",
           NEW b, b \in Span(m), b \in Span(m0)
    PROVE  m = m0
<1>1. PICK i \in 0 .. p["packet_in"] - 1 : m = RetaCommand(p, s, i)
  <2>1. SentReta(p, s, m)
    BY OpReta
  <2> QED BY ONLY <2>1 DEF SentReta
<1>2. PICK j \in 0 .. p["packet_in"] - 1 : m0 = RetaCommand(p, s, j)
  <2>1. SentReta(p, s, m0)
    BY OpReta
  <2> QED BY ONLY <2>1 DEF SentReta
<1>3. PICK k \in Nat \ {0} : k = p["packet_in"]
  BY PlanFacts
<1>4. b \in s[i] .. s[i] + NumBuckets(k) - 1 /\ b \in s[j] .. s[j] + NumBuckets(k) - 1
  BY <1>1, <1>2, <1>3 DEF RetaCommand, Span
<1>5. i = j
  <2>1. s \in Starts(k) /\ i \in 0 .. k - 1 /\ j \in 0 .. k - 1
    BY <1>1, <1>2, <1>3
  <2> QED BY ONLY <1>3, <1>4, <2>1, Apart
<1> QED BY <1>1, <1>2, <1>5

(* one a bucket of the workers,                                            *)
LEMMA OneFirst ==
    ASSUME BucketsFit, NEW p \in Plans, NEW s \in Starts(p["packet_in"]), NEW m, NEW m0,
           IsSent(p, s, m), IsSent(p, s, m0),
           m.op = "worker first_action", m0.op = "worker first_action",
           NEW b, b \in Span(m), b \in Span(m0)
    PROVE  m = m0
<1>1. PICK u \in Members(p), v \in Members(p) :
         u.action = "packet_in" /\ Wired(p, u, v) /\ m = FirstCommand(p, s, u, v)
  <2>1. SentFirst(p, s, m)
    BY OpFirst
  <2> QED BY ONLY <2>1 DEF SentFirst
<1>2. PICK x \in Members(p), y \in Members(p) :
         x.action = "packet_in" /\ Wired(p, x, y) /\ m0 = FirstCommand(p, s, x, y)
  <2>1. SentFirst(p, s, m0)
    BY OpFirst
  <2> QED BY ONLY <2>1 DEF SentFirst
<1>3. PICK k \in Nat \ {0} : k = p["packet_in"]
  BY PlanFacts
<1>4. u.id \in 0 .. k - 1 /\ x.id \in 0 .. k - 1
  <2>1. u.id \in Nat /\ u.id < p["packet_in"]
    <3>1. u.id \in Nat /\ u.id < p[u.action]
      BY <1>1, MemberFacts
    <3> QED BY <1>1, <3>1
  <2>2. x.id \in Nat /\ x.id < p["packet_in"]
    <3>1. x.id \in Nat /\ x.id < p[x.action]
      BY <1>2, MemberFacts
    <3> QED BY <1>2, <3>1
  <2> QED BY ONLY <1>3, <2>1, <2>2
<1>5. PICK i \in 0 .. k - 1 : i = u.id
  BY <1>4
<1>6. PICK j \in 0 .. k - 1 : j = x.id
  BY <1>4
<1>7. b \in s[i] .. s[i] + NumBuckets(k) - 1 /\ b \in s[j] .. s[j] + NumBuckets(k) - 1
  BY <1>1, <1>2, <1>3, <1>5, <1>6 DEF FirstCommand, Span
<1>8. i = j
  <2>1. s \in Starts(k)
    BY <1>3
  <2> QED BY ONLY <1>3, <1>5, <1>6, <1>7, <2>1, Apart
<1>9. u = x
  BY <1>1, <1>2, <1>5, <1>6, <1>8, SameMember
<1>10. v.action = "gd_classifier" /\ v.id = i /\ y.action = "gd_classifier" /\ y.id = i
  <2>1. v.action = "gd_classifier" /\ v.id = u.id
    BY <1>1, WiredIn
  <2>2. y.action = "gd_classifier" /\ y.id = x.id
    BY <1>2, WiredIn
  <2> QED BY ONLY <1>5, <1>6, <1>8, <2>1, <2>2
<1>11. v = y
  BY <1>10, SameMember
<1> QED BY <1>1, <1>2, <1>9, <1>11

(* and one an entry: the index of an instance in the list identifies it.   *)
LEMMA OneEntry ==
    ASSUME BucketsFit, NEW p \in Plans, NEW s, NEW m, NEW m0,
           IsSent(p, s, m), IsSent(p, s, m0),
           m.op \in {"action create", "create_packet_out"},
           m0.op \in {"action create", "create_packet_out"}, m.action = m0.action
    PROVE  m = m0
<1>1. p \in [Actions -> Nat]
  BY DEF BucketsFit, Actions
<1>2. ASSUME NEW x, IsSent(p, s, x), x.op \in {"action create", "create_packet_out"}
      PROVE  \E a \in Members(p) :
                /\ x.action = action_index(p, a)
                /\ \/ a.action \notin Bare /\ x = CreateCommand(p, a)
                   \/ a.action = "packet_out" /\ x = OutCommand(p, a)
  <2>1. CASE x.op = "action create"
    <3>1. PICK a \in Members(p) : a.action \notin Bare /\ x = CreateCommand(p, a)
      <4>1. SentCreate(p, x)
        BY <1>2, <2>1, OpCreate
      <4> QED BY ONLY <4>1 DEF SentCreate
    <3>2. x.action = action_index(p, a)
      BY <3>1 DEF CreateCommand
    <3> QED BY <3>1, <3>2
  <2>2. CASE x.op = "create_packet_out"
    <3>1. PICK a \in Members(p) : a.action = "packet_out" /\ x = OutCommand(p, a)
      <4>1. SentOut(p, x)
        BY <1>2, <2>2, OpOut
      <4> QED BY ONLY <4>1 DEF SentOut
    <3>2. x.action = action_index(p, a)
      BY <3>1 DEF OutCommand
    <3> QED BY <3>1, <3>2
  <2> QED BY <1>2, <2>1, <2>2
<1>3. PICK a \in Members(p) :
         /\ m.action = action_index(p, a)
         /\ \/ a.action \notin Bare /\ m = CreateCommand(p, a)
            \/ a.action = "packet_out" /\ m = OutCommand(p, a)
  BY <1>2
<1>4. PICK b \in Members(p) :
         /\ m0.action = action_index(p, b)
         /\ \/ b.action \notin Bare /\ m0 = CreateCommand(p, b)
            \/ b.action = "packet_out" /\ m0 = OutCommand(p, b)
  BY <1>2
<1>5. a = b
  <2>1. PICK list \in Seq(Members(p)) : list = action_instances(p) /\ ToSet(list) = Members(p)
    BY <1>1, ActionInstances
  <2>2. Index(list, a) = Index(list, b) /\ a \in ToSet(list) /\ b \in ToSet(list)
    BY <1>3, <1>4, <2>1 DEF action_index
  <2> QED BY ONLY <2>1, <2>2, IndexTells
<1>6. "packet_out" \in Bare
  BY DEF Bare
<1> QED BY <1>3, <1>4, <1>5, <1>6

(* A path command's state and number identify its instance and edge.       *)
LEMMA OnePath ==
    ASSUME BucketsFit, PathsFit, NEW p \in Plans,
           NEW a \in Members(p), NEW b \in Members(p), NEW u \in Members(p), NEW v \in Members(p),
           a.action # "packet_in", Wired(p, a, b), u.action # "packet_in", Wired(p, u, v),
           PathCommand(p, a, b).state = PathCommand(p, u, v).state,
           PathCommand(p, a, b).path = PathCommand(p, u, v).path
    PROVE  a = u /\ b.action = v.action
<1>1. p \in [Actions -> Nat] /\ \A t \in ToSet(StateList) : FirstAction(t) \in Actions
  BY DEF BucketsFit, Actions
<1>5. <<a.action, b.action>> \in ToSet(Edges) /\ <<u.action, v.action>> \in ToSet(Edges)
  BY DEF Wired
<1>6. <<a.action, b.action>> = <<u.action, v.action>>
  <2>1. Index(Edges, <<a.action, b.action>>) = Index(Edges, <<u.action, v.action>>)
    BY DEF PathCommand, get_path_id
  <2> QED BY <1>5, <2>1, ListsAssumption, IndexTells
<1>7. a.action = u.action /\ b.action = v.action
  BY <1>6
<1>8. a.action \in ToSet(ActionList) \ Bare
  <2>1. a.action \in ToSet(ActionList)
    BY DEF Members, Actions
  <2>2. <<a.action, b.action>>[1] \notin {"packet_out", "drop"}
    BY <1>5 DEF PathsFit
  <2> QED BY <2>1, <2>2 DEF Bare
<1>9. StateOf(a.action) \in ToSet(StateList) /\ p[a.action] <= p[FirstAction(StateOf(a.action))]
  BY <1>8 DEF PathsFit
<1>10. ASSUME NEW x \in Members(p), x.action = a.action
       PROVE  [state |-> StateOf(x.action), id |-> x.id] \in StateMembers(p)
  <2>1. x.id \in Nat /\ x.id < p[x.action] /\ p[x.action] \in Nat
    BY <1>1 DEF Members
  <2>2. p[FirstAction(StateOf(x.action))] \in Nat
    BY <1>1, <1>9, <1>10
  <2>3. x.id < p[FirstAction(StateOf(x.action))]
    BY <1>9, <1>10, <2>1, <2>2
  <2> QED BY <1>9, <1>10, <2>1, <2>3 DEF StateMembers
<1>11. a.id = u.id
  <2>1. PICK list \in Seq(StateMembers(p)) :
           list = state_instances(p) /\ ToSet(list) = StateMembers(p)
    BY <1>1, StateInstances
  <2>2. PICK g : g = [state |-> StateOf(a.action), id |-> a.id]
    OBVIOUS
  <2>3. PICK h : h = [state |-> StateOf(u.action), id |-> u.id]
    OBVIOUS
  <2>4. g \in ToSet(list) /\ h \in ToSet(list)
    BY <1>7, <1>10, <2>1, <2>2, <2>3
  <2>5. Index(list, g) = Index(list, h)
    BY <2>1, <2>2, <2>3 DEF PathCommand, state_index
  <2>6. g = h
    BY ONLY <2>1, <2>4, <2>5, IndexTells
  <2> QED BY <2>2, <2>3, <2>6
<1>12. a = u
  BY <1>7, <1>11, SameMember
<1> QED BY <1>7, <1>12
-------------------------------------------------------------------------------
(* A command of the script leaves what an earlier one placed for good.     *)
LEMMA RetaOn ==
    ASSUME BucketsFit, NEW p \in Plans, NEW s \in Starts(p["packet_in"]), NEW d, NEW r, NEW m0, NEW m,
           WrittenReta(d, m0, r), m0.op \in Placing => IsSent(p, s, m0), IsSent(p, s, m),
           m.op = "rss_reta_config", m = m0 \/ Holds(p, m, d)
    PROVE  Holds(p, m, r)
<1>1. ASSUME NEW b \in RssBuckets, b \in Span(m) PROVE r.reta[b] = queue_id(m.worker)
  <2>1. CASE m0.op = "rss_reta_config" /\ b \in Span(m0)
    <3>1. m0.op \in Placing
      BY <2>1 DEF Placing
    <3>2. m = m0
      BY <1>1, <2>1, <3>1, OneReta
    <3> QED BY <1>1, <2>1, <3>2 DEF WrittenReta
  <2>2. CASE ~(m0.op = "rss_reta_config" /\ b \in Span(m0))
    <3>1. Holds(p, m, d)
      BY <1>1, <2>2
    <3>2. d.reta[b] = queue_id(m.worker)
      BY <1>1, <3>1 DEF Holds
    <3> QED BY <2>2, <3>2 DEF WrittenReta
  <2> QED BY <2>1, <2>2
<1> QED BY <1>1 DEF Holds

(* The same for the workers' buckets,                                      *)
LEMMA FirstOn ==
    ASSUME BucketsFit, NEW p \in Plans, NEW s \in Starts(p["packet_in"]), NEW d, NEW r, NEW m0, NEW m,
           WrittenBuckets(d, m0, r), m0.op \in Placing => IsSent(p, s, m0), IsSent(p, s, m),
           m.op = "worker first_action", m.worker \in Cores, m = m0 \/ Holds(p, m, d)
    PROVE  Holds(p, m, r)
<1>1. r.first_action[m.worker]
  <2>1. d.first_action[m.worker] \/ (m0.op = "worker first_action" /\ m0.worker = m.worker)
    BY DEF Holds
  <2> QED BY <2>1 DEF WrittenBuckets
<1>2. ASSUME NEW b \in RssBuckets, b \in Span(m) PROVE r.buckets[m.worker][b] = m.action
  <2>1. CASE m0.op = "worker first_action" /\ m0.worker = m.worker /\ b \in Span(m0)
    <3>1. m0.op \in Placing
      BY <2>1 DEF Placing
    <3>2. m = m0
      BY <1>2, <2>1, <3>1, OneFirst
    <3> QED BY <1>2, <2>1, <3>2 DEF WrittenBuckets
  <2>2. CASE ~(m0.op = "worker first_action" /\ m0.worker = m.worker /\ b \in Span(m0))
    <3>1. Holds(p, m, d)
      BY <1>2, <2>2
    <3>2. d.buckets[m.worker][b] = m.action
      BY <1>2, <3>1 DEF Holds
    <3> QED BY <2>2, <3>2 DEF WrittenBuckets
  <2> QED BY <2>1, <2>2
<1> QED BY <1>1, <1>2 DEF Holds

(* for the entries,                                                        *)
LEMMA EntryOn ==
    ASSUME BucketsFit, NEW p \in Plans, NEW s, NEW d, NEW r, NEW m0, NEW m,
           WrittenEntries(d, m0, r), m0.op \in Placing => IsSent(p, s, m0), IsSent(p, s, m),
           m.op \in {"action create", "create_packet_out"}, m.action \in Indices, m = m0 \/ Holds(p, m, d)
    PROVE  Holds(p, m, r)
<1>1. CASE m0.op \in {"action create", "create_packet_out"} /\ m0.action = m.action
  <2>1. m0.op \in Placing
    BY <1>1 DEF Placing
  <2>2. m = m0
    BY <1>1, <2>1, OneEntry
  <2>3. CASE m.op = "action create"
    <3>1. /\ r.action[m.action].function = register_action[m.registration]
          /\ r.action[m.action].state = m.state /\ r.action[m.action].core = m.core
      BY <2>2, <2>3 DEF WrittenEntries
    <3> QED BY <2>3, <3>1 DEF Holds
  <2>4. CASE m.op = "create_packet_out"
    <3>1. r.action[m.action].function = "transmit_packet" /\ r.action[m.action].core = m.core
      BY <2>2, <2>4 DEF WrittenEntries
    <3> QED BY <2>4, <3>1 DEF Holds
  <2> QED BY <2>3, <2>4
<1>2. CASE ~(m0.op \in {"action create", "create_packet_out"} /\ m0.action = m.action)
  <2>1. Holds(p, m, d)
    BY <1>2
  <2>2. PICK x \in Indices : x = m.action
    OBVIOUS
  <2>3. /\ r.action[x].function = d.action[x].function
        /\ r.action[x].state = d.action[x].state /\ r.action[x].core = d.action[x].core
    BY <1>2, <2>2 DEF WrittenEntries
  <2>4. CASE m.op = "action create"
    <3>1. /\ d.action[x].function = register_action[m.registration]
          /\ d.action[x].state = m.state /\ d.action[x].core = m.core
      BY <2>1, <2>2, <2>4 DEF Holds
    <3> QED BY <2>2, <2>3, <2>4, <3>1 DEF Holds
  <2>5. CASE m.op = "create_packet_out"
    <3>1. d.action[x].function = "transmit_packet" /\ d.action[x].core = m.core
      BY <2>1, <2>2, <2>5 DEF Holds
    <3> QED BY <2>2, <2>3, <2>5, <3>1 DEF Holds
  <2> QED BY <2>4, <2>5
<1> QED BY <1>1, <1>2

(* for the paths                                                           *)
LEMMA PathOn ==
    ASSUME NEW p, NEW s, NEW d, NEW r, NEW m0, NEW m,
           WrittenPaths(d, m0, r), m0.op \in Placing => IsSent(p, s, m0), IsSent(p, s, m),
           m.op = "install_simple_path", m.state \in Indices, m.path \in Local(MaximumPath),
           m = m0 \/ Holds(p, m, d)
    PROVE  Holds(p, m, r)
<1>1. CASE m0.op = "install_simple_path" /\ m0.state = m.state /\ m0.path = m.path
  <2>1. SentPath(p, m0)
    <3>1. m0.op \in Placing
      BY <1>1 DEF Placing
    <3> QED BY <1>1, <3>1, OpPath
  <2>2. r.state[m.state].simple_path[m.path] = m0.action
    BY <1>1 DEF WrittenPaths
  <2> QED BY <1>1, <2>1, <2>2 DEF Holds
<1>2. CASE ~(m0.op = "install_simple_path" /\ m0.state = m.state /\ m0.path = m.path)
  <2>1. PICK m1 : /\ SentPath(p, m1) /\ m1.state = m.state /\ m1.path = m.path
                  /\ d.state[m.state].simple_path[m.path] = m1.action
    BY <1>2 DEF Holds
  <2>2. r.state[m.state].simple_path[m.path] = d.state[m.state].simple_path[m.path]
    BY <1>2 DEF WrittenPaths
  <2> QED BY <2>1, <2>2 DEF Holds
<1> QED BY <1>1, <1>2

(* and for all of them.                                                    *)
LEMMA HoldsOn ==
    ASSUME BucketsFit, NEW p \in Plans, NEW s \in Starts(p["packet_in"]),
           NEW S, S \subseteq Indices, NEW d, NEW r, NEW m0, NEW m \in Command(S),
           Written(d, m0, r), m0.op \in Placing => IsSent(p, s, m0), IsSent(p, s, m),
           m = m0 \/ Holds(p, m, d)
    PROVE  Holds(p, m, r)
<1>1. WrittenReta(d, m0, r) /\ WrittenBuckets(d, m0, r) /\ WrittenEntries(d, m0, r) /\ WrittenPaths(d, m0, r)
  BY DEF Written
<1>3. CASE m.op = "rss_reta_config"
  BY <1>1, <1>3, RetaOn
<1>4. CASE m.op = "worker first_action"
  <2>1. m.worker \in Cores
    BY <1>4 DEF Command, Idle
  <2> QED BY <1>1, <1>4, <2>1, FirstOn
<1>5. CASE m.op \in {"action create", "create_packet_out"}
  <2>1. m.action \in Indices
    BY <1>5 DEF Command, Idle
  <2> QED BY <1>1, <1>5, <2>1, EntryOn
<1>6. CASE m.op = "install_simple_path"
  <2>1. m.state \in Indices /\ m.path \in Local(MaximumPath)
    BY <1>6 DEF Command, Idle
  <2> QED BY <1>1, <1>6, <2>1, PathOn
<1>7. m.op \in Placing
  BY SentOps
<1> QED BY <1>3, <1>4, <1>5, <1>6, <1>7 DEF Placing

(* What is to be placed is still to be sent or in its place.               *)
Coming(m) == m \in ToSet(script)
PlacedInv ==
    /\ starts \in Starts(n)
    /\ \A m : IsSent(plan, starts, m) => m \in Command(Instances)
    /\ \A m : Coming(m) /\ m.op \in Placing => IsSent(plan, starts, m)
    /\ \A m : IsSent(plan, starts, m) => Coming(m) \/ Holds(plan, m, c)

(* All is still to come.                                                   *)
LEMMA PlacedBegins ==
    ASSUME CommandsFit, BucketsFit, Init
    PROVE  PlacedInv
<1>1. plan \in Plans /\ starts \in Starts(plan["packet_in"])
  BY DEF Init
<1>2. PICK r \in Ranges, f \in Frequencies : script = Script(plan, starts, r, f)
  BY DEF Init
<1>3. /\ \A m \in ToSet(script) : m.op \in Placing => IsSent(plan, starts, m)
      /\ \A m : IsSent(plan, starts, m) => m \in ToSet(script)
  BY <1>1, <1>2, ScriptIs
<1>4. script \in Seq(Command(Instances))
  BY <1>1, <1>2 DEF CommandsFit, Instances
<1>5. \A m \in ToSet(script) : m \in Command(Instances)
  BY <1>4 DEF ToSet
<1> QED BY <1>1, <1>3, <1>5 DEF PlacedInv, Coming, n

(* A step that serves one command, or none, and writes what that one does. *)
LEMMA PlacedOn ==
    ASSUME CommandsFit, BucketsFit, DeploymentInv, PlacedInv, UNCHANGED <<plan, starts>>,
           NEW m0, Written(c, m0, c'), m0.op \in Placing => IsSent(plan, starts, m0),
           \A m : m \in ToSet(script') => Coming(m),
           \A m : Coming(m) => m \in ToSet(script') \/ m = m0
    PROVE  PlacedInv'
<1>1. plan \in Plans /\ Instances \subseteq Indices /\ starts \in Starts(plan["packet_in"])
  BY DEF DeploymentInv, Commanded, CommandsFit, Instances, PlacedInv, n
<1>2. ASSUME NEW m, IsSent(plan, starts, m) PROVE m \in ToSet(script') \/ Holds(plan, m, c')
  <2>1. m \in ToSet(script') \/ m = m0 \/ Holds(plan, m, c)
    BY <1>2 DEF PlacedInv
  <2>2. m \in Command(Instances)
    BY <1>2 DEF PlacedInv
  <2>3. ASSUME m = m0 \/ Holds(plan, m, c) PROVE Holds(plan, m, c')
    BY <1>1, <1>2, <2>2, <2>3, HoldsOn
  <2> QED BY <2>1, <2>3
<1>3. /\ starts' \in Starts(n')
      /\ \A m : IsSent(plan', starts', m) => m \in Command(Instances')
  BY DEF PlacedInv, n, Instances
<1>4. \A m : Coming(m)' /\ m.op \in Placing => IsSent(plan', starts', m)
  BY DEF PlacedInv, Coming
<1>5. \A m : IsSent(plan', starts', m) => Coming(m)' \/ Holds(plan', m, c')
  BY <1>2 DEF Coming
<1> QED BY <1>3, <1>4, <1>5 DEF PlacedInv

(* A command of the script, or an operator's that places nothing.          *)
LEMMA PlacedServed ==
    ASSUME CommandsFit, BucketsFit, OperatorAside, DeploymentInv, PlacedInv, Deploy \/ Type
    PROVE  PlacedInv'
<1>1. /\ plan \in Plans /\ script \in Seq(Command(Instances)) /\ Instances \subseteq Indices
      /\ OperatorCommands \subseteq Command(Instances) /\ c \in ConfigRec
  BY DEF DeploymentInv, Commanded, CommandsFit, Instances, Tables
<1>2. CASE Deploy
  <2>1. PICK m0 : m0 = Head(script)
    OBVIOUS
  <2>2. script # << >> /\ Serve(m0) /\ script' = Tail(script) /\ UNCHANGED <<plan, starts>>
    BY <1>2, <2>1 DEF Deploy, config
  <2>3. m0 \in Command(Instances) /\ Coming(m0)
    BY <1>1, <2>1, <2>2 DEF Coming, ToSet
  <2>4. /\ \A m : m \in ToSet(script') => Coming(m)
        /\ \A m : Coming(m) => m \in ToSet(script') \/ m = m0
    <3>1. PICK l \in Nat : l = Len(script) /\ DOMAIN script = 1 .. l /\ l > 0
      BY <1>1, <2>2
    <3>2. /\ DOMAIN Tail(script) = 1 .. l - 1
          /\ \A x \in 1 .. l - 1 : Tail(script)[x] = script[x + 1]
          /\ m0 = script[1]
      BY <1>1, <2>1, <2>2, <3>1
    <3>3. ASSUME NEW m, m \in ToSet(Tail(script)) PROVE m \in ToSet(script)
      <4>1. PICK x \in 1 .. l - 1 : m = script[x + 1]
        BY <3>2, <3>3 DEF ToSet
      <4>2. x + 1 \in 1 .. l
        BY <3>1
      <4> QED BY <3>1, <4>1, <4>2 DEF ToSet
    <3>4. ASSUME NEW m, m \in ToSet(script), m # m0 PROVE m \in ToSet(Tail(script))
      <4>1. PICK x \in 1 .. l : m = script[x]
        BY <3>1, <3>4 DEF ToSet
      <4>2. x # 1
        BY <3>2, <3>4, <4>1
      <4>3. x - 1 \in 1 .. l - 1 /\ (x - 1) + 1 = x
        BY <3>1, <4>2
      <4>4. m = Tail(script)[x - 1]
        BY <3>2, <4>1, <4>3
      <4> QED BY <3>2, <4>3, <4>4 DEF ToSet
    <3> QED BY <2>2, <3>3, <3>4 DEF Coming
  <2>5. Written(c, m0, c')
    BY <1>1, <2>2, <2>3, ServeWrites
  <2>6. m0.op \in Placing => IsSent(plan, starts, m0)
    BY <2>3 DEF PlacedInv
  <2> QED BY <2>2, <2>4, <2>5, <2>6, PlacedOn
<1>3. CASE Type
  <2>1. PICK m0 \in OperatorCommands : Serve(m0)
    BY <1>3 DEF Type
  <2>2. UNCHANGED <<plan, starts, script>>
    BY <1>3 DEF Type, config
  <2>3. Written(c, m0, c')
    BY <1>1, <2>1, ServeWrites
  <2>4. m0.op \notin Placing
    BY <2>1 DEF OperatorAside
  <2> QED BY <2>2, <2>3, <2>4, PlacedOn DEF Coming
<1> QED BY <1>2, <1>3

(* A step that serves no command.                                          *)
LEMMA PlacedSteps ==
    ASSUME CommandsFit, BucketsFit, DeploymentInv, PlacedInv,
           UNCHANGED <<plan, starts, script>>, StillPlaced(c, c')
    PROVE  PlacedInv'
<1>1. PICK m0 : m0 = [op |-> "comment"]
  OBVIOUS
<1>2. m0.op \notin Placing
  BY <1>1 DEF Placing
<1>3. Written(c, m0, c')
  BY <1>2, StillWritten
<1> QED BY <1>2, <1>3, PlacedOn DEF Coming

(* No function of the packets moves what the script placed.                *)
LEMMA PacketsStill ==
    ASSUME CommandsFit, DeploymentInv,
           (\E b \in RssBuckets : Arrive(b)) \/ Forward \/ UNCHANGED vars
    PROVE  UNCHANGED <<plan, starts, script>> /\ StillPlaced(c, c')
<1>1. CASE (\E b \in RssBuckets : Arrive(b)) \/ Park \/ transmit_packet \/ UNCHANGED vars
  <2>1. UNCHANGED <<c, plan, starts, script>>
    BY <1>1 DEF Arrive, Park, transmit_packet, vars, config
  <2> QED BY <2>1 DEF StillPlaced
<1>2. CASE generic_decomposed_classifier
  <2>1. Runs("gd_classifier")
    BY <1>2 DEF generic_decomposed_classifier
  <2>2. c \in ConfigRec /\ entry.state \in Indices /\ c.state[entry.state] \in StateRec
    BY <2>1, Found
  <2>3. PICK x \in Indices : x = entry.state
    BY <2>2
  <2>4. PICK s \in StateRec : s = c.state[x]
    BY <2>2, <2>3
  <2>5. PICK k : k = ClassifierCounter(s.frequency, s.counter)
    OBVIOUS
  <2>6. PICK e : e = [s EXCEPT !.counter = k]
    OBVIOUS
  <2>7. c' = [c EXCEPT !.state[x].counter = k]
    BY <1>2, <2>3, <2>4, <2>5 DEF generic_decomposed_classifier
  <2>8. c' = [c EXCEPT !.state[x] = e]
    BY <2>2, <2>4, <2>6, <2>7, ConfigParts
  <2>9. e.simple_path = s.simple_path
    BY <2>6 DEF StateRec
  <2>10. UNCHANGED <<plan, starts, script>>
    BY <1>2 DEF generic_decomposed_classifier, config
  <2>11. StillPlaced(c, [c EXCEPT !.state[x] = e])
    BY <2>2, <2>4, <2>9, StatePlaced
  <2> QED BY <2>8, <2>10, <2>11
<1>3. ASSUME NEW f \in {"gd_control", "gd_data"}, Runs(f), NEW path, NEW Tested, Access(path, Tested)
      PROVE  UNCHANGED <<plan, starts, script>> /\ StillPlaced(c, c')
  <2>1. UNCHANGED <<plan, starts, script>>
    BY <1>3 DEF Access, config
  <2>2. c \in ConfigRec /\ entry.state \in Indices /\ c.state[entry.state] \in StateRec
    BY <1>3, Found
  <2>3. PICK x \in Indices : x = entry.state
    BY <2>2
  <2>4. PICK s \in StateRec : s = c.state[x]
    BY <2>2, <2>3
  <2>5. CASE s.rand_range = 0
    <3>1. UNCHANGED c
      BY <1>3, <2>3, <2>4, <2>5 DEF Access
    <3> QED BY <2>1, <3>1 DEF StillPlaced
  <2>6. CASE s.rand_range # 0
    <3>1. PICK key : key = (s.key + 1) % s.rand_range
      OBVIOUS
    <3>2. c' = [c EXCEPT !.state[x].key = key,
                         !.state[x].hash_table = IF Full(s, key) THEN @ ELSE @ \union {key}]
      BY <1>3, <2>3, <2>4, <2>6, <3>1 DEF Access
    <3>3. PICK e1 : e1 = [s EXCEPT !.key = key]
      OBVIOUS
    <3>4. PICK c1 : c1 = [c EXCEPT !.state[x] = e1]
      OBVIOUS
    <3>5. c1 = [c EXCEPT !.state[x].key = key]
      BY <2>2, <2>4, <3>3, <3>4, ConfigParts
    <3>6. c1.state[x] = e1
      BY <2>2, <3>4, StateStill
    <3>7. PICK h : h = IF Full(s, key) THEN e1.hash_table ELSE e1.hash_table \union {key}
      OBVIOUS
    <3>8. PICK e : e = [e1 EXCEPT !.hash_table = h]
      OBVIOUS
    <3>9. c' = [c1 EXCEPT !.state[x].hash_table = IF Full(s, key) THEN @ ELSE @ \union {key}]
      BY <3>2, <3>5
    <3>10. c' = [c1 EXCEPT !.state[x] = e]
      BY <3>6, <3>7, <3>8, <3>9
    <3>11. c' = [c EXCEPT !.state[x] = e]
      BY <2>2, <3>4, <3>10, ConfigParts
    <3>12. e.simple_path = s.simple_path
      BY <3>3, <3>8 DEF StateRec
    <3>13. StillPlaced(c, [c EXCEPT !.state[x] = e])
      BY <2>2, <2>4, <3>12, StatePlaced
    <3> QED BY <2>1, <3>11, <3>13
  <2> QED BY <2>5, <2>6
<1>4. CASE generic_decomposed_control_action
  BY <1>3, <1>4 DEF generic_decomposed_control_action
<1>5. CASE generic_decomposed_data_action
  BY <1>3, <1>5 DEF generic_decomposed_data_action
<1> QED BY <1>1, <1>2, <1>4, <1>5 DEF Forward

(* PlacedInv is inductive on top of DeploymentInv.                         *)
LEMMA PlacedNext ==
    ASSUME CommandsFit, BucketsFit, OperatorAside, DeploymentInv, PlacedInv, [Next]_vars
    PROVE  PlacedInv'
<1>1. CASE Deploy \/ Type
  BY <1>1, PlacedServed
<1>2. CASE (\E b \in RssBuckets : Arrive(b)) \/ Forward \/ UNCHANGED vars
  <2>1. UNCHANGED <<plan, starts, script>> /\ StillPlaced(c, c')
    BY <1>2, PacketsStill
  <2> QED BY <2>1, PlacedSteps
<1> QED BY <1>1, <1>2 DEF Next

-----------------------------------------------------------------------------
(* The buckets of no share, by counting those that are in one.             *)
LEMMA LostCount ==
    ASSUME BucketsFit, plan \in Plans, starts \in Starts(n)
    PROVE  /\ Cardinality(Lost) = NBuckets - n * NumBuckets(n)
           /\ \A i \in 0 .. n - 1 : Share(i) \subseteq RssBuckets
<1>1. PICK k \in Nat \ {0} : k = n
  BY PlanFacts DEF n
<1>2. PICK q \in Nat : q = NumBuckets(k)
  BY <1>1, StartFacts
<1>3. /\ \A i \in 0 .. k - 1 : starts[i] \in Nat /\ starts[i] + q <= NBuckets
      /\ \A i, j \in 0 .. k - 1 : i < j => starts[i] + q <= starts[j]
  <2>1. starts \in Starts(k)
    BY <1>1
  <2> QED BY ONLY <1>1, <1>2, <2>1, StartFacts
<1>4. PICK U : U = UNION {starts[i] .. starts[i] + q - 1 : i \in 0 .. k - 1}
  OBVIOUS
<1>5. IsFiniteSet(U) /\ Cardinality(U) = k * q
  <2>1. k \in Nat /\ q \in Nat /\ \A i \in 0 .. k - 1 : starts[i] \in Nat
    BY <1>1, <1>2, <1>3
  <2>2. \A x : x \in U <=> \E i \in 0 .. k - 1 : x \in starts[i] .. starts[i] + q - 1
    BY <1>4
  <2>3. PICK s : s = starts
    OBVIOUS
  <2>4. /\ k \in Nat /\ q \in Nat /\ \A i \in 0 .. k - 1 : s[i] \in Nat
        /\ \A i, j \in 0 .. k - 1 : i < j => s[i] + q <= s[j]
        /\ \A x : x \in U <=> \E i \in 0 .. k - 1 : x \in s[i] .. s[i] + q - 1
    BY <1>3, <2>1, <2>2, <2>3
  <2> QED BY ONLY <2>4, Intervals
<1>6. PICK B \in Nat : B = NBuckets
  BY BucketsAssumption
<1>7. RssBuckets = 0 .. B - 1
  BY <1>6 DEF BucketsFit
<1>8. ASSUME NEW i \in 0 .. k - 1 PROVE starts[i] .. starts[i] + q - 1 \subseteq RssBuckets
  <2>1. PICK x \in Nat : x = starts[i] /\ x + q <= B
    BY <1>3, <1>6
  <2>2. x .. x + q - 1 \subseteq 0 .. B - 1
    BY <1>2, <1>6, <2>1
  <2> QED BY <1>7, <2>1, <2>2
<1>9. U \subseteq RssBuckets
  BY <1>4, <1>8
<1>10. IsFiniteSet(RssBuckets) /\ Cardinality(RssBuckets) = B
  <2>1. /\ IsFiniteSet(0 .. B - 1)
        /\ Cardinality(0 .. B - 1) = IF 0 > B - 1 THEN 0 ELSE B - 1 - 0 + 1
    BY <1>6, FS_Interval
  <2> QED BY <1>6, <1>7, <2>1
<1>11. Lost = RssBuckets \ U
  BY <1>1, <1>2, <1>4 DEF Lost, Share, BucketsOf
<1>12. Cardinality(RssBuckets \ U) = Cardinality(RssBuckets) - Cardinality(RssBuckets \cap U)
  BY <1>10, FS_Difference
<1>13. RssBuckets \cap U = U
  BY <1>9
<1> QED BY <1>1, <1>2, <1>5, <1>6, <1>8, <1>10, <1>11, <1>12, <1>13 DEF Share, BucketsOf

(* Each instance of packet_in, when all is placed.                         *)
LEMMA InstanceServed ==
    ASSUME BucketsFit, plan \in Plans, starts \in Starts(n),
           \A m : IsSent(plan, starts, m) => Holds(plan, m, c),
           NEW i \in 0 .. n - 1, NEW b \in RssBuckets, b \in Share(i)
    PROVE  LET w == Place("packet_in", i)
               cl == [action |-> "gd_classifier", id |-> i]
           IN  /\ cl \in Members(plan) /\ w \in Polling(b)
               /\ c.buckets[w][b] = action_index(plan, cl)
               /\ c.action[action_index(plan, cl)].function = "gd_classifier"
               /\ c.action[action_index(plan, cl)].state = state_index(plan, cl)
               /\ c.action[action_index(plan, cl)].core = Place("gd_classifier", i)
<1>1. PICK k \in Nat \ {0} : k = n /\ k = plan["packet_in"] /\ plan["gd_classifier"] = k
  BY PlanFacts DEF n
<1>2. PICK w : w = Place("packet_in", i)
  OBVIOUS
<1>3. PICK in : in = [action |-> "packet_in", id |-> i]
  OBVIOUS
<1>4. PICK cl : cl = [action |-> "gd_classifier", id |-> i]
  OBVIOUS
<1>5. i \in Nat /\ i < k
  BY <1>1
<1>6. in \in Members(plan) /\ in.action = "packet_in" /\ in.id = i
  BY <1>1, <1>3, <1>5, PlanFacts DEF Members
<1>7. cl \in Members(plan) /\ cl.action = "gd_classifier" /\ cl.id = i
  BY <1>1, <1>4, <1>5, PlanFacts DEF Members
<1>8. w \in Workers
  BY <1>1, <1>2 DEF BucketsFit
<1>9. Wired(plan, in, cl)
  BY <1>6, <1>7, WiredIn
<1>10. queue_id(w) = c.reta[b]
  <2>1. PICK m : m = RetaCommand(plan, starts, i)
    OBVIOUS
  <2>2. m.op = "rss_reta_config" /\ m.worker = w /\ b \in Span(m)
    BY <1>2, <2>1 DEF RetaCommand, Span, Share, BucketsOf, n
  <2>3. SentReta(plan, starts, m)
    BY <1>1, <2>1 DEF SentReta
  <2>4. IsSent(plan, starts, m)
    BY <2>2, <2>3 DEF IsSent
  <2> QED BY <2>2, <2>4 DEF Holds
<1>11. c.first_action[w] /\ c.buckets[w][b] = action_index(plan, cl)
  <2>1. PICK m : m = FirstCommand(plan, starts, in, cl)
    OBVIOUS
  <2>2. m.op = "worker first_action" /\ m.worker = w /\ b \in Span(m) /\ m.action = action_index(plan, cl)
    BY <1>2, <1>6, <2>1 DEF FirstCommand, Span, Share, BucketsOf, n
  <2>3. SentFirst(plan, starts, m)
    BY <1>6, <1>7, <1>9, <2>1 DEF SentFirst
  <2>4. IsSent(plan, starts, m)
    BY <2>2, <2>3 DEF IsSent
  <2> QED BY <2>2, <2>4 DEF Holds
<1>12. /\ c.action[action_index(plan, cl)].function = "gd_classifier"
       /\ c.action[action_index(plan, cl)].state = state_index(plan, cl)
       /\ c.action[action_index(plan, cl)].core = Place("gd_classifier", i)
  <2>1. PICK m : m = CreateCommand(plan, cl)
    OBVIOUS
  <2>2. /\ m.op = "action create" /\ m.action = action_index(plan, cl)
        /\ m.state = state_index(plan, cl)
        /\ m.core = Place("gd_classifier", i) /\ m.registration = RegistrationId("gd_classifier")
    BY <1>7, <2>1 DEF CreateCommand
  <2>3. SentCreate(plan, m)
    BY <1>7, <2>1 DEF SentCreate, Bare
  <2>4. IsSent(plan, starts, m)
    BY <2>2, <2>3 DEF IsSent
  <2>5. register_action[m.registration] = "gd_classifier"
    <3>1. register_action[3] = "gd_classifier"
      BY DEF register_action
    <3>2. m.registration = 3
      BY <2>2 DEF BucketsFit
    <3> QED BY <3>1, <3>2
  <2>6. Holds(plan, m, c)
    BY <2>4
  <2>7. /\ c.action[m.action].function = register_action[m.registration]
        /\ c.action[m.action].state = m.state /\ c.action[m.action].core = m.core
    BY ONLY <2>2, <2>6 DEF Holds
  <2> QED BY ONLY <2>2, <2>5, <2>7
<1>13. w \in Polling(b)
  BY <1>8, <1>10, <1>11 DEF Polling
<1> QED BY <1>2, <1>4, <1>7, <1>11, <1>12, <1>13

(* When the script is over all of it is in its place.                      *)
LEMMA AllPlaced ==
    ASSUME PlacedInv, script = << >>
    PROVE  \A m : IsSent(plan, starts, m) => Holds(plan, m, c)
<1>1. \A m : ~Coming(m)
  BY DEF Coming, ToSet
<1> QED BY <1>1 DEF PlacedInv

(* Once the script is over each RSS bucket of a share goes to the queue of   *)
(* the worker of its instance of packet_in and from there to the classifier*)
(* of that instance, on its core and with its function; and the buckets in *)
(* no share are those that 512 / n leaves over: the director's loops of    *)
(* platform.py, served by the handlers of cli.c, whatever the rounding of  *)
(* the shares and whichever way port and driver answer.                    *)
THEOREM BucketsServed ==
    ASSUME CommandsFit, OperatorAside, BucketsFit PROVE Spec => []EveryBucketServed
<1>1. Init => DeploymentInv /\ PlacedInv
  BY DeploymentBegins, PlacedBegins
<1>2. (DeploymentInv /\ PlacedInv) /\ [Next]_vars => (DeploymentInv /\ PlacedInv)'
  BY EveryStep, PlacedNext
<1>3. DeploymentInv /\ PlacedInv => EveryBucketServed
  <2>1. SUFFICES ASSUME DeploymentInv, PlacedInv, script = << >>
                 PROVE  /\ Cardinality(Lost) = NBuckets - n * NumBuckets(n)
                        /\ \A i \in 0 .. n - 1 : \A b \in Share(i) : \E w \in Polling(b) :
                             LET a == c.action[c.buckets[w][b]]
                             IN  /\ w = Place("packet_in", i)
                                 /\ a.function = "gd_classifier"
                                 /\ a.core = Place("gd_classifier", i)
    BY DEF EveryBucketServed
  <2>2. plan \in Plans /\ starts \in Starts(n)
    BY <2>1 DEF DeploymentInv, Commanded, PlacedInv
  <2>3. \A m : IsSent(plan, starts, m) => Holds(plan, m, c)
    BY <2>1, AllPlaced
  <2>4. /\ Cardinality(Lost) = NBuckets - n * NumBuckets(n)
        /\ \A i \in 0 .. n - 1 : Share(i) \subseteq RssBuckets
    BY <2>2, LostCount
  <2>5. ASSUME NEW i \in 0 .. n - 1, NEW b \in Share(i)
        PROVE  \E w \in Polling(b) :
                  LET a == c.action[c.buckets[w][b]]
                  IN  /\ w = Place("packet_in", i)
                      /\ a.function = "gd_classifier"
                      /\ a.core = Place("gd_classifier", i)
    <3>1. b \in RssBuckets
      BY <2>4
    <3>2. PICK w : w = Place("packet_in", i)
      OBVIOUS
    <3>3. PICK x : x = action_index(plan, [action |-> "gd_classifier", id |-> i])
      OBVIOUS
    <3>4. /\ w \in Polling(b) /\ c.buckets[w][b] = x
          /\ c.action[x].function = "gd_classifier" /\ c.action[x].core = Place("gd_classifier", i)
      BY <2>2, <2>3, <3>1, <3>2, <3>3, InstanceServed
    <3> QED BY <3>2, <3>4
  <2> QED BY <2>4, <2>5
<1> QED BY <1>1, <1>2, <1>3, PTL DEF Spec
-------------------------------------------------------------------------------
(* Where a packet may be that came after the script, from a bucket         *)
(* somebody has and along numbers of edges: at an instance it placed.      *)
OnTheWay == {"gd_classifier", "gd_data", "gd_control", "packet_out"}
Routed ==
    \/ packet = Nowhere \/ packet.bucket \in Lost \/ packet.early \/ packet.gap
    \/ \E a \in Members(plan) : a.action \in OnTheWay /\ packet.at = action_index(plan, a)
Late == packet # Nowhere => packet.early \/ script = << >>
StrayInv == Routed /\ Late /\ AstrayOnlyFromGaps

(* Each is on a core with a worker.                                        *)
LEMMA RouteCore ==
    ASSUME BucketsFit, PathsFit, NEW p \in Plans, NEW a \in Members(p), a.action \in OnTheWay
    PROVE  Place(a.action, a.id) \in Workers
<1>1. a.id \in Nat /\ a.id < p[a.action]
  BY MemberFacts
<1>2. PICK f \in OnTheWay : f = a.action
  OBVIOUS
<1>3. \A j \in 0 .. p[f] - 1 : Place(f, j) \in Workers
  BY <1>2 DEF PathsFit, OnTheWay, GdFunctions
<1>4. p[f] \in Int
  BY <1>2, PlanFacts, MemberFacts
<1>5. a.id \in 0 .. p[f] - 1
  BY <1>1, <1>2, <1>4
<1> QED BY <1>2, <1>3, <1>5

(* The entry of an instance, when all is placed.                           *)
LEMMA RouteEntry ==
    ASSUME BucketsFit, PathsFit, plan \in Plans,
           \A m : IsSent(plan, starts, m) => Holds(plan, m, c),
           NEW a \in Members(plan), a.action \in {"gd_classifier", "gd_data", "gd_control"}
    PROVE  /\ c.action[action_index(plan, a)].function = a.action
           /\ c.action[action_index(plan, a)].state = state_index(plan, a)
           /\ c.action[action_index(plan, a)].core = Place(a.action, a.id)
<1>1. PICK m : m = CreateCommand(plan, a)
  OBVIOUS
<1>2. /\ m.op = "action create" /\ m.action = action_index(plan, a)
      /\ m.state = state_index(plan, a)
      /\ m.core = Place(a.action, a.id) /\ m.registration = RegistrationId(a.action)
  BY <1>1 DEF CreateCommand
<1>3. a.action \notin Bare
  BY DEF Bare
<1>4. SentCreate(plan, m)
  BY <1>1, <1>3 DEF SentCreate
<1>5. IsSent(plan, starts, m)
  BY <1>2, <1>4 DEF IsSent
<1>6. Holds(plan, m, c)
  BY <1>5
<1>7. /\ c.action[m.action].function = register_action[m.registration]
      /\ c.action[m.action].state = m.state /\ c.action[m.action].core = m.core
  BY ONLY <1>2, <1>6 DEF Holds
<1>8. register_action[m.registration] = a.action
  <2>1. /\ register_action[3] = "gd_classifier" /\ register_action[4] = "gd_data"
        /\ register_action[5] = "gd_control"
    BY DEF register_action
  <2>2. CASE a.action = "gd_classifier"
    <3>1. m.registration = 3
      BY <1>2, <2>2 DEF BucketsFit
    <3> QED BY <2>1, <2>2, <3>1
  <2>3. CASE a.action = "gd_data"
    <3>1. m.registration = 4
      BY <1>2, <2>3 DEF PathsFit
    <3> QED BY <2>1, <2>3, <3>1
  <2>4. CASE a.action = "gd_control"
    <3>1. m.registration = 5
      BY <1>2, <2>4 DEF PathsFit
    <3> QED BY <2>1, <2>4, <3>1
  <2> QED BY <2>2, <2>3, <2>4
<1> QED BY ONLY <1>2, <1>7, <1>8

(* And that of packet_out, which has no state.                             *)
LEMMA RouteOut ==
    ASSUME \A m : IsSent(plan, starts, m) => Holds(plan, m, c),
           NEW a \in Members(plan), a.action = "packet_out"
    PROVE  /\ c.action[action_index(plan, a)].function = "transmit_packet"
           /\ c.action[action_index(plan, a)].core = Place(a.action, a.id)
<1>1. PICK m : m = OutCommand(plan, a)
  OBVIOUS
<1>2. /\ m.op = "create_packet_out" /\ m.action = action_index(plan, a)
      /\ m.core = Place(a.action, a.id)
  BY <1>1 DEF OutCommand
<1>3. SentOut(plan, m)
  BY <1>1 DEF SentOut
<1>4. IsSent(plan, starts, m)
  BY <1>2, <1>3 DEF IsSent
<1>5. Holds(plan, m, c)
  BY <1>4
<1>6. c.action[m.action].function = "transmit_packet" /\ c.action[m.action].core = m.core
  BY ONLY <1>2, <1>5 DEF Holds
<1> QED BY ONLY <1>2, <1>6

(* Every instance of the fewer or equal is wired, and a single one is to   *)
(* all.                                                                    *)
LEMMA Wire ==
    ASSUME NEW p \in [Actions -> Nat], NEW a \in Members(p), NEW f \in Actions,
           Follows(a.action, f), (p[a.action] = 1 /\ p[f] >= 1) \/ p[f] \in 1 .. p[a.action]
    PROVE  \E b \in Members(p) : b.action = f /\ Wired(p, a, b)
<1>1. PICK k \in Nat : k = p[a.action]
  BY MemberFacts
<1>2. PICK l \in Nat : l = p[f] /\ l > 0 /\ (k = 1 \/ l <= k)
  BY <1>1
<1>3. a.id \in Nat /\ a.id < k
  BY <1>1, MemberFacts
<1>4. <<a.action, f>> \in ToSet(Edges) /\ Index(ActionList, a.action) < Index(ActionList, f)
  BY DEF Follows
<1>5. CASE k = l
  <2>1. PICK b : b = [action |-> f, id |-> a.id]
    OBVIOUS
  <2>2. b \in Members(p) /\ b.action = f /\ b.id = a.id
    BY <1>2, <1>3, <1>5, <2>1 DEF Members
  <2>3. p[a.action] = k /\ p[b.action] = k
    BY <1>1, <1>2, <1>5, <2>2
  <2>4. ~(k < k) /\ ~(k > k)
    OBVIOUS
  <2>5. Wired(p, a, b)
    BY <1>4, <2>2, <2>3, <2>4 DEF Wired
  <2> QED BY <2>2, <2>5
<1>6. CASE k # l
  <2>1. PICK b : b = [action |-> f, id |-> 0]
    OBVIOUS
  <2>2. b \in Members(p) /\ b.action = f /\ b.id = 0
    BY <1>2, <2>1 DEF Members
  <2>3. p[a.action] = k /\ p[b.action] = l
    BY <1>1, <1>2, <2>2
  <2>4. CASE k > l
    <3>1. ~(k < l) /\ k > 0
      BY <2>4
    <3>2. 0 % k = 0
      BY <3>1
    <3>3. Wired(p, a, b)
      BY <1>4, <1>6, <2>2, <2>3, <3>1, <3>2 DEF Wired
    <3> QED BY <2>2, <3>3
  <2>5. CASE k = 1 /\ k < l
    <3>1. ~(k > l) /\ a.id = 0
      BY <1>3, <2>5
    <3>2. 0 % l = 0
      BY <2>5
    <3>3. Wired(p, a, b)
      BY <1>4, <1>6, <2>2, <2>3, <3>1, <3>2 DEF Wired
    <3> QED BY <2>2, <3>3
  <2>6. k > l \/ (k = 1 /\ k < l)
    BY <1>2, <1>6
  <2> QED BY <2>4, <2>5, <2>6
<1> QED BY <1>5, <1>6

(* Where a number that is an edge's leads, when all is placed.             *)
LEMMA RouteNext ==
    ASSUME BucketsFit, PathsFit, plan \in Plans,
           \A m : IsSent(plan, starts, m) => Holds(plan, m, c),
           NEW a \in Members(plan), a.action \in GdFunctions,
           NEW path \in Int, Numbered(a.action, path)
    PROVE  \E b \in Members(plan) :
              /\ b.action \in OnTheWay
              /\ c.state[state_index(plan, a)].simple_path[path] = action_index(plan, b)
<1>1. PICK x \in DOMAIN Edges : x = path + 1
  BY DEF Numbered
<1>2. Edges \in Seq(STRING \X STRING)
  BY ListsAssumption
<1>3. PICK f : f = Edges[x][2]
  OBVIOUS
<1>4. Edges[x] = <<a.action, f>> /\ Edges[x][1] = a.action /\ Edges[x] \in ToSet(Edges)
  <2>1. Edges[x] \in STRING \X STRING
    BY <1>1, <1>2
  <2>2. Edges[x][1] = a.action
    BY <1>1 DEF Numbered
  <2>3. Edges[x] \in ToSet(Edges)
    BY <1>1 DEF ToSet
  <2> QED BY <1>3, <2>1, <2>2, <2>3
<1>5. /\ Follows(a.action, f) /\ f \in GdFunctions \union {"packet_out"}
      /\ (plan[a.action] = 1 /\ plan[f] >= 1) \/ plan[f] \in 1 .. plan[a.action]
  BY <1>3, <1>4 DEF PathsFit
<1>6. plan \in [Actions -> Nat] /\ f \in Actions /\ f \in OnTheWay
  BY <1>5, PlanFacts DEF Follows, Actions, GdFunctions, OnTheWay
<1>7. PICK b \in Members(plan) : b.action = f /\ Wired(plan, a, b)
  BY <1>5, <1>6, Wire
<1>8. a.action # "packet_in"
  BY DEF GdFunctions
<1>9. Index(Edges, <<a.action, f>>) = path
  <2>1. PICK y \in DOMAIN Edges : y = CHOOSE i \in DOMAIN Edges : Edges[i] = <<a.action, f>>
    BY <1>4
  <2>2. Edges[y] = <<a.action, f>>
    BY <1>4, <2>1
  <2>3. y \in Int /\ x \in Int
    BY <1>2
  <2>4. ~(x < y) /\ ~(y < x)
    <3>1. Edges[x] = Edges[y]
      BY <1>4, <2>2
    <3>2. \A i, k \in DOMAIN Edges : i < k => Edges[i] # Edges[k]
      BY ONLY ListsAssumption DEF Grouped
    <3> QED BY ONLY <3>1, <3>2, x \in DOMAIN Edges, y \in DOMAIN Edges
  <2>5. y = x
    BY <2>3, <2>4
  <2>6. Index(Edges, <<a.action, f>>) = y - 1
    BY <2>1 DEF Index
  <2> QED BY ONLY <1>1, <2>3, <2>5, <2>6, path \in Int
<1>10. PICK m : m = PathCommand(plan, a, b)
  OBVIOUS
<1>11. /\ m.op = "install_simple_path" /\ m.state = state_index(plan, a) /\ m.path = path
  BY <1>7, <1>9, <1>10 DEF PathCommand, get_path_id
<1>12. SentPath(plan, m)
  BY <1>7, <1>8, <1>10 DEF SentPath
<1>13. Holds(plan, m, c)
  BY <1>12 DEF IsSent
<1>14. PICK m1 : /\ SentPath(plan, m1) /\ m1.state = m.state /\ m1.path = m.path
                 /\ c.state[m.state].simple_path[m.path] = m1.action
  BY ONLY <1>11, <1>13 DEF Holds
<1>15. PICK u \in Members(plan), v \in Members(plan) :
          u.action # "packet_in" /\ Wired(plan, u, v) /\ m1 = PathCommand(plan, u, v)
  BY ONLY <1>14 DEF SentPath
<1>16. b.action = v.action
  BY <1>7, <1>8, <1>10, <1>14, <1>15, OnePath
<1>17. m1.action = action_index(plan, v)
  BY <1>15 DEF PathCommand
<1>18. c.state[state_index(plan, a)].simple_path[path] = action_index(plan, v)
  BY ONLY <1>11, <1>14, <1>17
<1> QED BY <1>6, <1>7, <1>16, <1>18

(* A packet's first entry.                                                 *)
LEMMA FirstEntry ==
    ASSUME BucketsFit, PathsFit, plan \in Plans, starts \in Starts(n),
           \A m : IsSent(plan, starts, m) => Holds(plan, m, c),
           NEW b \in RssBuckets, b \notin Lost, NEW w \in Polling(b)
    PROVE  \E a \in Members(plan) : a.action \in OnTheWay /\ c.buckets[w][b] = action_index(plan, a)
<1>1. PICK i \in 0 .. n - 1 : b \in Share(i)
  BY DEF Lost
<1>2. PICK v : v = Place("packet_in", i)
  OBVIOUS
<1>3. PICK cl : cl = [action |-> "gd_classifier", id |-> i]
  OBVIOUS
<1>4. cl \in Members(plan) /\ v \in Polling(b) /\ c.buckets[v][b] = action_index(plan, cl)
  BY <1>1, <1>2, <1>3, InstanceServed
<1>5. v = w
  BY <1>4 DEF Polling, PathsFit
<1>6. cl.action \in OnTheWay
  BY <1>3 DEF OnTheWay
<1> QED BY <1>4, <1>5, <1>6

(* Each step keeps it: an arrival,                                         *)
LEMMA StrayArrive ==
    ASSUME BucketsFit, PathsFit, DeploymentInv, PlacedInv, StrayInv,
           NEW b \in RssBuckets, Arrive(b)
    PROVE  StrayInv'
<1>1. UNCHANGED <<plan, starts, script, parked>>
  BY DEF Arrive, config
<1>2. plan \in Plans /\ starts \in Starts(n)
  BY DEF DeploymentInv, Commanded, PlacedInv
<1>3. PICK w \in Polling(b) : packet' = [bucket |-> b, at |-> c.buckets[w][b],
                                        early |-> script # << >>, gap |-> FALSE]
  BY DEF Arrive
<1>4. packet'.bucket = b /\ packet'.at = c.buckets[w][b] /\ (packet'.early <=> script # << >>)
  BY <1>3
<1>5. Lost' = Lost
  BY <1>1 DEF Lost, Share, n
<1>6. \/ b \in Lost \/ script # << >>
      \/ \E a \in Members(plan) : a.action \in OnTheWay /\ c.buckets[w][b] = action_index(plan, a)
  <2>1. ASSUME script = << >> PROVE \A m : IsSent(plan, starts, m) => Holds(plan, m, c)
    BY <2>1, AllPlaced
  <2> QED BY <1>2, <1>3, <2>1, FirstEntry
<1>7. Routed' /\ Late'
  BY <1>1, <1>4, <1>5, <1>6 DEF Routed, Late
<1>8. AstrayOnlyFromGaps'
  BY <1>1, <1>5 DEF StrayInv, AstrayOnlyFromGaps
<1> QED BY <1>7, <1>8 DEF StrayInv

(* The instance at whose entry the packet is.                              *)
LEMMA AtInstance ==
    ASSUME BucketsFit, PathsFit, plan \in Plans,
           \A m : IsSent(plan, starts, m) => Holds(plan, m, c),
           NEW a \in Members(plan), a.action \in OnTheWay, packet.at = action_index(plan, a)
    PROVE  /\ entry.core \in Workers
           /\ a.action = "packet_out" => entry.function = "transmit_packet"
           /\ a.action # "packet_out" => entry.function = a.action /\ entry.state = state_index(plan, a)
<1>1. entry = c.action[action_index(plan, a)]
  BY DEF entry
<1>2. Place(a.action, a.id) \in Workers
  BY RouteCore
<1>3. CASE a.action = "packet_out"
  <2>1. entry.function = "transmit_packet" /\ entry.core = Place(a.action, a.id)
    BY <1>1, <1>3, RouteOut
  <2> QED BY <1>2, <1>3, <2>1
<1>4. CASE a.action # "packet_out"
  <2>1. a.action \in {"gd_classifier", "gd_data", "gd_control"}
    BY <1>4 DEF OnTheWay
  <2>2. /\ entry.function = a.action /\ entry.state = state_index(plan, a)
        /\ entry.core = Place(a.action, a.id)
    BY <1>1, <2>1, RouteEntry
  <2> QED BY <1>2, <1>4, <2>2
<1> QED BY <1>3, <1>4

(* a function of the packet, which goes on along a path that holds,        *)
LEMMA StrayForward ==
    ASSUME CommandsFit, BucketsFit, PathsFit, DeploymentInv, PlacedInv, StrayInv, Forward
    PROVE  StrayInv'
<1>1. UNCHANGED <<plan, starts, script>> /\ packet # Nowhere
  <2>1. CASE Park \/ transmit_packet \/ generic_decomposed_classifier
    BY <2>1 DEF Park, transmit_packet, generic_decomposed_classifier, Runs, config
  <2>2. CASE generic_decomposed_control_action \/ generic_decomposed_data_action
    BY <2>2 DEF generic_decomposed_control_action, generic_decomposed_data_action, Access, Runs, config
  <2> QED BY <2>1, <2>2 DEF Forward
<1>2. packet \in [bucket : RssBuckets, at : Indices, early : BOOLEAN, gap : BOOLEAN]
  BY <1>1 DEF DeploymentInv, Travelling
<1>3. ~packet.early => \A m : IsSent(plan, starts, m) => Holds(plan, m, c)
  BY <1>1, AllPlaced DEF StrayInv, Late
<1>4. plan \in Plans /\ Lost' = Lost
  BY <1>1 DEF DeploymentInv, Commanded, Lost, Share, n
<1>5. PICK strays : strays <=> packet.bucket \in Lost \/ packet.early \/ packet.gap
  OBVIOUS
<1>6. ~strays => \E a \in Members(plan) : a.action \in OnTheWay /\ packet.at = action_index(plan, a)
  BY <1>1, <1>5 DEF StrayInv, Routed
<1>7. ASSUME UNCHANGED parked,
             packet'.bucket = packet.bucket, packet'.early = packet.early,
             packet.gap => packet'.gap,
             ~strays => \/ packet'.gap
                        \/ \E b \in Members(plan) :
                              b.action \in OnTheWay /\ packet'.at = action_index(plan, b)
      PROVE  StrayInv'
  <2>1. Routed'
    BY <1>1, <1>4, <1>5, <1>7 DEF Routed
  <2>2. Late'
    BY <1>1, <1>7 DEF StrayInv, Late
  <2>3. AstrayOnlyFromGaps'
    BY <1>4, <1>7 DEF StrayInv, AstrayOnlyFromGaps
  <2> QED BY <2>1, <2>2, <2>3 DEF StrayInv
<1>8. CASE Park
  <2>1. entry.core \notin Workers /\ parked' = parked \union {packet} /\ packet' = Nowhere
    BY <1>8 DEF Park
  <2>2. strays
    BY <1>3, <1>4, <1>5, <1>6, <2>1, AtInstance
  <2>3. \A x \in parked' : x.bucket \in Lost \/ x.early \/ x.gap
    BY <1>5, <2>1, <2>2 DEF StrayInv, AstrayOnlyFromGaps
  <2>4. Nowhere' = Nowhere
    BY DEF Nowhere
  <2> QED BY <1>4, <2>1, <2>3, <2>4 DEF StrayInv, Routed, Late, AstrayOnlyFromGaps
<1>9. CASE transmit_packet
  <2>1. packet' = Nowhere /\ UNCHANGED parked
    BY <1>9 DEF transmit_packet
  <2>2. Nowhere' = Nowhere
    BY DEF Nowhere
  <2> QED BY <1>4, <2>1, <2>2 DEF StrayInv, Routed, Late, AstrayOnlyFromGaps
<1>10. ASSUME NEW f \in GdFunctions, entry.function = f, NEW path \in Int, UNCHANGED parked,
              packet' = [packet EXCEPT !.at = c.state[entry.state].simple_path[path],
                                       !.gap = @ \/ ~Numbered(entry.function, path)]
       PROVE  StrayInv'
  <2>1. /\ packet'.bucket = packet.bucket /\ packet'.early = packet.early
        /\ packet'.gap = (packet.gap \/ ~Numbered(f, path))
        /\ packet'.at = c.state[entry.state].simple_path[path]
    BY <1>2, <1>10
  <2>2. ASSUME ~strays, Numbered(f, path)
        PROVE  \E b \in Members(plan) : b.action \in OnTheWay /\ packet'.at = action_index(plan, b)
    <3>1. PICK a \in Members(plan) : a.action \in OnTheWay /\ packet.at = action_index(plan, a)
      BY <1>6, <2>2
    <3>2. /\ a.action = "packet_out" => entry.function = "transmit_packet"
          /\ a.action # "packet_out" => entry.function = a.action /\ entry.state = state_index(plan, a)
      BY <1>3, <1>4, <1>5, <2>2, <3>1, AtInstance
    <3>3. a.action = f /\ entry.state = state_index(plan, a)
      <4>1. f # "transmit_packet"
        BY DEF GdFunctions
      <4> QED BY <1>10, <3>2, <4>1
    <3>4. PICK b \in Members(plan) :
              /\ b.action \in OnTheWay
              /\ c.state[state_index(plan, a)].simple_path[path] = action_index(plan, b)
      BY <1>3, <1>4, <1>5, <2>2, <3>3, RouteNext
    <3>5. packet'.at = action_index(plan, b)
      BY <2>1, <3>3, <3>4
    <3> QED BY <3>4, <3>5
  <2> QED BY <1>7, <1>10, <2>1, <2>2
<1>11. CASE generic_decomposed_classifier
  <2>1. PICK s : s = c.state[entry.state]
    OBVIOUS
  <2>2. PICK path : path = ClassifierPath(s.frequency, s.counter)
    OBVIOUS
  <2>3. path \in Int
    BY <2>2 DEF ClassifierPath, DataPath, ControlPath
  <2>4. /\ packet' = [packet EXCEPT !.at = s.simple_path[path],
                                    !.gap = @ \/ ~Numbered(entry.function, path)]
        /\ UNCHANGED parked /\ entry.function = "gd_classifier"
    BY <1>11, <2>1, <2>2 DEF generic_decomposed_classifier, Runs
  <2> QED BY <1>10, <2>1, <2>3, <2>4 DEF GdFunctions
<1>12. ASSUME NEW f \in GdFunctions, entry.function = f, NEW path \in Int, NEW Tested, Access(path, Tested)
       PROVE  StrayInv'
  <2>1. UNCHANGED parked /\ (UNCHANGED packet \/
             packet' = [packet EXCEPT !.at = c.state[entry.state].simple_path[path],
                                      !.gap = @ \/ ~Numbered(entry.function, path)])
    BY <1>12 DEF Access
  <2>2. CASE UNCHANGED packet
    BY <1>6, <1>7, <2>1, <2>2
  <2> QED BY <1>10, <1>12, <2>1, <2>2
<1>13. CASE generic_decomposed_control_action
  <2>1. entry.function = "gd_control" /\ Access(DataPath, TRUE)
    BY <1>13 DEF generic_decomposed_control_action, Runs
  <2>2. DataPath \in Int /\ "gd_control" \in GdFunctions
    BY DEF DataPath, GdFunctions
  <2> QED BY <1>12, <2>1, <2>2
<1>14. CASE generic_decomposed_data_action
  <2>1. entry.function = "gd_data" /\ Access(OutPath, FALSE)
    BY <1>14 DEF generic_decomposed_data_action, Runs
  <2>2. OutPath \in Int /\ "gd_data" \in GdFunctions
    BY DEF OutPath, GdFunctions
  <2> QED BY <1>12, <2>1, <2>2
<1> QED BY <1>8, <1>9, <1>11, <1>13, <1>14 DEF Forward

(* and any other.                                                          *)
LEMMA StrayNext ==
    ASSUME CommandsFit, BucketsFit, PathsFit, DeploymentInv, PlacedInv, StrayInv, [Next]_vars
    PROVE  StrayInv'
<1>1. CASE Deploy \/ Type \/ UNCHANGED vars
  <2>1. UNCHANGED <<plan, starts, packet, parked>> /\ (script = << >> => script' = << >>)
    BY <1>1 DEF Deploy, Type, config, vars
  <2> QED BY <2>1 DEF StrayInv, Routed, Late, AstrayOnlyFromGaps, Lost, Share, n, Nowhere
<1>2. CASE \E b \in RssBuckets : Arrive(b)
  BY <1>2, StrayArrive
<1>3. CASE Forward
  BY <1>3, StrayForward
<1> QED BY <1>1, <1>2, <1>3 DEF Next

(* No packet is left in the mailbox of a core without a worker unless its  *)
(* bucket is in no share, it came before the script was over, which an     *)
(* operator may cause, or a function took a number of none of its edges:   *)
(* whatever the order of the yaml's edges, install_simple_path fills the   *)
(* number of each for every instance, and it leads to an instance of its   *)
(* destination on a core with a worker, which event_handler finds.         *)
THEOREM StrayFromGaps ==
    ASSUME CommandsFit, OperatorAside, BucketsFit, PathsFit
    PROVE  Spec => []AstrayOnlyFromGaps
<1> DEFINE Inv == DeploymentInv /\ PlacedInv /\ StrayInv
<1>1. Init => Inv
  <2>1. Init => StrayInv
    BY DEF Init, StrayInv, Routed, Late, AstrayOnlyFromGaps
  <2> QED BY <2>1, DeploymentBegins, PlacedBegins
<1>2. Inv /\ [Next]_vars => Inv'
  BY EveryStep, PlacedNext, StrayNext
<1>3. Inv => AstrayOnlyFromGaps
  BY DEF StrayInv
<1> QED BY <1>1, <1>2, <1>3, PTL DEF Spec

-------------------------------------------------------------------------------
(* Plans that fit give scripts that do.  The indices of an instance, its   *)
(* core and what it is wired by are what the tables have room for.         *)
LEMMA FitFacts ==
    ASSUME PlansFit, NEW p \in Plans, NEW a \in Members(p)
    PROVE  /\ p \in [Actions -> Nat]
           /\ action_index(p, a) \in Indices /\ Place(a.action, a.id) \in Cores
           /\ a.action \notin Bare =>
                state_index(p, a) \in States(p) /\ RegistrationId(a.action) \in 0 .. 5
<1>1. p \in [Actions -> Nat] /\ \A s \in ToSet(StateList) : FirstAction(s) \in Actions
  BY DEF PlansFit, Actions
<1>2. a.action \in Actions /\ a.id \in Nat /\ a.id < p[a.action]
  BY MemberFacts
<1>3. action_index(p, a) \in Indices
  <2>1. PICK list \in Seq(Members(p)) : list = action_instances(p) /\ ToSet(list) = Members(p)
    BY <1>1, ActionInstances
  <2>2. PICK k \in Nat : k = Len(list) /\ DOMAIN list = 1 .. k
    OBVIOUS
  <2>3. PICK x : x = Index(list, a)
    OBVIOUS
  <2>4. x \in Nat /\ x + 1 \in 1 .. k
    BY <2>1, <2>2, <2>3, IndexFinds
  <2>5. x \in 0 .. k - 1
    BY ONLY <2>2, <2>4
  <2>6. 0 .. Len(action_instances(p)) - 1 \subseteq Indices
    BY DEF PlansFit
  <2> QED BY <2>1, <2>2, <2>3, <2>5, <2>6 DEF action_index
<1>4. Place(a.action, a.id) \in Cores
  <2>1. a.id \in 0 .. p[a.action] - 1
    BY <1>1, <1>2
  <2> QED BY <1>2, <2>1 DEF PlansFit, Actions
<1>5. ASSUME a.action \notin Bare
      PROVE  state_index(p, a) \in States(p) /\ RegistrationId(a.action) \in 0 .. 5
  <2>1. PICK t : t = StateOf(a.action)
    OBVIOUS
  <2>2. /\ t \in ToSet(StateList) /\ RegistrationId(a.action) \in 0 .. 5
        /\ p[a.action] <= p[FirstAction(t)]
    BY <1>2, <1>5, <2>1 DEF PlansFit, Actions
  <2>3. PICK y : y = [state |-> t, id |-> a.id]
    OBVIOUS
  <2>4. a.id < p[FirstAction(t)]
    BY <1>1, <1>2, <2>2
  <2>5. y \in StateMembers(p)
    BY <1>2, <2>2, <2>3, <2>4 DEF StateMembers
  <2>6. PICK list \in Seq(StateMembers(p)) :
           list = state_instances(p) /\ ToSet(list) = StateMembers(p)
    BY <1>1, StateInstances
  <2>7. PICK k \in Nat : k = Len(list) /\ DOMAIN list = 1 .. k
    OBVIOUS
  <2>8. PICK x : x = Index(list, y)
    OBVIOUS
  <2>9. x \in Nat /\ x + 1 \in 1 .. k
    BY <2>5, <2>6, <2>7, <2>8, IndexFinds
  <2>10. x \in 0 .. k - 1
    BY ONLY <2>7, <2>9
  <2>11. state_index(p, a) = x
    BY <2>1, <2>3, <2>6, <2>8 DEF state_index
  <2>12. States(p) = 0 .. k - 1
    BY <2>6, <2>7 DEF States
  <2> QED BY <2>2, <2>10, <2>11, <2>12
<1> QED BY <1>1, <1>3, <1>4, <1>5

(* The commands that place something are among those with room: entries,   *)
LEMMA CreateFits ==
    ASSUME PlansFit, NEW p \in Plans, NEW a \in Members(p), a.action \notin Bare
    PROVE  CreateCommand(p, a) \in Command(States(p))
<1>1. PICK i, x, t, k : /\ i = RegistrationId(a.action) /\ x = action_index(p, a)
                        /\ t = state_index(p, a) /\ k = Place(a.action, a.id)
  OBVIOUS
<1>2. i \in 0 .. 5 /\ x \in Indices /\ t \in States(p) /\ k \in Cores
  BY <1>1, FitFacts
<1>3. CreateCommand(p, a) = [op |-> "action create", registration |-> i, action |-> x, state |-> t, core |-> k]
  BY <1>1 DEF CreateCommand
<1>4. CreateCommand(p, a) \in [op : {"action create"}, registration : 0 .. 5, action : Indices,
                               state : States(p), core : Cores]
  <2>1. [op |-> "action create", registration |-> i, action |-> x, state |-> t, core |-> k]
          \in [op : {"action create"}, registration : 0 .. 5, action : Indices,
              state : States(p), core : Cores]
    BY ONLY <1>2
  <2> QED BY ONLY <1>3, <2>1
<1> QED BY ONLY <1>4 DEF Command

(* those of packet_out,                                                    *)
LEMMA OutFits ==
    ASSUME PlansFit, NEW p \in Plans, NEW a \in Members(p)
    PROVE  OutCommand(p, a) \in Command(States(p))
<1>1. PICK x, k : x = action_index(p, a) /\ k = Place(a.action, a.id)
  OBVIOUS
<1>2. x \in Indices /\ k \in Cores
  BY <1>1, FitFacts
<1>3. OutCommand(p, a) = [op |-> "create_packet_out", action |-> x, core |-> k]
  BY <1>1 DEF OutCommand
<1>4. OutCommand(p, a) \in [op : {"create_packet_out"}, action : Indices, core : Cores]
  BY <1>2, <1>3
<1> QED BY ONLY <1>4 DEF Command

(* what a share takes,                                                     *)
LEMMA ShareFits ==
    ASSUME PlansFit, NEW p \in Plans, NEW s \in Starts(p["packet_in"]), NEW i \in 0 .. p["packet_in"] - 1
    PROVE  /\ i \in Indices /\ Place("packet_in", i) \in Cores
           /\ s[i] \in Int /\ NumBuckets(p["packet_in"]) \in Int
<1>1. PICK k : k = p["packet_in"] /\ k \in Nat
  BY DEF PlansFit
<1>2. k \in Nat \ {0} /\ i \in 0 .. k - 1 /\ s \in Starts(k)
  BY <1>1
<1>3. NumBuckets(k) \in Nat /\ s[i] \in Nat
  BY <1>2, StartFacts
<1>4. i \in Indices /\ Place("packet_in", i) \in Cores
  BY DEF PlansFit
<1> QED BY <1>1, <1>3, <1>4

(* the redirection table,                                                  *)
LEMMA RetaFits ==
    ASSUME PlansFit, NEW p \in Plans, NEW s \in Starts(p["packet_in"]), NEW i \in 0 .. p["packet_in"] - 1
    PROVE  RetaCommand(p, s, i) \in Command(States(p))
<1>1. PICK x, k, w : x = s[i] /\ k = NumBuckets(p["packet_in"]) /\ w = Place("packet_in", i)
  OBVIOUS
<1>2. i \in Indices /\ x \in Int /\ k \in Int /\ w \in Cores
  BY <1>1, ShareFits
<1>3. RetaCommand(p, s, i) = [op |-> "rss_reta_config", start |-> x, num |-> k, worker |-> w, action |-> i]
  BY <1>1 DEF RetaCommand
<1>4. RetaCommand(p, s, i) \in [op : {"rss_reta_config", "worker first_action"}, worker : Cores,
                                action : Indices, start : Int, num : Int]
  BY <1>2, <1>3
<1> QED BY ONLY <1>4 DEF Command

(* the first actions                                                       *)
LEMMA FirstFits ==
    ASSUME PlansFit, NEW p \in Plans, NEW s \in Starts(p["packet_in"]),
           NEW a \in Members(p), NEW b \in Members(p), a.action = "packet_in"
    PROVE  FirstCommand(p, s, a, b) \in Command(States(p))
<1>1. a.id \in 0 .. p["packet_in"] - 1
  <2>1. p \in [Actions -> Nat] /\ a.action \in Actions /\ a.id \in Nat /\ a.id < p[a.action]
    BY FitFacts, MemberFacts
  <2> QED BY <2>1
<1>2. PICK x, k, w, y : /\ x = s[a.id] /\ k = NumBuckets(p["packet_in"])
                        /\ w = Place("packet_in", a.id) /\ y = action_index(p, b)
  OBVIOUS
<1>3. x \in Int /\ k \in Int /\ w \in Cores /\ y \in Indices
  BY <1>1, <1>2, ShareFits, FitFacts
<1>4. FirstCommand(p, s, a, b)
        = [op |-> "worker first_action", worker |-> w, action |-> y, start |-> x, num |-> k]
  BY <1>2 DEF FirstCommand
<1>5. FirstCommand(p, s, a, b) \in [op : {"rss_reta_config", "worker first_action"}, worker : Cores,
                                    action : Indices, start : Int, num : Int]
  <2>1. [op |-> "worker first_action", worker |-> w, action |-> y, start |-> x, num |-> k]
          \in [op : {"rss_reta_config", "worker first_action"}, worker : Cores,
              action : Indices, start : Int, num : Int]
    BY ONLY <1>3
  <2> QED BY ONLY <1>4, <2>1
<1> QED BY ONLY <1>5 DEF Command

(* and the paths: the yaml has no edge without a number,                   *)
LEMMA PathFits ==
    ASSUME PlansFit, NEW p \in Plans, NEW a \in Members(p), NEW b \in Members(p),
           a.action # "packet_in", Wired(p, a, b)
    PROVE  PathCommand(p, a, b) \in Command(States(p))
<1>1. PICK e : e = <<a.action, b.action>>
  OBVIOUS
<1>2. e \in ToSet(Edges) /\ e[1] = a.action
  BY <1>1 DEF Wired
<1>3. a.action \notin Bare
  BY <1>2 DEF PlansFit, Bare
<1>4. PICK x, y, q : x = state_index(p, a) /\ y = action_index(p, b) /\ q = get_path_id(a, b)
  OBVIOUS
<1>5. x \in States(p) /\ y \in Indices
  BY <1>3, <1>4, FitFacts
<1>6. q \in Local(MaximumPath)
  <2>1. PICK list : list = Edges
    OBVIOUS
  <2>2. list \in Seq(STRING \X STRING) /\ Len(list) <= MaximumPath /\ e \in ToSet(list)
    BY <1>2, <2>1, ListsAssumption DEF PlansFit
  <2>3. q = Index(list, e)
    BY <1>1, <1>4, <2>1 DEF get_path_id
  <2>4. q \in Nat /\ q + 1 \in DOMAIN list
    BY <2>2, <2>3, IndexFinds
  <2>5. PICK k \in Nat : k = Len(list) /\ DOMAIN list = 1 .. k
    BY <2>2
  <2>6. q \in 0 .. MaximumPath - 1
    BY <2>2, <2>4, <2>5, ConfigAssumption
  <2> QED BY <2>6 DEF Local
<1>7. PathCommand(p, a, b) = [op |-> "install_simple_path", state |-> x, action |-> y, path |-> q]
  BY <1>4 DEF PathCommand
<1>8. PathCommand(p, a, b) \in [op : {"install_simple_path"}, state : States(p), action : Indices,
                                path : Local(MaximumPath)]
  BY <1>5, <1>6, <1>7
<1> QED BY ONLY <1>8 DEF Command

(* that is, all that places,                                               *)
LEMMA SentFits ==
    ASSUME PlansFit, NEW p \in Plans, NEW s \in Starts(p["packet_in"]), NEW m, IsSent(p, s, m)
    PROVE  m \in Command(States(p))
<1>1. CASE SentReta(p, s, m)
  BY <1>1, RetaFits DEF SentReta
<1>2. CASE SentCreate(p, m)
  BY <1>2, CreateFits DEF SentCreate
<1>3. CASE SentOut(p, m)
  BY <1>3, OutFits DEF SentOut
<1>4. CASE SentFirst(p, s, m)
  BY <1>4, FirstFits DEF SentFirst
<1>5. CASE SentPath(p, m)
  BY <1>5, PathFits DEF SentPath
<1> QED BY <1>1, <1>2, <1>3, <1>4, <1>5 DEF IsSent

(* and the others.                                                         *)
LEMMA PreparesFits ==
    ASSUME PlansFit, NEW p \in Plans, NEW r \in Nat, NEW f \in Int, NEW m, Prepares(p, r, f, m)
    PROVE  m \in Command(States(p))
<1>1. PICK i \in DOMAIN state_instances(p) :
         \/ m = [op |-> "state create", state |-> i - 1]
         \/ m = [op |-> "data_state", state |-> i - 1, val |-> r]
         \/ m = [op |-> "control_frequency", state |-> i - 1, val |-> f]
  BY DEF Prepares
<1>2. PICK x : x = i - 1
  OBVIOUS
<1>3. x \in States(p)
  <2>1. p \in [Actions -> Nat] /\ \A s \in ToSet(StateList) : FirstAction(s) \in Actions
    BY DEF PlansFit, Actions
  <2>2. PICK list \in Seq(StateMembers(p)) : list = state_instances(p)
    BY <2>1, StateInstances
  <2>3. PICK k \in Nat : k = Len(list) /\ DOMAIN list = 1 .. k
    OBVIOUS
  <2>4. x \in 0 .. k - 1
    BY <1>2, <2>2, <2>3
  <2> QED BY <2>2, <2>3, <2>4 DEF States
<1>4. CASE m = [op |-> "state create", state |-> x]
  BY <1>3, <1>4 DEF Command
<1>5. CASE m = [op |-> "data_state", state |-> x, val |-> r]
  BY <1>3, <1>5 DEF Command
<1>6. CASE m = [op |-> "control_frequency", state |-> x, val |-> f]
  BY <1>3, <1>6 DEF Command
<1> QED BY <1>1, <1>2, <1>4, <1>5, <1>6

(* Those of run have no argument.                                          *)
LEMMA RunFits ==
    ASSUME NEW S, NEW m \in ToSet(run)
    PROVE  m \in Command(S)
<1>1. PICK o \in {"port init", "rss", "worker run"} : m = [op |-> o]
  BY RunIs
<1> QED BY <1>1 DEF Command

(* All of them end to end, the three of run at the end.                    *)
LEMMA ScriptFits ==
    ASSUME PlansFit, NEW p \in Plans, NEW s \in Starts(p["packet_in"]), NEW r \in Ranges, NEW f \in Frequencies
    PROVE  /\ Script(p, s, r, f) \in Seq(Command(States(p)))
           /\ RunIsLast(Script(p, s, r, f))
<1>1. /\ p \in [Actions -> Nat] /\ \A t \in ToSet(StateList) : FirstAction(t) \in Actions
      /\ "packet_in" \in Actions /\ r \in Nat /\ f \in Int
  BY DEF PlansFit, Actions
<1>2. PICK body : /\ \E T : body \in Seq(T)
                  /\ Script(p, s, r, f) = body \o run
                  /\ \A m \in ToSet(body) : IsSent(p, s, m) \/ Prepares(p, r, f, m)
  BY <1>1, ScriptBody
<1>3. PICK q : q = body \o run
  OBVIOUS
<1>4. (\E C : q \in Seq(C)) /\ \A m : m \in ToSet(q) <=> m \in ToSet(body) \/ m \in ToSet(run)
  BY ONLY <1>2, <1>3, RunIs, Joined
<1>5. ASSUME NEW m \in ToSet(q) PROVE m \in Command(States(p))
  BY <1>1, <1>2, <1>4, SentFits, PreparesFits, RunFits
<1>6. q \in Seq(Command(States(p)))
  BY ONLY <1>4, <1>5, SeqOfElements
<1>7. ASSUME NEW m \in ToSet(body) PROVE m.op # "worker run"
  <2>1. CASE IsSent(p, s, m)
    <3>1. m.op \in Placing
      BY <2>1, SentOps
    <3> QED BY <3>1 DEF Placing
  <2>2. CASE Prepares(p, r, f, m)
    <3>1. m.op \in {"state create", "data_state", "control_frequency"}
      BY <2>2, PreparesOp
    <3> QED BY <3>1
  <2> QED BY <1>2, <2>1, <2>2
<1>8. ASSUME NEW x \in DOMAIN q, q[x].op = "worker run" PROVE x = Len(q)
  <2>1. PICK A : body \in Seq(A)
    BY <1>2
  <2>2. PICK B : run \in Seq(B)
    BY RunIs
  <2>3. PICK k \in Nat : k = Len(body) /\ DOMAIN body = 1 .. k
    BY <2>1
  <2>4. PICK l : l = run
    OBVIOUS
  <2>5. l \in Seq(B) /\ Len(l) = 3 /\ l[1].op # "worker run" /\ l[2].op # "worker run"
    BY <2>2, <2>4, RunIs
  <2>6. /\ DOMAIN q = 1 .. k + 3 /\ Len(q) = k + 3
        /\ \A i \in 1 .. k : q[i] = body[i]
        /\ \A i \in 1 .. 3 : q[k + i] = l[i]
    <3>1. PICK C : C = A \union B
      OBVIOUS
    <3>2. body \in Seq(C)
      BY ONLY <2>1, <3>1
    <3>3. l \in Seq(C)
      <4>1. l \in Seq(B)
        BY <2>5
      <4> QED BY ONLY <4>1, <3>1
    <3>4. PICK j \in Nat : j = Len(l) /\ DOMAIN l = 1 .. j
      BY ONLY <3>3
    <3>5. q = body \o l
      BY <1>3, <2>4
    <3>6. q \in Seq(C)
      BY ONLY <3>2, <3>3, <3>5
    <3>7. /\ Len(q) = k + j /\ DOMAIN q = 1 .. k + j
          /\ \A i \in 1 .. k : q[i] = body[i]
          /\ \A i \in 1 .. j : q[k + i] = l[i]
      BY ONLY <2>3, <3>2, <3>3, <3>4, <3>5, <3>6
    <3> QED BY <2>5, <3>4, <3>7
  <2>7. x \notin 1 .. k
    BY <1>7, <1>8, <2>3, <2>6 DEF ToSet
  <2>8. x # k + 1 /\ x # k + 2
    <3>1. q[k + 1] = l[1] /\ q[k + 2] = l[2]
      BY <2>6
    <3> QED BY <1>8, <2>5, <3>1
  <2> QED BY <2>3, <2>6, <2>7, <2>8
<1> QED BY <1>2, <1>3, <1>6, <1>8 DEF RunIsLast

(* Whatever the scaling plan, the commands that deployment,                *)
(* configure_state and run send name only states, entries, paths and cores *)
(* that there are, when the tables have the room: cli.c checks none of it. *)
THEOREM ScriptsFit == ASSUME PlansFit PROVE CommandsFit
<1>1. ASSUME NEW p \in Plans
      PROVE  /\ States(p) \subseteq Indices /\ OperatorCommands \subseteq Command(States(p))
             /\ \A s \in Starts(p["packet_in"]), r \in Ranges, f \in Frequencies :
                   Script(p, s, r, f) \in Seq(Command(States(p)))
  <2>1. States(p) \subseteq Indices /\ OperatorCommands \subseteq Command(States(p))
    BY DEF PlansFit
  <2> QED BY <2>1, ScriptFits
<1> QED BY <1>1 DEF CommandsFit

(* And "worker run" is the last of them, once and at the end: the workers  *)
(* find the tables complete unless an operator starts them before.         *)
THEOREM ScriptsRunLast ==
    ASSUME PlansFit, \A m \in OperatorCommands : m.op \notin {"state create", "worker run"}
    PROVE  RunsLast
BY ScriptFits DEF RunsLast, RunIsLast
===============================================================================
