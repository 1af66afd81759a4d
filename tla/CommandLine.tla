------------------------------ MODULE CommandLine ------------------------------
(***************************************************************************)
(* The handlers of cli_process (src/runtime/cli.c) as functions of the     *)
(* configuration c they change, and the configuration that config_init     *)
(* (Config.c) and state_init (state.c) leave.  c and the states come from  *)
(* malloc in blocks large enough to be fresh pages: what nobody fills is   *)
(* 0, and entry 0 of the action table has no function and core 0.          *)
(* "action migrate" is in Worker.                                          *)
(***************************************************************************)
EXTENDS Integers, Sequences

CONSTANTS
    Cores,              \* the cores of the machine: 48
    Workers,            \* those "worker run" starts: the odd ones
    Indices,            \* the entries of the action and the state table
    RssBuckets,         \* 0 .. 511
    MaximumPath,        \* MAXIMUM_PATH: 10
    MaximumPathInstance \* MAXIMUM_PATH_INSTANCE: 24

(* What nobody fills is entry 0 and core 0; a function takes path 2.       *)
ASSUME ConfigAssumption ==
    /\ 0 \in Cores /\ Cores \subseteq 0 .. 47 /\ Workers \subseteq Cores
    /\ 0 \in Indices /\ Indices \subseteq Nat
    /\ MaximumPath \in Nat /\ MaximumPath > 2 /\ MaximumPathInstance \in Nat

Local(n) == 0 .. n - 1

(* The functions registered at start-up; packet_in, packet_out and drop    *)
(* have none.                                                              *)
register_action ==
    [i \in 0 .. 5 |-> <<"none", "none", "none", "gd_classifier", "gd_data", "gd_control">>[i + 1]]

queue_id(w) == w \div 2

ZeroPath == [i \in Local(MaximumPath) |-> 0]
NoInstance == [i \in Local(MaximumPath) |-> [j \in Local(MaximumPathInstance) |-> -1]]

state_init ==
    [simple_path |-> ZeroPath, frequency |-> 0, counter |-> 0, rand_range |-> 0,
     key |-> 0, hash_table |-> {}]
ZeroEntry ==
    [function |-> "none", state |-> -1, core |-> 0,
     path |-> [i \in Local(MaximumPath) |-> [j \in Local(MaximumPathInstance) |-> 0]],
     path_instance_number |-> ZeroPath]

config_init ==
    [ reta |-> [b \in RssBuckets |-> 0],
      bucket_to_action_id |-> [b \in RssBuckets |-> 0],
      par |-> [frequency |-> 0, data_state_size |-> 0],
      state |-> [s \in Indices |-> state_init],
      action |-> [a \in Indices |-> ZeroEntry],
      buckets |-> [w \in Cores |-> [b \in RssBuckets |-> 0]],
      first_action |-> [w \in Cores |-> FALSE],
      last_action |-> [w \in Cores |-> FALSE],
      port |-> "none",
      running |-> FALSE ]

-------------------------------------------------------------------------------
config_parameter(c, m) == [c EXCEPT !.par = m.par]

rss_reta_config(c, m) ==
    LET range == m.start .. m.start + m.num - 1
    IN [c EXCEPT !.reta = [b \in RssBuckets |-> IF b \in range THEN queue_id(m.worker) ELSE @[b]],
                 !.bucket_to_action_id = [b \in RssBuckets |-> IF b \in range THEN m.action ELSE @[b]]]

(* state_update: the paths and the key stay.                               *)
state_create(c, m) ==
    [c EXCEPT !.state[m.state] =
        [@ EXCEPT !.rand_range = c.par.data_state_size, !.frequency = c.par.frequency, !.counter = 0]]

install_path(c, m) ==
    LET free == {i \in Local(MaximumPathInstance) : c.action[m.action].path[m.path][i] = -1}
        slot == CHOOSE i \in free : \A j \in free : i <= j
        counted == [c EXCEPT !.action[m.action].path_instance_number[m.path] = @ + 1]
    IN IF free = {} THEN counted
       ELSE [counted EXCEPT !.action[m.action].path[m.path][slot] = m.to]

install_simple_path(c, m) == [c EXCEPT !.state[m.state].simple_path[m.path] = m.action]

control_frequency(c, m) == [c EXCEPT !.state[m.state].frequency = m.val]

(* "state data_state" sets rand_range.                                     *)
data_state(c, m) == [c EXCEPT !.state[m.state].rand_range = m.val]

action_create(c, m) ==
    [c EXCEPT !.action[m.action] =
        [function |-> register_action[m.registration], state |-> m.state, core |-> m.core,
         path |-> NoInstance, path_instance_number |-> ZeroPath]]

create_packet_out(c, m) ==
    [c EXCEPT !.action[m.action] =
        [@ EXCEPT !.function = "transmit_packet", !.state = -1, !.core = m.core],
              !.last_action[m.core] = TRUE]

(* port_init fails, or starts the port; started already, it stays so and   *)
(* rte_eth_dev_configure fails.  The handler ignores the result.           *)
port_init(c) == {c} \union IF c.port = "started" THEN {}
                           ELSE {[c EXCEPT !.port = p] : p \in {"failed", "started"}}

worker_first_action(c, m) ==
    LET range == m.start .. m.start + m.num - 1
    IN [c EXCEPT !.buckets[m.worker] = [b \in RssBuckets |-> IF b \in range THEN m.action ELSE @[b]],
                 !.first_action[m.worker] = TRUE]

(* These two are matched whatever the first word.                          *)
last_action(c, m) == [c EXCEPT !.last_action[m.worker] = TRUE]
first_action(c, m) == [c EXCEPT !.first_action[m.worker] = TRUE]

worker_run(c) == [c EXCEPT !.running = TRUE]

(* Comments, "dump", "state message_num" and what cli_process does not     *)
(* know change nothing; "coordinator send" fills the mailbox of core 2,    *)
(* which no worker reads, and data_complexity only costs time.             *)
Idle == {"comment", "dump", "message_num", "unknown", "coordinator send", "data_complexity"}

Simple ==
    {"config parameter", "rss_reta_config", "state create", "install_path", "install_simple_path",
     "control_frequency", "data_state", "action create", "create_packet_out",
     "worker first_action", "worker run", "last_action", "first_action"} \union Idle

cli_process(c, m) ==
    CASE m.op = "config parameter"    -> config_parameter(c, m)
      [] m.op = "rss_reta_config"     -> rss_reta_config(c, m)
      [] m.op = "state create"        -> state_create(c, m)
      [] m.op = "install_path"        -> install_path(c, m)
      [] m.op = "install_simple_path" -> install_simple_path(c, m)
      [] m.op = "control_frequency"   -> control_frequency(c, m)
      [] m.op = "data_state"          -> data_state(c, m)
      [] m.op = "action create"       -> action_create(c, m)
      [] m.op = "create_packet_out"   -> create_packet_out(c, m)
      [] m.op = "worker first_action" -> worker_first_action(c, m)
      [] m.op = "worker run"          -> worker_run(c)
      [] m.op = "last_action"         -> last_action(c, m)
      [] m.op = "first_action"        -> first_action(c, m)
      [] m.op \in Idle                -> c
===============================================================================
