---------------------------- MODULE LoadBalancersMC ----------------------------
(***************************************************************************)
(* setup_execution_model over every small list of cores, followed, for one *)
(* control core and two data cores, by the load balancers.                 *)
(***************************************************************************)
EXTENDS LoadBalancers, ExecutionModel

SmallLists == {s \in UNION {[1..n -> 0..4] : n \in 1..5} : IsInjective(s)}
SmallNumbers == 0..3

Group == CoreSet({1, 2})
Queues == CoreSet({0, 1, 2})

(* Two flows share a queue, of them one without ports.                     *)
ThreeFlows == {"t1", "i3", "u4"}
Protocol(f) == CASE f = "t1" -> "tcp" [] f = "u4" -> "udp" [] OTHER -> "icmp"
Rss(f) == IF f = "u4" THEN 1 ELSE 0

Packets(d) == IF d = 1 THEN 3 ELSE 1

(* The set-up that gives the balancers their cores, which makes DataCores  *)
(* the data_set.                                                           *)
Started == result = "done" /\ core_list = <<0, 1, 2>> /\ ctl_num = 1 /\ data_num = 2

ASSUME GroupIsDataSet == DataCores = CoreSet({1, 2})

MCInit == EMInit /\ Init

MCNext ==
    \/ setup_execution_model /\ UNCHANGED vars
    \/ Started /\ Next /\ UNCHANGED emVars

(* Only the balancers need fairness: nothing is promised of the set-up.    *)
MCFairness ==
    /\ WF_vars(ControlStep /\ Started)
    /\ \A d \in Components : WF_vars((Handle(d) \/ Leave(d)) /\ Started)

MCSpec == MCInit /\ [][MCNext]_<<vars, emVars>> /\ MCFairness
===============================================================================
