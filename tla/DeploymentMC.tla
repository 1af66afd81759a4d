------------------------------ MODULE DeploymentMC ------------------------------
(***************************************************************************)
(* Deployments and cache allocation on a small machine.  Nothing calls     *)
(* cat_init and the two share no state, so a behaviour is about one of     *)
(* them, the subject.                                                      *)
(***************************************************************************)
EXTENDS Deployment, CacheAllocation

VARIABLE subject

GdActions == <<"packet_in", "gd_classifier", "gd_control", "gd_data", "packet_out">>
GdStates == <<"state_gdd", "state_gdc">>
GdStateOf(a) == IF a = "gd_control" THEN "state_gdc" ELSE "state_gdd"

(* The edges of generic_decomposed.yaml in its order, in which the         *)
(* functions find the way to control, and in one in which they find those  *)
(* to data and out.                                                        *)
YamlEdges == <<<<"packet_in", "gd_classifier">>, <<"gd_classifier", "gd_control">>,
               <<"gd_classifier", "gd_data">>, <<"gd_control", "gd_data">>,
               <<"gd_data", "packet_out">>>>
DataEdges == <<<<"gd_classifier", "gd_data">>, <<"gd_control", "gd_data">>,
               <<"gd_data", "packet_out">>, <<"gd_classifier", "gd_control">>,
               <<"packet_in", "gd_classifier">>>>

(* No yaml with these edges suits the classifier and the data action both: *)
(* those into data are neighbours, so that of 0, 1 and 2 one is control's. *)
Suits(order) ==
    /\ order[DataPath + 1] = <<"gd_classifier", "gd_data">>
    /\ order[ControlPath + 1] = <<"gd_classifier", "gd_control">>
    /\ order[OutPath + 1] = <<"gd_data", "packet_out">>

(* The numbers of generic_decomposed.yaml, and those of Config.c.          *)
YamlId(a) == CASE a = "gd_classifier" -> 3 [] a = "gd_control" -> 4 [] a = "gd_data" -> 5
ConfigId(a) == CASE a = "gd_classifier" -> 3 [] a = "gd_control" -> 5 [] a = "gd_data" -> 4

(* Instance j of everything on core 1, 3, 5, 7, control one core further.  *)
Shards(a, j) == IF a = "gd_control" THEN (2 * j + 3) % 8 ELSE 2 * j + 1

Plan(in, control, data) ==
    [a \in ToSet(GdActions) |-> CASE a = "gd_control" -> control
                                  [] a \in {"gd_data", "packet_out"} -> data
                                  [] OTHER -> in]
SomePlans == {Plan(1, 1, 1), Plan(2, 1, 2), Plan(4, 4, 4)}
OnePlan == {Plan(1, 1, 1)}

Typed == {[op |-> "comment"],
          [op |-> "control_frequency", state |-> 0, val |-> 1],
          [op |-> "data_state", state |-> 0, val |-> 0],
          [op |-> "data_state", state |-> 0, val |-> 1],
          [op |-> "last_action", worker |-> 1], [op |-> "first_action", worker |-> 5],
          [op |-> "config parameter", par |-> [frequency |-> 0, data_state_size |-> 1]],
          [op |-> "install_path", action |-> 1, path |-> 0, to |-> 1],
          [op |-> "port init"]}
NoCommands == {}

(* An operator who starts the workers before the director does.            *)
Impatient == {[op |-> "port init"], [op |-> "worker run"]}

EightCores == 0 .. 7
OddCores == {1, 3, 5, 7}
Table == 0 .. 19
SixBuckets == 0 .. 5

(* Two packages, the second with a core another program has given class 1. *)
FiveCores == 0 .. 4
Package(k) == IF k < 2 THEN 0 ELSE 1
ThreeClasses == 0 .. 2
CoreFour == [k \in 0 .. 4 |-> IF k = 4 THEN 1 ELSE 0]
Ask(cpus, code, data) == [cpus |-> cpus, code |-> code, data |-> data]

(* Two groups, a separated one, too many on a package, a warning that hides *)
(* a mask too long, too long alone, malformed, not contiguous, a busy core, *)
(* no such core, an overlap, and no argument.                              *)
Arguments ==
    { [text |-> <<3, At, Open, 0, Comma, 2, Close, Comma, 12, At, 1>>,
       asks |-> <<Ask({0, 2}, 3, 3), Ask({1}, 12, 12)>>],
      [text |-> <<Open, 1, Comma, 2, Close, At, Open, 3, Dash, 2, Close>>,
       asks |-> <<Ask({2, 3}, 1, 2)>>],
      [text |-> <<3, At, 2, Comma, 3, At, 3>>, asks |-> <<Ask({2}, 3, 3), Ask({3}, 3, 3)>>],
      [text |-> <<8, At, 0, Comma, 48, At, 1>>, asks |-> <<Ask({0}, 8, 8), Ask({1}, 48, 48)>>],
      [text |-> <<48, At, 0, Dash, 2>>, asks |-> <<Ask({0, 1, 2}, 48, 48)>>],
      [text |-> <<3, At, Open, 0, Dash, 1, Dash, 2, Close>>, asks |-> << >>],
      [text |-> <<5, At, 0>>, asks |-> << >>],
      [text |-> <<3, At, 4>>, asks |-> <<Ask({4}, 3, 3)>>],
      [text |-> <<3, At, 5>>, asks |-> <<Ask({5}, 3, 3)>>],
      [text |-> <<3, At, 0, Comma, 1, At, Open, 0, Comma, 1, Close>>,
       asks |-> <<Ask({0}, 3, 3), Ask({0, 1}, 1, 1)>>],
      [text |-> << >>, asks |-> << >>] }
NoArguments == {[text |-> << >>, asks |-> << >>]}

ASSUME ArgumentsUnderstood == Understood
ASSUME CommandsUnderstood == CommandsFit
ASSUME RunUnderstood == OperatorCommands # Impatient => RunsLast
ASSUME PlansUnderstood == PlansFit
ASSUME BucketsUnderstood == OperatorAside /\ BucketsFit
ASSUME PathsUnderstood == RegistrationId("gd_data") = 4 => PathsFit
ASSUME NoOrderSuits == \A order \in SetToSeqs(ToSet(Edges)) : Grouped(order) => ~Suits(order)

MCInit ==
    /\ Init /\ CatInit
    /\ subject \in {"deployment", "cache"}
    /\ subject = "deployment" => request.text = << >>
    /\ subject = "cache" => plan = Plan(1, 1, 1) /\ script = deployment(plan, starts) \o run

MCNext ==
    \/ subject = "deployment" /\ Next /\ UNCHANGED <<subject, catvars>>
    \/ subject = "cache" /\ CatNext /\ UNCHANGED <<subject, vars>>

MCSpec == MCInit /\ [][MCNext]_<<vars, catvars, subject>> /\ WF_vars(Forward)
===============================================================================
