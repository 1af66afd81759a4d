-------------------------- MODULE GenericDecomposed --------------------------
(***************************************************************************)
(* The per-packet decisions of the generic decomposed network function     *)
(* (src/runtime/nf/generic_decomposed.h).  A classifier sends each packet  *)
(* straight to the data action or first through the control action,        *)
(* depending on the state's control_frequency and running counter; each    *)
(* action names the next one by an index into the state's simple_path      *)
(* array.  The operators are pure: the modules that interleave them decide *)
(* when they run and on which copy of the state.                           *)
(***************************************************************************)
EXTENDS Integers

(* The two entries of simple_path a classifier chooses from.  The control  *)
(* action also uses entry 0, the data action entry 2.                      *)
DataPath == 0
ControlPath == 1
OutPath == 2

(* Mutant: the control packet opens the period.                            *)
ClassifierPath_ControlFirst(f, n) ==
    IF f > 0
    THEN IF n = 0 THEN ControlPath ELSE DataPath
    ELSE IF f = n \/ f = 0 THEN DataPath ELSE ControlPath

(* Mutant: a counter past the frequency counts as having reached it.       *)
ClassifierPath_AtLeast(f, n) ==
    IF f > 0
    THEN IF n >= f THEN ControlPath ELSE DataPath
    ELSE IF f >= n \/ f = 0 THEN DataPath ELSE ControlPath

(* The entry of simple_path taken by a packet classified with frequency f  *)
(* when the state's counter is n: f > 0 sends one packet in f + 1 through  *)
(* control, f < 0 all but one in 1 - f, f = 0 none.                        *)
ClassifierPath(f, n) ==
    IF f > 0
    THEN IF n = f THEN ControlPath ELSE DataPath
    ELSE IF f = n \/ f = 0 THEN DataPath ELSE ControlPath

(* Mutant: the counter is not reset at the end of a period.                *)
ClassifierCounter_NoReset(f, n) ==
    CASE f = 0 -> n
      [] f > 0 -> n + 1
      [] f < 0 -> n - 1

(* The counter the classifier leaves behind.                               *)
ClassifierCounter(f, n) ==
    CASE f = 0 -> n
      [] f # 0 /\ n = f -> 0
      [] f > 0 /\ n # f -> n + 1
      [] f < 0 /\ n # f -> n - 1
=============================================================================
