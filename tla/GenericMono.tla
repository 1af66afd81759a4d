------------------------------ MODULE GenericMono ------------------------------
(***************************************************************************)
(* The monolithic twin of the generic network function                     *)
(* (src/runtime/nf/generic_mono.c): one loop that decides, packet by       *)
(* packet, whether control runs before data.  Its frequency is fixed when  *)
(* the function is created.                                                *)
(***************************************************************************)
EXTENDS Integers

CONSTANT Frequencies    \* the frequencies it may be created with

VARIABLES frequency_control,
          current,      \* position in the period
          control       \* whether the last packet took control

vars == <<frequency_control, current, control>>

Init ==
    /\ frequency_control \in Frequencies
    /\ current = 0
    /\ control = FALSE

(* The chain of tests at the head of the loop body.                        *)
TakesControl(f, n) ==
    /\ ~(f > 0 /\ n < f)
    /\ ~(f < 0 /\ n = f)
    /\ f # 0

NextCurrent(f, n) ==
    IF TakesControl(f, n)
    THEN IF f < 0 THEN n - 1 ELSE 0
    ELSE IF f > 0 THEN n + 1
    ELSE IF f < 0 THEN 0 ELSE n

Packet ==
    /\ control' = TakesControl(frequency_control, current)
    /\ current' = NextCurrent(frequency_control, current)
    /\ UNCHANGED frequency_control

Spec == Init /\ [][Packet]_vars
=============================================================================
