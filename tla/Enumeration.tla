------------------------------- MODULE Enumeration -------------------------------
(***************************************************************************)
(* The order in which the loops of the code meet the members of a set that *)
(* it keeps as an array of flags.                                          *)
(***************************************************************************)
EXTENDS Integers, FiniteSets

(* The members of S by their ranks.                                        *)
InOrderOf(S) ==
    [k \in 1 .. Cardinality(S) |-> CHOOSE x \in S : Cardinality({y \in S : y < x}) = k - 1]
===============================================================================
