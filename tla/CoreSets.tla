-------------------------------- MODULE CoreSets --------------------------------
(***************************************************************************)
(* The sets of cores and queues of src/runtime/common/set.c, as C finds    *)
(* them in memory: an array of flags, the number of members behind it and  *)
(* max_size behind that.  The iterator looks for the next cell that is not *)
(* 0 and knows no end: it stops behind the array only because it reads num *)
(* there.                                                                  *)
(***************************************************************************)
EXTENDS Enumeration, Sequences, FiniteSetsExt, SequencesExt

CONSTANT MaxSize        \* length of the array: 100

ASSUME MaxSizeAssumption == MaxSize \in Nat \ {0}

Stray == MaxSize + 2    \* the cell that overlaps max_size; past it, the heap

CoreSet(members) == [member |-> members, num |-> Cardinality(members)]

set_create == CoreSet({})

(* The first cell from i on that is not 0.                                 *)
NextCell(s, i) ==
    LET here == {m \in s.member : m >= i}
    IN  IF here # {} THEN Min(here) ELSE IF s.num # 0 THEN MaxSize ELSE Stray

set_insert(s, i) ==
    IF i \in s.member THEN s
    ELSE [member |-> s.member \union {i}, num |-> s.num + 1]

set_delete(s, i) ==
    IF i \in s.member THEN [member |-> s.member \ {i}, num |-> s.num - 1]
    ELSE s

(* What set_pop returns; Stray when it runs past the array.                *)
Popped(s) == NextCell(s, 0)
set_pop(s) == set_delete(s, Popped(s))

(* A loop "while (index != 100)" ends only over a set that is not empty.   *)
LoopEnds(s) == NextCell(s, MaxSize) = MaxSize

(* The cells at which the iterator stops, in the order it meets them.      *)
InOrder(s) == InOrderOf(s.member)

(* Mutant: the remainder is left over.                                     *)
SubsetSize_NoRemainder(s, num, i) == s.num \div num

(* set_split for num > 0: the remainder goes to the first subsets, and     *)
(* each subset takes the least members that are left.                      *)
SubsetSize(s, num, i) ==
    (s.num \div num) + (IF i <= s.num % num THEN 1 ELSE 0)

set_split(s, num) ==
    LET taken[i \in 0..num] == IF i = 0 THEN 0 ELSE taken[i-1] + SubsetSize(s, num, i)
    IN  [i \in 1..num |-> CoreSet({InOrder(s)[k] : k \in taken[i-1]+1 .. taken[i]})]
===============================================================================
