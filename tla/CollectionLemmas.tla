----------------------------- MODULE CollectionLemmas -----------------------------
(***************************************************************************)
(* What the proofs need of sets of numbers, of the order in which a loop   *)
(* meets the members of a set, of sequences put end to end and of sums     *)
(* over a finite set.  Induction is the well-foundedness of < on Nat,      *)
(* applied to sets.                                                        *)
(***************************************************************************)
EXTENDS Enumeration, Sequences, SequencesExt, FiniteSetsExt, FiniteSetTheorems,
        SequenceTheorems, WellFoundedInduction, TLAPS

(* Numbers, if there are any, have a least one.                            *)
LEMMA Least ==
    ASSUME NEW T, T \subseteq Nat, T # {}
    PROVE  \E n \in T : \A m \in T : n <= m
<1>1. PICK R : R = OpToRel(<, Nat)
  OBVIOUS
<1>2. IsWellFoundedOn(R, Nat)
  BY <1>1, NatLessThanWellFounded
<1>3. PICK n \in T : \A m \in T : <<m, n>> \notin R
  BY <1>2, WFMin
<1>4. \A m \in T : ~(m < n)
  <2>1. \A x \in Nat, y \in Nat : x < y => <<x, y>> \in OpToRel(<, Nat)
    BY DEF OpToRel
  <2> QED BY <1>1, <1>3, <2>1
<1>5. \A m \in T : n <= m
  BY <1>4
<1> QED BY <1>5

(* Min finds it.                                                           *)
LEMMA MinIn ==
    ASSUME NEW T, T \subseteq Nat, T # {}
    PROVE  Min(T) \in T /\ \A m \in T : Min(T) <= m
BY Least DEF Min

(* Induction: a set of numbers with 0 and all successors has them all.     *)
LEMMA Induct ==
    ASSUME NEW S, S \subseteq Nat, 0 \in S, \A n \in Nat : n \in S => n + 1 \in S
    PROVE  S = Nat
<1>1. SUFFICES ASSUME Nat \ S # {} PROVE FALSE
  OBVIOUS
<1>2. PICK n \in Nat \ S : \A m \in Nat \ S : n <= m
  BY <1>1, Least
<1>3. n # 0 /\ n - 1 \in Nat /\ ~(n <= n - 1)
  BY <1>2
<1>4. n - 1 \in S
  BY <1>2, <1>3
<1>5. (n - 1) + 1 = n
  BY <1>3
<1> QED BY <1>2, <1>3, <1>4, <1>5

(* A quotient and the remainder, which is below the divisor.               *)
LEMMA Division ==
    ASSUME NEW a \in Nat, NEW b \in Nat \ {0}
    PROVE  /\ a \div b \in Nat /\ a % b \in 0 .. b - 1
           /\ a = b * (a \div b) + (a % b)
           /\ (a \div b = 0 <=> a < b)
<1> DEFINE q == a \div b   r == a % b
<1>1. q \in Nat /\ r \in 0 .. b - 1 /\ a = b * q + r
  OBVIOUS
<1> HIDE DEF q, r
<1>2. q = 0 => a < b
  <2>1. q = 0 => b * q = 0
    OBVIOUS
  <2> QED BY <1>1, <2>1
<1>3. a < b => q = 0
  <2> SUFFICES ASSUME a < b, q # 0 PROVE FALSE
    OBVIOUS
  <2>1. PICK p \in Nat : q = p + 1
    BY <1>1
  <2>2. b * q = b * p + b /\ b * p >= 0
    BY <2>1
  <2> DEFINE m == b * p   x == b * q
  <2>3. x = m + b /\ m >= 0 /\ a = x + r /\ m \in Int /\ r \in Nat
    BY <1>1, <2>2
  <2> HIDE DEF m, x
  <2>4. x >= b
    BY <2>3
  <2>5. x \in Int /\ a >= x
    BY <2>3
  <2> QED BY <2>4, <2>5
<1> QED BY <1>1, <1>2, <1>3 DEF q, r

-------------------------------------------------------------------------------
(* The members of S below x, and their number.                             *)
Below(S, x) == {y \in S : y < x}

(* The rank of a member is a number below the cardinality, and a greater   *)
(* member has a greater rank.                                              *)
LEMMA RankFacts ==
    ASSUME NEW S, S \subseteq Int, IsFiniteSet(S)
    PROVE  /\ \A x \in S : /\ Cardinality(Below(S, x)) \in Nat
                           /\ Cardinality(Below(S, x)) < Cardinality(S)
           /\ \A x, y \in S : x < y => Cardinality(Below(S, x)) < Cardinality(Below(S, y))
<1>1. ASSUME NEW x \in S
      PROVE  /\ Cardinality(Below(S, x)) \in Nat
             /\ Cardinality(Below(S, x)) < Cardinality(S)
  <2>1. Below(S, x) \in SUBSET (S \ {x}) /\ IsFiniteSet(S \ {x})
    BY FS_RemoveElement DEF Below
  <2>2. Cardinality(S \ {x}) = Cardinality(S) - 1
    BY FS_RemoveElement
  <2>3. IsFiniteSet(Below(S, x)) /\ Cardinality(Below(S, x)) <= Cardinality(S \ {x})
    BY <2>1, FS_Subset
  <2>4. Cardinality(Below(S, x)) \in Nat /\ Cardinality(S) \in Nat
    BY <2>3, FS_CardinalityType
  <2> QED BY <2>2, <2>3, <2>4
<1>2. ASSUME NEW x \in S, NEW y \in S, x < y
      PROVE  Cardinality(Below(S, x)) < Cardinality(Below(S, y))
  <2>1. Below(S, y) \in SUBSET S /\ IsFiniteSet(Below(S, y))
    BY FS_Subset DEF Below
  <2>2. x \in Below(S, y) /\ Below(S, x) \in SUBSET (Below(S, y) \ {x})
    <3>1. \A z \in Below(S, x) : z \in S /\ z < y /\ z # x
      BY <1>2 DEF Below
    <3> QED BY <1>2, <3>1 DEF Below
  <2>3. /\ IsFiniteSet(Below(S, y) \ {x})
        /\ Cardinality(Below(S, y) \ {x}) = Cardinality(Below(S, y)) - 1
    BY <2>1, <2>2, FS_RemoveElement
  <2>4. Cardinality(Below(S, x)) <= Cardinality(Below(S, y) \ {x})
    BY <2>2, <2>3, FS_Subset
  <2> QED BY <1>1, <2>3, <2>4
<1> QED BY <1>1, <1>2

(* InOrderOf lists the members of a finite set of integers, each once, in  *)
(* ascending order.                                                        *)
LEMMA InOrderFacts ==
    ASSUME NEW S, S \subseteq Int, IsFiniteSet(S)
    PROVE  LET F == InOrderOf(S)
           IN  /\ Cardinality(S) \in Nat
               /\ F \in [1 .. Cardinality(S) -> S]
               /\ F \in Seq(S) /\ Len(F) = Cardinality(S) /\ DOMAIN F = 1 .. Cardinality(S)
               /\ \A x \in S : \E k \in 1 .. Cardinality(S) : F[k] = x
               /\ \A j, k \in 1 .. Cardinality(S) : j < k => F[j] < F[k]
               /\ \A j, k \in 1 .. Cardinality(S) : F[j] = F[k] => j = k
<1> DEFINE n == Cardinality(S)
           R(x) == Cardinality(Below(S, x))
           f == [x \in S |-> R(x)]
           F == InOrderOf(S)
<1>1. n \in Nat
  BY FS_CardinalityType
<1>2. \A x \in S : R(x) \in 0 .. n - 1
  <2> SUFFICES ASSUME NEW x \in S PROVE R(x) \in 0 .. n - 1
    OBVIOUS
  <2>1. Cardinality(Below(S, x)) \in Nat /\ Cardinality(Below(S, x)) < Cardinality(S)
    BY RankFacts
  <2> QED BY <1>1, <2>1
<1>3. \A x, y \in S : R(x) = R(y) => x = y
  <2> SUFFICES ASSUME NEW x \in S, NEW y \in S, R(x) = R(y), x # y PROVE FALSE
    OBVIOUS
  <2>1. x < y \/ y < x
    OBVIOUS
  <2>2. R(x) < R(y) \/ R(y) < R(x)
    BY <2>1, RankFacts
  <2> QED BY <1>1, <1>2, <2>2
<1> HIDE DEF R
<1>4. f \in Injection(S, 0 .. n - 1)
  BY <1>2, <1>3 DEF Injection, IsInjective
<1>5. IsFiniteSet(0 .. n - 1) /\ Cardinality(0 .. n - 1) = n
  BY <1>1, FS_Interval
<1>6. f \in Surjection(S, 0 .. n - 1)
  BY <1>4, <1>5, FS_Injection
<1>7. \A k \in 1 .. n : \E x \in S : R(x) = k - 1
  <2> SUFFICES ASSUME NEW k \in 1 .. n PROVE \E x \in S : R(x) = k - 1
    OBVIOUS
  <2>1. k - 1 \in 0 .. n - 1
    BY <1>1
  <2>2. \E x \in S : f[x] = k - 1
    BY <1>6, <2>1 DEF Surjection
  <2> QED BY <2>2
<1>8. F = [k \in 1 .. n |-> CHOOSE x \in S : R(x) = k - 1]
  BY DEF InOrderOf, R, Below
<1>9. \A k \in 1 .. n : F[k] \in S /\ R(F[k]) = k - 1
  BY <1>7, <1>8
<1>10. F \in [1 .. n -> S]
  BY <1>8, <1>9
<1>11. F \in Seq(S) /\ Len(F) = n /\ DOMAIN F = 1 .. n
  BY <1>1, <1>10
<1>12. ASSUME NEW x \in S PROVE \E k \in 1 .. n : F[k] = x
  <2>1. R(x) + 1 \in 1 .. n /\ (R(x) + 1) - 1 = R(x)
    BY <1>1, <1>2
  <2> QED BY <1>3, <1>9, <2>1
<1>13. ASSUME NEW j \in 1 .. n, NEW k \in 1 .. n, j < k PROVE F[j] < F[k]
  <2>1. F[j] \in S /\ F[k] \in S /\ R(F[j]) = j - 1 /\ R(F[k]) = k - 1
    BY <1>9
  <2>2. ~(F[k] < F[j])
    <3> SUFFICES ASSUME F[k] < F[j] PROVE FALSE
      OBVIOUS
    <3>1. R(F[k]) < R(F[j])
      BY <2>1, RankFacts DEF R
    <3> QED BY <1>13, <2>1, <3>1
  <2>3. F[j] # F[k]
    BY <1>13, <2>1
  <2>4. F[j] \in Int /\ F[k] \in Int
    BY <2>1
  <2> HIDE DEF F
  <2> QED BY <2>2, <2>3, <2>4
<1>14. \A j, k \in 1 .. n : F[j] = F[k] => j = k
  BY <1>1, <1>9
<1> QED BY <1>1, <1>10, <1>11, <1>12, <1>13, <1>14
-------------------------------------------------------------------------------
(* The recursion of FlattenSeq on a prefix: g[i] joins s[1] to s[i].       *)
Joins(s, k, g) == g = [i \in 1 .. k |-> IF i = 1 THEN s[i] ELSE g[i - 1] \o s[i]]

(* Such a function exists for every prefix.                                *)
LEMMA JoinsExist ==
    ASSUME NEW s, NEW k \in Nat
    PROVE  \E g : Joins(s, k, g)
<1> DEFINE Ks == {m \in Nat : \E g : Joins(s, m, g)}
<1>1. 0 \in Ks
  <2>1. Joins(s, 0, [i \in 1 .. 0 |-> 0])
    BY DEF Joins
  <2> QED BY <2>1
<1>2. ASSUME NEW m \in Nat, m \in Ks PROVE m + 1 \in Ks
  <2>1. PICK g : Joins(s, m, g)
    BY <1>2
  <2> DEFINE next == IF m + 1 = 1 THEN s[m + 1] ELSE g[m] \o s[m + 1]
             h == [i \in 1 .. m + 1 |-> IF i = m + 1 THEN next ELSE g[i]]
  <2>2. \A i \in 1 .. m : g[i] = IF i = 1 THEN s[i] ELSE g[i - 1] \o s[i]
    BY <2>1 DEF Joins
  <2>3. ASSUME NEW i \in 1 .. m + 1
        PROVE  h[i] = IF i = 1 THEN s[i] ELSE h[i - 1] \o s[i]
    <3>1. CASE i = m + 1
      <4>1. i # 1 => h[i - 1] = g[m]
        BY <3>1
      <4> QED BY <3>1, <4>1
    <3>2. CASE i # m + 1
      <4>1. i \in 1 .. m /\ h[i] = g[i] /\ (i # 1 => h[i - 1] = g[i - 1])
        BY <3>2
      <4> QED BY <2>2, <4>1
    <3> QED BY <3>1, <3>2
  <2>4. Joins(s, m + 1, h)
    BY <2>3 DEF Joins
  <2> QED BY <2>4
<1> HIDE DEF Ks
<1>3. Ks = Nat
  <2>1. Ks \subseteq Nat
    BY DEF Ks
  <2> QED BY <1>1, <1>2, <2>1, Induct
<1> QED BY <1>3 DEF Ks

(* f has the elements of s[1] to s[k].                                     *)
JoinOf(T, s, k, f) ==
    /\ f \in Seq(T)
    /\ \A x \in DOMAIN f : \E i \in 1 .. k : \E j \in DOMAIN s[i] : f[x] = s[i][j]
    /\ \A i \in 1 .. k : \A j \in DOMAIN s[i] : \E x \in DOMAIN f : f[x] = s[i][j]

(* One more sequence at the end.                                           *)
LEMMA JoinStep ==
    ASSUME NEW T, NEW s, NEW k \in Nat, s[k + 1] \in Seq(T), NEW a, JoinOf(T, s, k, a)
    PROVE  JoinOf(T, s, k + 1, a \o s[k + 1])
<1> DEFINE b == s[k + 1]
           c == a \o b
<1>1. a \in Seq(T) /\ b \in Seq(T)
  BY DEF JoinOf
<1> HIDE DEF b
<1>2. PICK l \in Nat : l = Len(a)
  BY <1>1
<1>3. PICK m \in Nat : m = Len(b)
  BY <1>1
<1>4. /\ c \in Seq(T) /\ DOMAIN c = 1 .. l + m /\ DOMAIN a = 1 .. l /\ DOMAIN b = 1 .. m
      /\ \A x \in 1 .. l : c[x] = a[x]
      /\ \A x \in 1 .. m : c[l + x] = b[x]
  BY <1>1, <1>2, <1>3
<1> HIDE DEF c
<1>5. ASSUME NEW x \in DOMAIN c
      PROVE  \E i \in 1 .. k + 1 : \E j \in DOMAIN s[i] : c[x] = s[i][j]
  <2>1. CASE x <= l
    <3>1. x \in DOMAIN a /\ c[x] = a[x]
      BY <1>4, <2>1
    <3>2. PICK i \in 1 .. k : \E j \in DOMAIN s[i] : a[x] = s[i][j]
      BY <3>1 DEF JoinOf
    <3>3. i \in 1 .. k + 1
      OBVIOUS
    <3> QED BY <3>1, <3>2, <3>3
  <2>2. CASE ~(x <= l)
    <3>1. x - l \in 1 .. m /\ l + (x - l) = x
      BY <1>4, <2>2
    <3>2. x - l \in DOMAIN b /\ c[x] = b[x - l]
      BY <1>4, <3>1
    <3>3. k + 1 \in 1 .. k + 1 /\ b = s[k + 1]
      BY DEF b
    <3> QED BY <3>2, <3>3
  <2> QED BY <2>1, <2>2
<1>6. ASSUME NEW i \in 1 .. k + 1, NEW j \in DOMAIN s[i]
      PROVE  \E x \in DOMAIN c : c[x] = s[i][j]
  <2>1. CASE i = k + 1
    <3>1. j \in 1 .. m /\ s[i][j] = b[j]
      BY <1>4, <2>1 DEF b
    <3>2. l + j \in 1 .. l + m
      BY <3>1
    <3> QED BY <1>4, <3>1, <3>2
  <2>2. CASE i # k + 1
    <3>1. i \in 1 .. k
      BY <2>2
    <3>2. PICK x \in DOMAIN a : a[x] = s[i][j]
      BY <3>1 DEF JoinOf
    <3>3. x \in 1 .. l /\ x \in 1 .. l + m
      BY <1>4
    <3> QED BY <1>4, <3>2, <3>3
  <2> QED BY <2>1, <2>2
<1> QED BY <1>4, <1>5, <1>6 DEF JoinOf, c, b

(* FlattenSeq puts sequences end to end: it has their elements, all of     *)
(* them and no other.                                                      *)
LEMMA FlattenFacts ==
    ASSUME NEW T, NEW s \in Seq(Seq(T))
    PROVE  JoinOf(T, s, Len(s), FlattenSeq(s))
<1>1. PICK n \in Nat : n = Len(s)
  OBVIOUS
<1>2. \A i \in 1 .. n : s[i] \in Seq(T)
  BY <1>1
<1>3. CASE n = 0
  <2>1. FlattenSeq(s) = s
    BY <1>1, <1>3 DEF FlattenSeq
  <2>2. s = << >>
    BY <1>1, <1>3, EmptySeq
  <2>3. JoinOf(T, s, 0, << >>)
    BY DEF JoinOf
  <2> QED BY <1>1, <1>3, <2>1, <2>2, <2>3
<1>4. CASE n # 0
  <2> DEFINE g == CHOOSE f : Joins(s, n, f)
  <2>1. FlattenSeq(s) = g[n]
    BY <1>1, <1>4 DEF FlattenSeq, Joins
  <2>2. Joins(s, n, g)
    BY JoinsExist
  <2> HIDE DEF g
  <2>3. \A k \in 1 .. n : g[k] = IF k = 1 THEN s[k] ELSE g[k - 1] \o s[k]
    BY <2>2 DEF Joins
  <2> DEFINE Ks == {m \in Nat : m + 1 <= n => JoinOf(T, s, m + 1, g[m + 1])}
  <2>4. 0 \in Ks
    <3>1. g[1] = s[1] /\ s[1] \in Seq(T)
      BY <1>2, <1>4, <2>3
    <3>2. JoinOf(T, s, 1, g[1])
      BY <3>1 DEF JoinOf
    <3> QED BY <3>2
  <2>5. ASSUME NEW m \in Nat, m \in Ks PROVE m + 1 \in Ks
    <3>1. CASE m + 2 <= n
      <4>1. JoinOf(T, s, m + 1, g[m + 1])
        BY <2>5, <3>1
      <4>2. m + 2 \in 1 .. n /\ m + 2 # 1 /\ (m + 2) - 1 = m + 1 /\ (m + 1) + 1 = m + 2
        BY <3>1
      <4>3. g[m + 2] = g[m + 1] \o s[m + 2]
        BY <2>3, <4>2
      <4>4. JoinOf(T, s, (m + 1) + 1, g[m + 1] \o s[(m + 1) + 1])
        BY <1>2, <4>1, <4>2, JoinStep
      <4>5. JoinOf(T, s, (m + 1) + 1, g[(m + 1) + 1])
        BY <4>2, <4>3, <4>4
      <4> QED BY <4>5
    <3>2. CASE ~(m + 2 <= n)
      BY <3>2
    <3> QED BY <3>1, <3>2
  <2> HIDE DEF Ks
  <2>6. Ks = Nat
    <3>1. Ks \subseteq Nat
      BY DEF Ks
    <3> QED BY <2>4, <2>5, <3>1, Induct
  <2>7. n - 1 \in Ks /\ (n - 1) + 1 = n
    BY <1>4, <2>6
  <2>8. JoinOf(T, s, n, g[n])
    BY <2>7 DEF Ks
  <2> QED BY <1>1, <2>1, <2>8
<1> QED BY <1>3, <1>4

(* A sequence that is not empty is its head and its tail.                  *)
LEMMA Ends ==
    ASSUME NEW T, NEW s \in Seq(T), s # << >>
    PROVE  /\ Head(s) \in T /\ 1 \in DOMAIN s /\ Head(s) = s[1]
           /\ Tail(s) \in Seq(T)
           /\ \A x \in DOMAIN Tail(s) :
                 x \in Nat /\ x + 1 \in DOMAIN s /\ Tail(s)[x] = s[x + 1]
           /\ \A x \in DOMAIN s :
                 \/ x = 1
                 \/ x - 1 \in DOMAIN Tail(s) /\ Tail(s)[x - 1] = s[x]
<1>1. PICK n \in Nat : n = Len(s)
  OBVIOUS
<1>2. n # 0 /\ DOMAIN s = 1 .. n
  BY <1>1, EmptySeq
<1>3. /\ Tail(s) \in Seq(T) /\ DOMAIN Tail(s) = 1 .. n - 1
      /\ \A x \in 1 .. n - 1 : Tail(s)[x] = s[x + 1]
  BY <1>1, <1>2
<1>4. Head(s) = s[1] /\ 1 \in DOMAIN s /\ s[1] \in T
  BY <1>1, <1>2
<1>5. \A x \in 1 .. n - 1 : x \in Nat /\ x + 1 \in 1 .. n
  OBVIOUS
<1>6. \A x \in 1 .. n : x = 1 \/ (x - 1 \in 1 .. n - 1 /\ (x - 1) + 1 = x)
  OBVIOUS
<1> QED BY <1>2, <1>3, <1>4, <1>5, <1>6

(* One entry of a table is written.                                        *)
LEMMA TableUpdate ==
    ASSUME NEW A, NEW B, NEW V, NEW f \in [A -> [B -> V]],
           NEW x \in A, NEW y \in B, NEW v \in V, NEW g, g = [f EXCEPT ![x][y] = v]
    PROVE  /\ g \in [A -> [B -> V]]
           /\ \A a \in A, b \in B : g[a][b] = IF a = x /\ b = y THEN v ELSE f[a][b]
OBVIOUS

(* A loop over the members of a set that makes an element of each.         *)
LEMMA PartFacts ==
    ASSUME NEW S, NEW n \in Nat, NEW F \in [1 .. n -> S], \A k \in S : \E x \in 1 .. n : F[x] = k,
           NEW g, NEW V, NEW part \in [1 .. n -> V], \A x \in 1 .. n : part[x] = g[F[x]]
    PROVE  /\ part \in Seq(V)
           /\ \A x \in DOMAIN part : \E k \in S : part[x] = g[k]
           /\ \A k \in S : \E x \in DOMAIN part : part[x] = g[k]
<1>1. part \in Seq(V) /\ DOMAIN part = 1 .. n
  OBVIOUS
<1>2. \A k \in S : \E x \in 1 .. n : part[x] = g[k]
  OBVIOUS
<1>3. \A x \in 1 .. n : F[x] \in S /\ part[x] = g[F[x]]
  OBVIOUS
<1> QED BY <1>1, <1>2, <1>3

-------------------------------------------------------------------------------
(* Induction on a finite set: what holds of a set when it holds of the set *)
(* without any one member holds of all subsets.                            *)
LEMMA SetInduct ==
    ASSUME NEW S, IsFiniteSet(S), NEW P,
           \A T \in SUBSET S : (\A x \in T : T \ {x} \in P) => T \in P
    PROVE  SUBSET S \subseteq P
<1> DEFINE N == {k \in Nat : \A T \in SUBSET S : Cardinality(T) = k => T \in P}
<1>1. ASSUME NEW T \in SUBSET S
      PROVE  IsFiniteSet(T) /\ Cardinality(T) \in Nat /\ (Cardinality(T) = 0 => T = {})
  <2>1. IsFiniteSet(T)
    BY FS_Subset
  <2> QED BY <2>1, FS_CardinalityType, FS_EmptySet
<1>2. 0 \in N
  <2> SUFFICES ASSUME NEW T \in SUBSET S, Cardinality(T) = 0 PROVE T \in P
    OBVIOUS
  <2>1. T = {}
    BY <1>1
  <2> QED BY <2>1
<1>3. ASSUME NEW k \in Nat, k \in N PROVE k + 1 \in N
  <2> SUFFICES ASSUME NEW T \in SUBSET S, Cardinality(T) = k + 1 PROVE T \in P
    OBVIOUS
  <2>1. ASSUME NEW x \in T PROVE T \ {x} \in P
    <3>1. IsFiniteSet(T)
      BY <1>1
    <3>2. Cardinality(T \ {x}) = Cardinality(T) - 1
      BY <3>1, FS_RemoveElement
    <3>3. Cardinality(T \ {x}) = k /\ T \ {x} \in SUBSET S
      BY <3>2
    <3> QED BY <1>3, <3>3
  <2> QED BY <2>1
<1> HIDE DEF N
<1>4. N = Nat
  <2>1. N \subseteq Nat
    BY DEF N
  <2> QED BY <1>2, <1>3, <2>1, Induct
<1>5. ASSUME NEW T \in SUBSET S PROVE T \in P
  BY <1>1, <1>4 DEF N
<1> QED BY <1>5

-------------------------------------------------------------------------------
(* The function SumFunction defines, on the sets of at most k members.     *)
Pick(s) == CHOOSE x \in s : TRUE
Small(S, k) == {s \in SUBSET S : Cardinality(s) <= k}
SumStep(f, h, s) == IF s = {} THEN 0 ELSE f[Pick(s)] + h[s \ {Pick(s)}]
SumsTo(f, S, k, h) == h = [s \in Small(S, k) |-> SumStep(f, h, s)]

LEMMA Smaller ==
    ASSUME NEW S, IsFiniteSet(S), NEW s \in SUBSET S, s # {}
    PROVE  /\ IsFiniteSet(s) /\ Cardinality(s) \in Nat \ {0}
           /\ Pick(s) \in s
           /\ \A x \in s : s \ {x} \in SUBSET S /\ Cardinality(s \ {x}) = Cardinality(s) - 1
<1>1. IsFiniteSet(s)
  BY FS_Subset
<1>2. Cardinality(s) \in Nat /\ Cardinality(s) # 0
  BY <1>1, FS_CardinalityType, FS_EmptySet
<1>3. \A x \in s : Cardinality(s \ {x}) = Cardinality(s) - 1
  BY <1>1, FS_RemoveElement
<1>4. Pick(s) \in s
  BY DEF Pick
<1> QED BY <1>1, <1>2, <1>3, <1>4

LEMMA SumsExist ==
    ASSUME NEW S, IsFiniteSet(S), NEW f, NEW k \in Nat
    PROVE  \E h : SumsTo(f, S, k, h)
<1> DEFINE Ks == {j \in Nat : \E h : SumsTo(f, S, j, h)}
<1>0. \A s \in SUBSET S : Cardinality(s) \in Nat
  <2>1. \A s \in SUBSET S : IsFiniteSet(s)
    BY FS_Subset
  <2> QED BY <2>1, FS_CardinalityType
<1>1. 0 \in Ks
  <2> DEFINE h == [s \in Small(S, 0) |-> 0]
  <2>1. \A s \in Small(S, 0) : s = {}
    BY <1>0, Smaller DEF Small
  <2>2. \A s \in Small(S, 0) : SumStep(f, h, s) = 0
    BY <2>1 DEF SumStep
  <2>3. SumsTo(f, S, 0, h)
    BY <2>2 DEF SumsTo
  <2> QED BY <2>3
<1>2. ASSUME NEW j \in Nat, j \in Ks PROVE j + 1 \in Ks
  <2>1. PICK g : SumsTo(f, S, j, g)
    BY <1>2
  <2> DEFINE h == [s \in Small(S, j + 1) |-> IF Cardinality(s) <= j THEN g[s] ELSE SumStep(f, g, s)]
  <2>2. ASSUME NEW s \in Small(S, j + 1) PROVE h[s] = SumStep(f, h, s)
    <3>1. h[s] = SumStep(f, g, s)
      <4>1. CASE Cardinality(s) <= j
        <5>1. s \in Small(S, j)
          BY <4>1 DEF Small
        <5> QED BY <2>1, <4>1, <5>1 DEF SumsTo
      <4>2. CASE ~(Cardinality(s) <= j)
        BY <4>2
      <4> QED BY <4>1, <4>2
    <3>2. CASE s = {}
      BY <3>1, <3>2 DEF SumStep
    <3>3. CASE s # {}
      <4>1. s \in SUBSET S /\ Cardinality(s) <= j + 1
        BY DEF Small
      <4>2. /\ Cardinality(s) \in Nat /\ s \ {Pick(s)} \in SUBSET S
            /\ Cardinality(s \ {Pick(s)}) = Cardinality(s) - 1
        BY <3>3, <4>1, Smaller
      <4>3. Cardinality(s \ {Pick(s)}) <= j
        BY <4>1, <4>2
      <4>4. s \ {Pick(s)} \in Small(S, j + 1)
        <5>1. Cardinality(s \ {Pick(s)}) <= j + 1
          BY <4>1, <4>2
        <5> QED BY <4>2, <5>1 DEF Small
      <4>5. h[s \ {Pick(s)}] = g[s \ {Pick(s)}]
        BY <4>3, <4>4
      <4> QED BY <3>1, <3>3, <4>5 DEF SumStep
    <3> QED BY <3>2, <3>3
  <2>3. SumsTo(f, S, j + 1, h)
    <3>1. h = [s \in Small(S, j + 1) |-> h[s]]
      OBVIOUS
    <3> HIDE DEF h
    <3> QED BY <2>2, <3>1 DEF SumsTo
  <2> QED BY <2>3
<1> HIDE DEF Ks
<1>3. Ks = Nat
  <2>1. Ks \subseteq Nat
    BY DEF Ks
  <2> QED BY <1>1, <1>2, <2>1, Induct
<1> QED BY <1>3 DEF Ks

(* What SumFunction is the value of.                                       *)
Sums(f, S, h) == h = [s \in SUBSET S |-> SumStep(f, h, s)]

LEMMA SumIs ==
    ASSUME NEW S, IsFiniteSet(S), NEW f, DOMAIN f = S
    PROVE  \E h : Sums(f, S, h) /\ SumFunction(f) = h[S]
<1>1. \E h : Sums(f, S, h)
  <2>1. PICK k \in Nat : k = Cardinality(S)
    BY FS_CardinalityType
  <2>2. Small(S, k) = SUBSET S
    BY <2>1, FS_Subset DEF Small
  <2>3. PICK h : SumsTo(f, S, k, h)
    BY SumsExist
  <2>4. Sums(f, S, h)
    BY <2>2, <2>3 DEF SumsTo, Sums
  <2> QED BY <2>4
<1> DEFINE h == CHOOSE h : Sums(f, S, h)
<1>2. SumFunction(f) = h[S]
  BY DEF SumFunction, SumFunctionOnSet, FoldFunctionOnSet, MapThenFoldSet, Sums, SumStep, Pick
<1> QED BY <1>1, <1>2

(* The sum over each subset is a number, and any member may be split off.  *)
LEMMA SumSplit ==
    ASSUME NEW S, IsFiniteSet(S), NEW f \in [S -> Int], NEW h, Sums(f, S, h)
    PROVE  /\ \A s \in SUBSET S : h[s] \in Int
           /\ \A s \in SUBSET S : \A x \in s : h[s] = f[x] + h[s \ {x}]
           /\ h[{}] = 0
<1> DEFINE N == {s \in SUBSET S : h[s] \in Int}
           P == {s \in SUBSET S : \A x \in s : h[s] = f[x] + h[s \ {x}]}
<1>0. h[{}] = 0
  BY DEF Sums, SumStep
<1>1. ASSUME NEW T \in SUBSET S, T # {}
      PROVE  Pick(T) \in T /\ h[T] = f[Pick(T)] + h[T \ {Pick(T)}]
  BY <1>1 DEF Sums, SumStep, Pick
<1>2. SUBSET S \subseteq N
  <2>1. ASSUME NEW T \in SUBSET S, \A x \in T : T \ {x} \in N PROVE T \in N
    <3>1. CASE T = {}
      BY <1>0, <3>1
    <3>2. CASE T # {}
      <4>1. PICK y \in T : h[T] = f[y] + h[T \ {y}]
        BY <1>1, <3>2
      <4>2. f[y] \in Int /\ h[T \ {y}] \in Int
        BY <2>1, <4>1
      <4> QED BY <4>1, <4>2
    <3> QED BY <3>1, <3>2
  <2> HIDE DEF N
  <2> QED BY <2>1, SetInduct
<1>3. SUBSET S \subseteq P
  <2>1. ASSUME NEW T \in SUBSET S, \A x \in T : T \ {x} \in P PROVE T \in P
    <3> SUFFICES ASSUME NEW x \in T PROVE h[T] = f[x] + h[T \ {x}]
      OBVIOUS
    <3>1. PICK y \in T : h[T] = f[y] + h[T \ {y}]
      BY <1>1
    <3>2. CASE x = y
      BY <3>1, <3>2
    <3>3. CASE x # y
      <4>1. T \ {x} \in P /\ y \in T \ {x} /\ T \ {y} \in P /\ x \in T \ {y}
        BY <2>1, <3>1, <3>3
      <4>2. PICK U \in SUBSET S : U = T \ {x, y}
        OBVIOUS
      <4>3. (T \ {x}) \ {y} = U /\ (T \ {y}) \ {x} = U
        BY <4>2
      <4>4. h[T \ {x}] = f[y] + h[U] /\ h[T \ {y}] = f[x] + h[U]
        BY <4>1, <4>3
      <4>5. f[x] \in Int /\ f[y] \in Int /\ h[U] \in Int
        BY <1>2, <3>1
      <4>6. PICK a \in Int, b \in Int, c \in Int : a = f[x] /\ b = f[y] /\ c = h[U]
        BY <4>5
      <4>7. h[T] = b + (a + c) /\ h[T \ {x}] = b + c
        BY <3>1, <4>4, <4>6
      <4>8. b + (a + c) = a + (b + c)
        OBVIOUS
      <4> QED BY <4>6, <4>7, <4>8
    <3> QED BY <3>2, <3>3
  <2> HIDE DEF P
  <2> QED BY <2>1, SetInduct
<1> QED BY <1>0, <1>2, <1>3

(* Functions that agree on a set have the same sum there.                  *)
LEMMA SumSame ==
    ASSUME NEW S, IsFiniteSet(S), NEW f \in [S -> Int], NEW g \in [S -> Int],
           NEW h, Sums(f, S, h), NEW k, Sums(g, S, k),
           NEW U \in SUBSET S, \A x \in U : f[x] = g[x]
    PROVE  h[U] = k[U]
<1> DEFINE P == {s \in SUBSET U : h[s] = k[s]}
<1>1. ASSUME NEW T \in SUBSET U, \A x \in T : T \ {x} \in P PROVE T \in P
  <2>1. CASE T = {}
    BY <2>1, SumSplit
  <2>2. CASE T # {}
    <3>1. PICK x \in T : TRUE
      BY <2>2
    <3>2. T \in SUBSET S
      OBVIOUS
    <3>3. h[T] = f[x] + h[T \ {x}]
      BY <3>2, SumSplit
    <3>4. k[T] = g[x] + k[T \ {x}]
      BY <3>2, SumSplit
    <3>5. h[T \ {x}] = k[T \ {x}] /\ f[x] = g[x]
      BY <1>1
    <3> QED BY <3>3, <3>4, <3>5
  <2> QED BY <2>1, <2>2
<1>2. IsFiniteSet(U)
  BY FS_Subset
<1> HIDE DEF P
<1>3. SUBSET U \subseteq P
  BY <1>1, <1>2, SetInduct
<1> QED BY <1>3 DEF P

(* A sum with one term changed.                                            *)
LEMMA SumUpdate ==
    ASSUME NEW S, IsFiniteSet(S), NEW f \in [S -> Int], NEW g \in [S -> Int],
           NEW x \in S, \A y \in S \ {x} : f[y] = g[y]
    PROVE  /\ SumFunction(f) \in Int /\ SumFunction(g) \in Int
           /\ SumFunction(g) - g[x] = SumFunction(f) - f[x]
<1>1. PICK h : Sums(f, S, h) /\ SumFunction(f) = h[S]
  BY SumIs
<1>2. PICK k : Sums(g, S, k) /\ SumFunction(g) = k[S]
  BY SumIs
<1>3. PICK U \in SUBSET S : U = S \ {x}
  OBVIOUS
<1>4. h[U] = k[U]
  BY <1>1, <1>2, <1>3, SumSame
<1>5. S \in SUBSET S
  OBVIOUS
<1>6. h[S] \in Int /\ h[U] \in Int /\ h[S] = f[x] + h[U]
  <2>1. /\ \A s \in SUBSET S : h[s] \in Int
        /\ \A s \in SUBSET S : \A y \in s : h[s] = f[y] + h[s \ {y}]
    BY <1>1, SumSplit
  <2>2. h[S] = f[x] + h[S \ {x}]
    BY <1>5, <2>1
  <2> QED BY <1>3, <1>5, <2>1, <2>2
<1>7. k[S] \in Int /\ k[U] \in Int /\ k[S] = g[x] + k[U]
  <2>1. /\ \A s \in SUBSET S : k[s] \in Int
        /\ \A s \in SUBSET S : \A y \in s : k[s] = g[y] + k[s \ {y}]
    <3>1. IsFiniteSet(S) /\ g \in [S -> Int] /\ Sums(g, S, k)
      BY <1>2
    <3> QED BY ONLY <3>1, SumSplit
  <2>2. k[S] = g[x] + k[S \ {x}]
    BY <1>5, <2>1
  <2> QED BY <1>3, <1>5, <2>1, <2>2
<1>8. f[x] \in Int /\ g[x] \in Int
  OBVIOUS
<1> QED BY <1>1, <1>2, <1>4, <1>6, <1>7, <1>8

(* A sum of nothing.                                                       *)
LEMMA SumZero ==
    ASSUME NEW S, IsFiniteSet(S), NEW f \in [S -> Int], \A x \in S : f[x] = 0
    PROVE  SumFunction(f) = 0
<1>1. PICK h : Sums(f, S, h) /\ SumFunction(f) = h[S]
  BY SumIs
<1> DEFINE P == {s \in SUBSET S : h[s] = 0}
<1>2. ASSUME NEW T \in SUBSET S, \A x \in T : T \ {x} \in P PROVE T \in P
  <2>1. CASE T = {}
    BY <1>1, <2>1, SumSplit
  <2>2. CASE T # {}
    <3>1. PICK x \in T : TRUE
      BY <2>2
    <3>2. h[T] = f[x] + h[T \ {x}]
      BY <1>1, SumSplit
    <3>3. h[T \ {x}] = 0 /\ f[x] = 0
      BY <1>2
    <3> QED BY <3>2, <3>3
  <2> QED BY <2>1, <2>2
<1> HIDE DEF P
<1>3. SUBSET S \subseteq P
  BY <1>2, SetInduct
<1> QED BY <1>1, <1>3 DEF P

(* Two sequences end to end have the elements of both.                     *)
LEMMA TogetherFacts ==
    ASSUME NEW C, NEW s \in Seq(C), NEW t \in Seq(C)
    PROVE  s \o t \in Seq(C) /\ \A y : y \in ToSet(s \o t) <=> y \in ToSet(s) \/ y \in ToSet(t)
<1>1. PICK l \in Nat : l = Len(s) /\ DOMAIN s = 1 .. l
  OBVIOUS
<1>2. PICK m \in Nat : m = Len(t) /\ DOMAIN t = 1 .. m
  OBVIOUS
<1>3. PICK u : u = s \o t
  OBVIOUS
<1>4. u \in Seq(C)
  BY <1>3
<1>5. /\ DOMAIN u = 1 .. l + m
      /\ \A x \in 1 .. l : u[x] = s[x]
      /\ \A x \in 1 .. m : u[l + x] = t[x]
  BY <1>1, <1>2, <1>3, <1>4
<1>6. ASSUME NEW x \in DOMAIN u PROVE u[x] \in ToSet(s) \union ToSet(t)
  <2>1. CASE x <= l
    BY <1>1, <1>5, <2>1 DEF ToSet
  <2>2. CASE ~(x <= l)
    <3>1. x - l \in 1 .. m /\ l + (x - l) = x
      BY <1>5, <2>2
    <3>2. u[x] = t[x - l]
      BY <1>5, <3>1
    <3> QED BY <1>2, <3>1, <3>2 DEF ToSet
  <2> QED BY <2>1, <2>2
<1>7. ASSUME NEW x \in DOMAIN s PROVE s[x] \in ToSet(u)
  <2>1. x \in DOMAIN u /\ u[x] = s[x]
    BY <1>1, <1>5
  <2> QED BY <2>1 DEF ToSet
<1>8. ASSUME NEW x \in DOMAIN t PROVE t[x] \in ToSet(u)
  <2>1. l + x \in DOMAIN u /\ u[l + x] = t[x]
    BY <1>2, <1>5
  <2> QED BY <2>1 DEF ToSet
<1>9. \A y : y \in ToSet(u) <=> y \in ToSet(s) \/ y \in ToSet(t)
  BY <1>6, <1>7, <1>8 DEF ToSet
<1> QED BY <1>3, <1>4, <1>9

(* A loop over a list that makes a sequence of each element.               *)
LEMMA ForEachFacts ==
    ASSUME NEW L, NEW list \in Seq(L), NEW T, NEW g, \A a \in ToSet(list) : g[a] \in Seq(T),
           NEW parts, parts = [i \in DOMAIN list |-> g[list[i]]]
    PROVE  /\ FlattenSeq(parts) \in Seq(T)
           /\ \A y : y \in ToSet(FlattenSeq(parts)) <=> \E a \in ToSet(list) : y \in ToSet(g[a])
<1>1. PICK k \in Nat : k = Len(list) /\ DOMAIN list = 1 .. k
  OBVIOUS
<1>2. \A i \in 1 .. k : list[i] \in ToSet(list)
  BY <1>1 DEF ToSet
<1>3. \A i \in 1 .. k : g[list[i]] \in Seq(T)
  BY <1>2
<1>4. parts = [i \in 1 .. k |-> g[list[i]]]
  BY <1>1
<1>5. parts \in Seq(Seq(T)) /\ Len(parts) = k
  BY <1>3, <1>4
<1>6. PICK f : f = FlattenSeq(parts)
  OBVIOUS
<1>7. JoinOf(T, parts, k, f)
  BY <1>5, <1>6, FlattenFacts
<1>8. ASSUME NEW x \in DOMAIN f PROVE \E a \in ToSet(list) : f[x] \in ToSet(g[a])
  <2>1. PICK i \in 1 .. k : \E j \in DOMAIN parts[i] : f[x] = parts[i][j]
    BY <1>7 DEF JoinOf
  <2>2. parts[i] = g[list[i]]
    BY <1>4
  <2> QED BY <1>2, <2>1, <2>2 DEF ToSet
<1>9. ASSUME NEW a \in ToSet(list), NEW j \in DOMAIN g[a] PROVE \E x \in DOMAIN f : f[x] = g[a][j]
  <2>1. PICK i \in 1 .. k : list[i] = a
    BY <1>1 DEF ToSet
  <2>2. parts[i] = g[a]
    BY <1>4, <2>1
  <2>3. \E x \in DOMAIN f : f[x] = parts[i][j]
    BY <1>7, <2>2 DEF JoinOf
  <2> QED BY <2>2, <2>3
<1>10. \A y : y \in ToSet(f) <=> \E a \in ToSet(list) : y \in ToSet(g[a])
  BY <1>8, <1>9 DEF ToSet
<1> QED BY <1>6, <1>7, <1>10 DEF JoinOf

(* Intervals of one length that follow each other have that many members   *)
(* each together.                                                          *)
LEMMA Intervals ==
    ASSUME NEW k \in Nat, NEW q \in Nat, NEW s, \A i \in 0 .. k - 1 : s[i] \in Nat,
           \A i, j \in 0 .. k - 1 : i < j => s[i] + q <= s[j],
           NEW U, \A x : x \in U <=> \E i \in 0 .. k - 1 : x \in s[i] .. s[i] + q - 1
    PROVE  IsFiniteSet(U) /\ Cardinality(U) = k * q
<1> DEFINE Upto(m) == UNION {s[i] .. s[i] + q - 1 : i \in 0 .. m - 1}
           Ks == {m \in Nat : m <= k => IsFiniteSet(Upto(m)) /\ Cardinality(Upto(m)) = m * q}
<1>1. 0 \in Ks
  <2>1. Upto(0) = {}
    OBVIOUS
  <2> QED BY <2>1, FS_EmptySet
<1>2. ASSUME NEW m \in Nat, m \in Ks PROVE m + 1 \in Ks
  <2>1. SUFFICES ASSUME m + 1 <= k
                 PROVE  IsFiniteSet(Upto(m + 1)) /\ Cardinality(Upto(m + 1)) = (m + 1) * q
    OBVIOUS
  <2>2. IsFiniteSet(Upto(m)) /\ Cardinality(Upto(m)) = m * q
    BY <1>2, <2>1
  <2>3. PICK x \in Nat : x = s[m]
    BY <2>1
  <2>4. PICK P : P = x .. x + q - 1
    OBVIOUS
  <2>5. IsFiniteSet(P) /\ Cardinality(P) = q
    <3>1. IsFiniteSet(x .. x + q - 1) /\ Cardinality(x .. x + q - 1)
            = IF x > x + q - 1 THEN 0 ELSE x + q - 1 - x + 1
      BY FS_Interval
    <3> QED BY <2>4, <3>1
  <2>6. Upto(m + 1) = Upto(m) \union P
    <3>1. 0 .. (m + 1) - 1 = (0 .. m - 1) \union {m}
      OBVIOUS
    <3> QED BY <2>3, <2>4, <3>1
  <2>7. Upto(m) \intersect P = {}
    <3>1. SUFFICES ASSUME NEW i \in 0 .. m - 1, NEW y \in s[i] .. s[i] + q - 1, y \in P PROVE FALSE
      OBVIOUS
    <3>2. i \in 0 .. k - 1 /\ m \in 0 .. k - 1 /\ i < m
      BY <2>1
    <3>3. PICK z \in Nat : z = s[i]
      BY <3>2
    <3>4. z + q <= x
      BY <2>3, <3>2, <3>3
    <3>5. y \in z .. z + q - 1 /\ y \in x .. x + q - 1
      BY <2>4, <3>1, <3>3
    <3> QED BY ONLY <3>3, <2>3, <3>4, <3>5, q \in Nat
  <2> HIDE DEF Upto
  <2>8. /\ IsFiniteSet(Upto(m) \union P)
        /\ Cardinality(Upto(m) \union P)
             = Cardinality(Upto(m)) + Cardinality(P) - Cardinality(Upto(m) \intersect P)
    BY <2>2, <2>5, FS_Union
  <2>9. Cardinality(Upto(m) \intersect P) = 0
    BY <2>7, FS_EmptySet
  <2>10. PICK mq \in Int : mq = m * q
    OBVIOUS
  <2>11. Cardinality(Upto(m + 1)) = mq + q
    <3>1. PICK V : V = Upto(m)
      OBVIOUS
    <3>2. /\ Cardinality(V) = mq /\ Cardinality(P) = q /\ Cardinality(V \intersect P) = 0
          /\ Cardinality(V \union P)
               = Cardinality(V) + Cardinality(P) - Cardinality(V \intersect P)
      BY <2>2, <2>5, <2>8, <2>9, <2>10, <3>1
    <3>3. Cardinality(V \union P) = mq + q
      BY ONLY <3>2, <2>10, q \in Nat, mq \in Int
    <3> QED BY <2>6, <3>1, <3>3
  <2>12. (m + 1) * q = mq + q
    BY <2>10
  <2> QED BY <2>6, <2>8, <2>11, <2>12
<1> HIDE DEF Ks
<1>3. Ks = Nat
  <2>1. Ks \subseteq Nat
    BY DEF Ks
  <2> QED BY <1>1, <1>2, <2>1, Induct
<1>4. IsFiniteSet(Upto(k)) /\ Cardinality(Upto(k)) = k * q
  <2>1. k \in Ks /\ k <= k
    BY <1>3
  <2> HIDE DEF Upto
  <2> QED BY <2>1 DEF Ks
<1> QED BY <1>4

(* A sequence is one of the set that its elements are in.                  *)
LEMMA SeqOfElements ==
    ASSUME NEW T, NEW q \in Seq(T), NEW C, \A m \in ToSet(q) : m \in C
    PROVE  q \in Seq(C)
<1>1. PICK k \in Nat : k = Len(q) /\ DOMAIN q = 1 .. k
  OBVIOUS
<1>2. \A i \in 1 .. k : q[i] \in C
  BY <1>1 DEF ToSet
<1>3. q = [i \in 1 .. k |-> q[i]]
  BY <1>1
<1> QED BY ONLY <1>2, <1>3, k \in Nat
===============================================================================
