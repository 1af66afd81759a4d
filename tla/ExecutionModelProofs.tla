-------------------------- MODULE ExecutionModelProofs --------------------------
(***************************************************************************)
(* Proofs about setup_execution_model, for every list that names a core    *)
(* once and all numbers of control and data cores.                         *)
(*                                                                         *)
(* Both loops of the code are recursive functions in the model: the sizes  *)
(* that set_split adds up and the lists that addEdge grows.  A closed form *)
(* shows that such a function exists, induction that it has these values.  *)
(* SplitFacts then says that set_split cuts a set, WalkFacts that a list   *)
(* gets its whole subset.                                                  *)
(***************************************************************************)
EXTENDS ExecutionModel, CollectionLemmas, TLAPS

(* An injection keeps the number of elements.                              *)
LEMMA ImageSize ==
    ASSUME NEW I, IsFiniteSet(I), NEW f, \A i, j \in I : f[i] = f[j] => i = j
    PROVE  /\ IsFiniteSet({f[i] : i \in I})
           /\ Cardinality({f[i] : i \in I}) = Cardinality(I)
<1> DEFINE T == {f[i] : i \in I}
           g == [i \in I |-> f[i]]
<1>1. g \in Surjection(I, T) /\ g \in Injection(I, T)
  BY DEF Surjection, Injection, IsInjective
<1> QED BY <1>1, FS_Surjection

-------------------------------------------------------------------------------
(* The number of members the first i subsets take.                         *)
Takes(s, num, f) ==
    f = [i \in 0 .. num |-> IF i = 0 THEN 0 ELSE f[i - 1] + SubsetSize(s, num, i)]

(* The first i subsets take i shares and the remainder as far as it goes,  *)
(* and all subsets together take every member.                             *)
LEMMA TakesSum ==
    ASSUME NEW s, s.num \in Nat, NEW num \in Nat \ {0}, NEW f, f = CHOOSE g : Takes(s, num, g)
    PROVE  /\ Takes(s, num, f) /\ f[0] = 0 /\ f[num] = s.num
           /\ \A i \in 0 .. num : f[i] \in Nat
           /\ \A i \in 1 .. num : /\ SubsetSize(s, num, i) \in Nat
                                  /\ f[i] = f[i - 1] + SubsetSize(s, num, i)
<1> DEFINE q == s.num \div num
           r == s.num % num
           Sum(i) == q * i + IF i <= r THEN i ELSE r
           g == [i \in 0 .. num |-> Sum(i)]
<1>1. q \in Nat /\ r \in 0 .. num - 1 /\ s.num = num * q + r
  BY Division
<1>2. \A i \in 1 .. num : SubsetSize(s, num, i) = q + IF i <= r THEN 1 ELSE 0
  BY DEF SubsetSize
<1> HIDE DEF q, r
<1>3. \A i \in Nat : q * i \in Nat /\ q * (i + 1) = q * i + q
  BY <1>1
<1>4. ASSUME NEW i \in 1 .. num
      PROVE  Sum(i) = Sum(i - 1) + (q + IF i <= r THEN 1 ELSE 0)
  <2>1. i - 1 \in Nat /\ (i - 1) + 1 = i
    OBVIOUS
  <2>2. q * (i - 1) \in Nat /\ q * i = q * (i - 1) + q
    BY <1>3, <2>1
  <2> DEFINE x == q * (i - 1)   y == q * i
  <2>3. x \in Nat /\ y = x + q
    BY <2>2
  <2>4. Sum(i) = y + (IF i <= r THEN i ELSE r) /\ Sum(i - 1) = x + IF i - 1 <= r THEN i - 1 ELSE r
    OBVIOUS
  <2> HIDE DEF x, y, Sum
  <2>5. CASE i <= r
    BY <1>1, <2>3, <2>4, <2>5
  <2>6. CASE ~(i <= r)
    BY <1>1, <2>3, <2>4, <2>6
  <2> QED BY <2>5, <2>6
<1>5. Sum(0) = 0 /\ \A i \in Nat : Sum(i) \in Nat
  <2>1. q * 0 = 0
    BY <1>1
  <2> QED BY <1>1, <1>3, <2>1
<1>6. Sum(num) = s.num
  <2>1. q * num = num * q
    BY <1>1
  <2>2. Sum(num) = q * num + r
    BY <1>1
  <2> QED BY <1>1, <2>1, <2>2
<1> HIDE DEF Sum
<1>7. Takes(s, num, g)
  <2>1. ASSUME NEW i \in 0 .. num
        PROVE  Sum(i) = IF i = 0 THEN 0 ELSE g[i - 1] + SubsetSize(s, num, i)
    <3>1. CASE i = 0
      BY <1>5, <3>1
    <3>2. CASE i # 0
      <4>1. i \in 1 .. num /\ i - 1 \in 0 .. num
        BY <3>2
      <4> QED BY <1>2, <1>4, <3>2, <4>1
    <3> QED BY <3>1, <3>2
  <2> QED BY <2>1 DEF Takes
<1>8. Takes(s, num, f)
  BY <1>7
<1>9. \A i \in 0 .. num : f[i] = IF i = 0 THEN 0 ELSE f[i - 1] + SubsetSize(s, num, i)
  BY <1>8 DEF Takes
<1> DEFINE Is == {i \in Nat : i <= num => f[i] = Sum(i)}
<1>10. 0 \in Is
  BY <1>5, <1>9
<1>11. ASSUME NEW i \in Nat, i \in Is PROVE i + 1 \in Is
  <2> SUFFICES ASSUME i + 1 <= num PROVE f[i + 1] = Sum(i + 1)
    OBVIOUS
  <2>1. i + 1 \in 1 .. num /\ (i + 1) - 1 = i /\ i <= num
    OBVIOUS
  <2>2. f[i + 1] = f[i] + SubsetSize(s, num, i + 1)
    BY <1>9, <2>1
  <2>3. f[i] = Sum(i)
    BY <1>11, <2>1
  <2>4. Sum(i + 1) = Sum(i) + SubsetSize(s, num, i + 1)
    BY <1>2, <1>4, <2>1
  <2> QED BY <2>2, <2>3, <2>4
<1> HIDE DEF Is
<1>12. Is = Nat
  <2>1. Is \subseteq Nat
    BY DEF Is
  <2> QED BY <1>10, <1>11, <2>1, Induct
<1>13. \A i \in 0 .. num : f[i] = Sum(i)
  BY <1>12 DEF Is
<1> QED BY <1>1, <1>2, <1>5, <1>6, <1>8, <1>9, <1>13

(* p cuts s into num subsets: each has its share and no two a member in    *)
(* common.                                                                 *)
Cut(s, num, p) ==
    /\ \A i \in 1 .. num :
          /\ p[i] = CoreSet(p[i].member) /\ p[i].num = SubsetSize(s, num, i)
          /\ p[i].num \in Nat
          /\ p[i].member \subseteq s.member /\ IsFiniteSet(p[i].member)
    /\ \A d \in s.member : \E i \in 1 .. num : d \in p[i].member
    /\ \A i, j \in 1 .. num : p[i].member \cap p[j].member # {} => i = j

(* set_split does, for a set of integers.                                  *)
LEMMA SplitFacts ==
    ASSUME NEW M, M \subseteq Int, IsFiniteSet(M), NEW s, s = CoreSet(M),
           NEW num \in Nat \ {0}, NEW p, p = set_split(s, num)
    PROVE  Cut(s, num, p)
<1> DEFINE F == InOrderOf(M)
           n == Cardinality(M)
<1>1. s.member = M /\ s.num = n
  BY DEF CoreSet
<1>2. /\ n \in Nat
      /\ \A k \in 1 .. n : F[k] \in M
      /\ \A x \in M : \E k \in 1 .. n : F[k] = x
      /\ \A j, k \in 1 .. n : F[j] = F[k] => j = k
  BY InOrderFacts
<1> HIDE DEF F, n
<1>3. PICK t : t = CHOOSE g : Takes(s, num, g)
  OBVIOUS
<1>4. p = [i \in 1 .. num |-> CoreSet({F[k] : k \in t[i - 1] + 1 .. t[i]})]
  BY <1>1, <1>3 DEF set_split, Takes, InOrder, F
<1>5. /\ Takes(s, num, t) /\ t[0] = 0 /\ t[num] = n
      /\ \A i \in 0 .. num : t[i] \in Nat
      /\ \A i \in 1 .. num : /\ SubsetSize(s, num, i) \in Nat
                             /\ t[i] = t[i - 1] + SubsetSize(s, num, i)
  BY <1>1, <1>2, <1>3, TakesSum
<1> DEFINE Js == {m \in Nat : \A i \in 0 .. num : i + m <= num => t[i] <= t[i + m]}
<1>6. Js = Nat
  <2>1. 0 \in Js
    BY <1>5
  <2>2. ASSUME NEW m \in Nat, m \in Js PROVE m + 1 \in Js
    <3> SUFFICES ASSUME NEW i \in 0 .. num, i + (m + 1) <= num PROVE t[i] <= t[i + (m + 1)]
      OBVIOUS
    <3>1. i + m \in 0 .. num /\ i + (m + 1) \in 1 .. num /\ (i + (m + 1)) - 1 = i + m /\ i + m <= num
      OBVIOUS
    <3>2. t[i] <= t[i + m]
      BY <2>2, <3>1
    <3>3. t[i + (m + 1)] = t[i + m] + SubsetSize(s, num, i + (m + 1))
          /\ SubsetSize(s, num, i + (m + 1)) \in Nat
      BY <1>5, <3>1
    <3>4. t[i] \in Nat /\ t[i + m] \in Nat
      BY <1>5, <3>1
    <3> DEFINE x == t[i]  y == t[i + m]  z == t[i + (m + 1)]  e == SubsetSize(s, num, i + (m + 1))
    <3>5. x \in Nat /\ y \in Nat /\ e \in Nat /\ x <= y /\ z = y + e
      BY <3>2, <3>3, <3>4
    <3> HIDE DEF x, y, z, e
    <3>6. x <= z
      BY <3>5
    <3> QED BY <3>6 DEF x, z
  <2> HIDE DEF Js
  <2>3. Js \subseteq Nat
    BY DEF Js
  <2> QED BY <2>1, <2>2, <2>3, Induct
<1>7. ASSUME NEW i \in 0 .. num, NEW j \in 0 .. num, i <= j PROVE t[i] <= t[j]
  <2>1. PICK m \in Nat : i + m = j
    <3>1. j - i \in Nat /\ i + (j - i) = j
      BY <1>7
    <3> QED BY <3>1
  <2>2. m \in Js
    BY <1>6
  <2>3. i + m <= num => t[i] <= t[i + m]
    BY <2>2
  <2> QED BY <2>1, <2>3
<1> HIDE DEF Js
<1>8. ASSUME NEW i \in 1 .. num
      PROVE  /\ i - 1 \in 0 .. num /\ i \in 0 .. num
             /\ t[i - 1] + 1 .. t[i] \subseteq 1 .. n
             /\ IsFiniteSet(t[i - 1] + 1 .. t[i])
             /\ Cardinality(t[i - 1] + 1 .. t[i]) = SubsetSize(s, num, i)
  <2>1. i - 1 \in 0 .. num /\ i \in 0 .. num /\ num \in 0 .. num /\ i <= num
    OBVIOUS
  <2>2. t[i - 1] \in Nat /\ t[i] \in Nat /\ t[i] <= n
    BY <1>5, <1>7, <2>1
  <2>3. t[i] = t[i - 1] + SubsetSize(s, num, i) /\ SubsetSize(s, num, i) \in Nat
    BY <1>5
  <2> DEFINE x == t[i - 1]   y == t[i]   e == SubsetSize(s, num, i)
  <2>4. x \in Nat /\ y \in Nat /\ y <= n /\ y = x + e /\ e \in Nat
    BY <2>2, <2>3
  <2> HIDE DEF x, y, e
  <2>5. x + 1 .. y \subseteq 1 .. n
    BY <1>2, <2>4
  <2>6. IsFiniteSet(x + 1 .. y) /\ Cardinality(x + 1 .. y) = IF x + 1 > y THEN 0 ELSE y - (x + 1) + 1
    BY <2>4, FS_Interval
  <2>7. Cardinality(x + 1 .. y) = e
    BY <2>4, <2>6
  <2> QED BY <2>1, <2>5, <2>6, <2>7 DEF x, y, e
<1>9. ASSUME NEW i \in 1 .. num
      PROVE  /\ p[i] = CoreSet(p[i].member) /\ p[i].num = SubsetSize(s, num, i)
             /\ p[i].num \in Nat
             /\ p[i].member \subseteq M /\ IsFiniteSet(p[i].member)
             /\ p[i].member = {F[k] : k \in t[i - 1] + 1 .. t[i]}
  <2> DEFINE I == t[i - 1] + 1 .. t[i]
  <2>1. p[i] = CoreSet({F[k] : k \in I})
    BY <1>4
  <2>2. I \subseteq 1 .. n /\ IsFiniteSet(I) /\ Cardinality(I) = SubsetSize(s, num, i)
    BY <1>8
  <2> HIDE DEF I
  <2>3. \A j, k \in I : F[j] = F[k] => j = k
    BY <1>2, <2>2
  <2>4. IsFiniteSet({F[k] : k \in I}) /\ Cardinality({F[k] : k \in I}) = Cardinality(I)
    BY <2>2, <2>3, ImageSize
  <2>5. {F[k] : k \in I} \subseteq M
    BY <1>2, <2>2
  <2>6. p[i].member = {F[k] : k \in I} /\ p[i].num = Cardinality({F[k] : k \in I})
    BY <2>1 DEF CoreSet
  <2> QED BY <1>5, <2>1, <2>2, <2>4, <2>5, <2>6 DEF I
<1>10. ASSUME NEW d \in M PROVE \E i \in 1 .. num : d \in p[i].member
  <2>1. PICK k \in 1 .. n : F[k] = d
    BY <1>2
  <2> DEFINE T == {i \in Nat : i \in 0 .. num /\ k <= t[i]}
  <2>2. num \in T
    BY <1>2, <1>5
  <2>3. PICK i \in T : \A j \in T : i <= j
    BY <2>2, Least
  <2>4. i # 0
    BY <1>5, <2>3
  <2>5. i \in 1 .. num /\ i - 1 \in Nat /\ i - 1 \in 0 .. num /\ ~(i <= i - 1)
    BY <2>3, <2>4
  <2>6. ~(k <= t[i - 1])
    BY <2>3, <2>5
  <2>7. k \in t[i - 1] + 1 .. t[i]
    BY <1>5, <2>3, <2>5, <2>6
  <2> QED BY <1>9, <2>1, <2>5, <2>7
<1>11. ASSUME NEW i \in 1 .. num, NEW j \in 1 .. num, i < j, NEW d,
              d \in p[i].member, d \in p[j].member
       PROVE  FALSE
  <2>1. PICK k \in t[i - 1] + 1 .. t[i] : F[k] = d
    BY <1>9, <1>11
  <2>2. PICK m \in t[j - 1] + 1 .. t[j] : F[m] = d
    BY <1>9, <1>11
  <2>3. k \in 1 .. n /\ m \in 1 .. n
    BY <1>8
  <2>4. k = m
    BY <1>2, <2>1, <2>2, <2>3
  <2>5. i \in 0 .. num /\ j - 1 \in 0 .. num /\ i <= j - 1
    BY <1>11
  <2>6. t[i] <= t[j - 1] /\ t[i] \in Nat /\ t[j - 1] \in Nat
    BY <1>5, <1>7, <2>5
  <2>7. k <= t[i] /\ t[j - 1] + 1 <= m
    <3>1. t[i] \in Nat /\ t[i - 1] \in Nat /\ t[j] \in Nat
      BY <1>5, <1>8
    <3> DEFINE x == t[i]  y == t[i - 1]  u == t[j]  v == t[j - 1]
    <3>2. x \in Nat /\ y \in Nat /\ u \in Nat /\ v \in Nat /\ k \in y + 1 .. x /\ m \in v + 1 .. u
      BY <2>6, <3>1
    <3> HIDE DEF x, y, u, v
    <3>3. k <= x /\ v + 1 <= m
      BY <3>2
    <3> QED BY <3>3 DEF x, v
  <2> QED BY <2>3, <2>4, <2>6, <2>7
<1>12. \A i, j \in 1 .. num : p[i].member \cap p[j].member # {} => i = j
  BY <1>11
<1> QED BY <1>1, <1>9, <1>10, <1>12 DEF Cut
-------------------------------------------------------------------------------
(* The adjacency lists while the nodes are added.                          *)
Walks(nodes, n, f) ==
    f = [k \in 0 .. n |-> IF k = 0 THEN <<>> ELSE addEdge(f[k - 1], nodes[k])]

(* A control core's list has the members of its subset, each once.         *)
LEMMA WalkFacts ==
    ASSUME NEW M, M \subseteq Int, IsFiniteSet(M), NEW a, a = add_control_data(<<>>, CoreSet(M))
    PROVE  ToSet(a) = M /\ Len(a) = Cardinality(M)
<1> DEFINE F == InOrderOf(M)
           n == Cardinality(M)
<1>1. /\ n \in Nat /\ F \in Seq(M) /\ Len(F) = n
      /\ \A k \in 1 .. n : F[k] \in M
      /\ \A x \in M : \E k \in 1 .. n : F[k] = x
      /\ \A j, k \in 1 .. n : F[j] = F[k] => j = k
  BY InOrderFacts
<1> HIDE DEF F, n
<1> DEFINE w == CHOOSE f : Walks(F, n, f)
           R(k) == [x \in 1 .. k |-> F[k + 1 - x]]
           g == [k \in 0 .. n |-> R(k)]
<1>2. a = w[n]
  <2> DEFINE nodes == InOrder(CoreSet(M))
  <2>1. a = (CHOOSE f : Walks(nodes, Len(nodes), f))[Len(nodes)]
    BY DEF add_control_data, Walks
  <2>2. nodes = F
    BY DEF InOrder, CoreSet, F
  <2> HIDE DEF nodes
  <2> QED BY <1>1, <2>1, <2>2
<1>3. ASSUME NEW k \in 1 .. n PROVE R(k) = addEdge(R(k - 1), F[k])
  <2>1. PICK j \in Nat : k = j + 1 /\ k - 1 = j
    <3>1. k - 1 \in Nat /\ k = (k - 1) + 1
      OBVIOUS
    <3> QED BY <3>1
  <2> DEFINE old == R(j)
  <2>2. /\ old \in Seq(M) /\ Len(old) = j /\ DOMAIN old = 1 .. j
        /\ \A x \in 1 .. j : old[x] = F[j + 1 - x]
    <3>1. \A x \in 1 .. j : j + 1 - x \in 1 .. n
      BY <1>1, <2>1
    <3>2. \A x \in 1 .. j : F[j + 1 - x] \in M
      BY <1>1, <3>1
    <3> QED BY <3>2
  <2> HIDE DEF old
  <2>3. ASSUME NEW x \in DOMAIN old PROVE old[x] # F[k]
    <3>1. j + 1 - x \in 1 .. n /\ j + 1 - x # k /\ k \in 1 .. n
      BY <1>1, <2>1, <2>2
    <3> QED BY <1>1, <2>2, <3>1
  <2>4. addEdge(old, F[k]) = <<F[k]>> \o old
    BY <2>3 DEF addEdge
  <2> DEFINE new == <<F[k]>> \o old
  <2>5. /\ new \in Seq(M) /\ Len(new) = k /\ new[1] = F[k]
        /\ \A x \in 1 .. j : new[x + 1] = old[x]
    <3>1. F[k] \in M
      BY <1>1
    <3> QED BY <2>1, <2>2, <3>1
  <2> HIDE DEF new
  <2>6. ASSUME NEW x \in 1 .. k PROVE new[x] = F[k + 1 - x]
    <3>1. CASE x = 1
      <4>1. k + 1 - x = k
        BY <3>1
      <4> QED BY <2>5, <3>1, <4>1
    <3>2. CASE x # 1
      <4>1. x - 1 \in 1 .. j /\ (x - 1) + 1 = x /\ j + 1 - (x - 1) = k + 1 - x
        BY <2>1, <3>2
      <4>2. new[x] = old[x - 1] /\ old[x - 1] = F[j + 1 - (x - 1)]
        BY <2>2, <2>5, <4>1
      <4> QED BY <4>1, <4>2
    <3> QED BY <3>1, <3>2
  <2>7. new = R(k)
    BY <2>5, <2>6
  <2>8. R(k - 1) = old
    BY <2>1 DEF old
  <2> QED BY <2>4, <2>7, <2>8 DEF new
<1>4. R(0) = <<>>
  OBVIOUS
<1> HIDE DEF R
<1>5. Walks(F, n, g)
  <2>1. ASSUME NEW k \in 0 .. n
        PROVE  R(k) = IF k = 0 THEN <<>> ELSE addEdge(g[k - 1], F[k])
    <3>1. CASE k = 0
      BY <1>4, <3>1
    <3>2. CASE k # 0
      <4>1. k \in 1 .. n /\ k - 1 \in 0 .. n
        BY <1>1, <3>2
      <4> QED BY <1>3, <3>2, <4>1
    <3> QED BY <3>1, <3>2
  <2> QED BY <2>1 DEF Walks
<1>6. Walks(F, n, w)
  BY <1>5
<1> HIDE DEF w
<1>7. \A k \in 0 .. n : w[k] = IF k = 0 THEN <<>> ELSE addEdge(w[k - 1], F[k])
  BY <1>6 DEF Walks
<1> DEFINE Ks == {k \in Nat : k <= n => w[k] = R(k)}
<1>8. 0 \in Ks
  BY <1>1, <1>4, <1>7
<1>9. ASSUME NEW k \in Nat, k \in Ks PROVE k + 1 \in Ks
  <2> SUFFICES ASSUME k + 1 <= n PROVE w[k + 1] = R(k + 1)
    OBVIOUS
  <2>1. k + 1 \in 1 .. n /\ k + 1 \in 0 .. n /\ (k + 1) - 1 = k /\ k <= n /\ k + 1 # 0
    BY <1>1
  <2>2. w[k + 1] = addEdge(w[k], F[k + 1])
    BY <1>7, <2>1
  <2>3. R(k + 1) = addEdge(R(k), F[k + 1])
    BY <1>3, <2>1
  <2>4. w[k] = R(k)
    BY <1>9, <2>1
  <2> QED BY <2>2, <2>3, <2>4
<1> HIDE DEF Ks
<1>10. Ks = Nat
  <2>1. Ks \subseteq Nat
    BY DEF Ks
  <2> QED BY <1>8, <1>9, <2>1, Induct
<1>11. a = R(n)
  <2>1. n \in Ks /\ n <= n
    BY <1>1, <1>10
  <2> QED BY <1>2, <2>1 DEF Ks
<1>12. /\ DOMAIN a = 1 .. n /\ Len(a) = n
       /\ \A x \in 1 .. n : a[x] = F[n + 1 - x]
  <2>1. \A x \in 1 .. n : n + 1 - x \in 1 .. n
    BY <1>1
  <2>2. R(n) \in Seq(M)
    BY <1>1, <2>1 DEF R
  <2> QED BY <1>1, <1>11, <2>2 DEF R
<1>13. \A x \in 1 .. n : n + 1 - x \in 1 .. n /\ n + 1 - (n + 1 - x) = x
  BY <1>1
<1>14. ToSet(a) = M
  <2>1. ASSUME NEW x \in 1 .. n PROVE a[x] \in M
    BY <1>1, <1>12, <1>13
  <2>2. ASSUME NEW d \in M PROVE \E x \in 1 .. n : a[x] = d
    <3>1. PICK k \in 1 .. n : F[k] = d
      BY <1>1
    <3> QED BY <1>12, <1>13, <3>1
  <2>3. ToSet(a) = {a[x] : x \in 1 .. n}
    BY <1>12 DEF ToSet
  <2> QED BY <2>1, <2>2, <2>3
<1> QED BY <1>12, <1>14 DEF n
-------------------------------------------------------------------------------
(* The cores at the places of a list that are in I are as many as places.  *)
LEMMA CoresAt ==
    ASSUME NEW L \in Seq(0 .. MaxSize - 1), IsInjective(L), NEW I, I \subseteq DOMAIN L
    PROVE  LET S == CoreSet({L[i] : i \in I})
           IN  /\ S = CoreSet(S.member) /\ S.num = Cardinality(I) /\ S.num \in Nat
               /\ IsFiniteSet(S.member) /\ IsFiniteSet(I)
               /\ S.member = {L[i] : i \in I} /\ S.member \subseteq 0 .. MaxSize - 1
<1> DEFINE T == {L[i] : i \in I}
<1>1. IsFiniteSet(I)
  <2>1. DOMAIN L = 1 .. Len(L) /\ Len(L) \in Nat
    OBVIOUS
  <2>2. IsFiniteSet(1 .. Len(L))
    BY <2>1, FS_Interval
  <2> QED BY <2>1, <2>2, FS_Subset
<1>2. \A i, j \in I : L[i] = L[j] => i = j
  BY DEF IsInjective
<1>3. IsFiniteSet(T) /\ Cardinality(T) = Cardinality(I)
  BY <1>1, <1>2, ImageSize
<1>4. Cardinality(I) \in Nat
  BY <1>1, FS_CardinalityType
<1>5. T \subseteq 0 .. MaxSize - 1
  <2>1. \A i \in DOMAIN L : L[i] \in 0 .. MaxSize - 1
    <3> DEFINE V == 0 .. MaxSize - 1
    <3>1. L \in Seq(V)
      OBVIOUS
    <3> HIDE DEF V
    <3>2. \A i \in DOMAIN L : L[i] \in V
      BY <3>1
    <3> QED BY <3>2 DEF V
  <2> QED BY <2>1
<1> HIDE DEF T
<1> QED BY <1>1, <1>3, <1>4, <1>5 DEF CoreSet, T

(* There is a control core, and a data core for each of them.              *)
Enough ==
    /\ ctl_num > 0
    /\ Len(core_list) >= 2 * ctl_num
    /\ data_num >= ctl_num

EMTypes == core_list \in CoreLists /\ ctl_num \in Numbers /\ data_num \in Numbers

(* What the proofs need of a set of cores.                                 *)
SetFacts(S) ==
    /\ S = CoreSet(S.member) /\ S.num \in Nat /\ IsFiniteSet(S.member)
    /\ S.member \subseteq 0 .. MaxSize - 1

(* The two sets are disjoint, and where the sizes suffice the first     *)
(* ctl_num cores of the list are the control cores.                        *)
LEMMA RoleFacts ==
    ASSUME EMTypes
    PROVE  /\ SetFacts(control_set) /\ SetFacts(data_set)
           /\ control_set.num # 0 /\ data_set.num >= control_set.num <=> Enough
           /\ control_set.num # 0 /\ data_set.num >= control_set.num =>
                 control_set.member = {core_list[i] : i \in 1 .. ctl_num}
           /\ control_set.member \cap data_set.member = {}
<1>1. /\ core_list \in Seq(0 .. MaxSize - 1) /\ IsInjective(core_list)
      /\ ctl_num \in Nat /\ data_num \in Nat /\ Len(core_list) \in Nat
      /\ DOMAIN core_list = 1 .. Len(core_list)
  BY ListsAssumption DEF EMTypes
<1>2. PICK L \in Seq(0 .. MaxSize - 1) : L = core_list
  BY <1>1
<1>3. PICK k \in Nat : k = ctl_num
  BY <1>1
<1>4. PICK m \in Nat : m = data_num
  BY <1>1
<1>5. PICK l \in Nat : l = Len(L)
  OBVIOUS
<1> DEFINE a == IF k <= l THEN k ELSE l
           b == IF k + m <= l THEN k + m ELSE l
           I == 1 .. a
           J == {i \in DOMAIN L : i > k /\ i <= k + m}
<1>6. Min({k, l}) = a
  <2>1. a \in {k, l} /\ \A y \in {k, l} : a <= y
    OBVIOUS
  <2>2. \A x \in {k, l} : (\A y \in {k, l} : x <= y) => x = a
    OBVIOUS
  <2> HIDE DEF a
  <2> QED BY <2>1, <2>2 DEF Min
<1>7. a \in Nat /\ a <= l /\ b \in Nat /\ DOMAIN L = 1 .. l
  BY <1>5
<1>8. I \subseteq DOMAIN L /\ J \subseteq DOMAIN L /\ J = k + 1 .. b /\ I \cap J = {}
  BY <1>7
<1>9. control_set = CoreSet({L[i] : i \in I})
  BY <1>2, <1>3, <1>5, <1>6 DEF control_set
<1>10. data_set = CoreSet({L[i] : i \in J})
  BY <1>2, <1>3, <1>4 DEF data_set
<1>a. a = (IF k <= l THEN k ELSE l) /\ b = (IF k + m <= l THEN k + m ELSE l)
  OBVIOUS
<1> HIDE DEF a, b
<1>11. Cardinality(I) = a /\ Cardinality(J) = IF k + 1 > b THEN 0 ELSE b - k
  <2>1. Cardinality(1 .. a) = IF 1 > a THEN 0 ELSE a - 1 + 1
    BY <1>7, FS_Interval
  <2>2. Cardinality(k + 1 .. b) = IF k + 1 > b THEN 0 ELSE b - (k + 1) + 1
    BY <1>7, FS_Interval
  <2> HIDE DEF J
  <2>3. Cardinality(I) = a
    BY <1>7, <2>1
  <2>4. Cardinality(J) = IF k + 1 > b THEN 0 ELSE b - k
    BY <1>7, <1>8, <2>2
  <2> QED BY <2>3, <2>4
<1>12. IsInjective(L)
  BY <1>1, <1>2
<1> HIDE DEF I, J
<1>13. /\ SetFacts(control_set) /\ control_set.num = a
       /\ control_set.member = {L[i] : i \in I}
  <2>1. LET S == CoreSet({L[i] : i \in I})
        IN  /\ S = CoreSet(S.member) /\ S.num = Cardinality(I) /\ S.num \in Nat
            /\ IsFiniteSet(S.member) /\ IsFiniteSet(I)
            /\ S.member = {L[i] : i \in I} /\ S.member \subseteq 0 .. MaxSize - 1
    BY <1>8, <1>12, CoresAt
  <2> QED BY <1>9, <1>11, <2>1 DEF SetFacts
<1>14. /\ SetFacts(data_set) /\ data_set.num = IF k + 1 > b THEN 0 ELSE b - k
       /\ data_set.member = {L[i] : i \in J}
  <2>1. LET S == CoreSet({L[i] : i \in J})
        IN  /\ S = CoreSet(S.member) /\ S.num = Cardinality(J) /\ S.num \in Nat
            /\ IsFiniteSet(S.member) /\ IsFiniteSet(J)
            /\ S.member = {L[i] : i \in J} /\ S.member \subseteq 0 .. MaxSize - 1
    BY <1>8, <1>12, CoresAt
  <2> QED BY <1>10, <1>11, <2>1 DEF SetFacts
<1> DEFINE x == control_set.num   y == data_set.num
<1>15. x = a /\ y = IF k + 1 > b THEN 0 ELSE b - k
  BY <1>13, <1>14
<1> HIDE DEF x, y
<1>16. x # 0 /\ y >= x <=> k > 0 /\ l >= 2 * k /\ m >= k
  BY <1>a, <1>15
<1>17. x # 0 /\ y >= x => a = k
  BY <1>a, <1>15
<1>18. {L[i] : i \in I} \cap {L[i] : i \in J} = {}
  BY <1>8, <1>12 DEF IsInjective
<1>19. x # 0 /\ y >= x <=> Enough
  BY <1>2, <1>3, <1>4, <1>5, <1>16 DEF Enough
<1>20. x # 0 /\ y >= x => control_set.member = {core_list[i] : i \in 1 .. ctl_num}
  BY <1>2, <1>3, <1>13, <1>17 DEF I
<1> QED BY <1>13, <1>14, <1>18, <1>19, <1>20 DEF x, y

(* The loops over the subsets end exactly when each of them has a member.  *)
LEMMA LoopsEnd ==
    ASSUME EMTypes, control_set.num # 0
    PROVE  (\A i \in DOMAIN Subsets : LoopEnds(Subsets[i])) <=> data_set.num >= control_set.num
<1>1. /\ control_set.num \in Nat /\ data_set.num \in Nat /\ SetFacts(data_set)
  BY RoleFacts DEF SetFacts
<1>2. PICK k \in Nat \ {0} : k = control_set.num
  BY <1>1
<1>3. PICK s : s = data_set
  OBVIOUS
<1>4. PICK p : p = set_split(s, k)
  OBVIOUS
<1>5. Subsets = p /\ DOMAIN p = 1 .. k
  BY <1>2, <1>3, <1>4 DEF Subsets, set_split
<1>6. PICK M : M = s.member
  OBVIOUS
<1>7. /\ s = CoreSet(M) /\ IsFiniteSet(M) /\ M \subseteq 0 .. MaxSize - 1 /\ s.num \in Nat
      /\ M \subseteq Int
  BY <1>1, <1>3, <1>6 DEF SetFacts
<1>8. \A i \in 1 .. k : p[i].num = SubsetSize(s, k, i) /\ p[i].member \subseteq M
  <2>1. M \subseteq Int /\ IsFiniteSet(M) /\ s = CoreSet(M) /\ k \in Nat \ {0}
    BY <1>7
  <2>2. Cut(s, k, p)
    BY ONLY <2>1, <1>4, SplitFacts
  <2> QED BY <1>6, <2>2 DEF Cut
<1>9. ASSUME NEW i \in 1 .. k PROVE LoopEnds(p[i]) <=> SubsetSize(s, k, i) # 0
  <2>1. {m \in p[i].member : m >= MaxSize} = {}
    <3>1. \A m \in 0 .. MaxSize - 1 : ~(m >= MaxSize)
      BY MaxSizeAssumption
    <3> QED BY <1>7, <1>8, <3>1
  <2>2. MaxSize # Stray
    BY MaxSizeAssumption DEF Stray
  <2> QED BY <1>8, <2>1, <2>2 DEF LoopEnds, NextCell
<1> DEFINE q == s.num \div k   r == s.num % k
<1>10. q \in Nat /\ r \in 0 .. k - 1 /\ (q = 0 <=> s.num < k)
  BY <1>7, Division
<1>11. \A i \in 1 .. k : SubsetSize(s, k, i) = q + IF i <= r THEN 1 ELSE 0
  BY DEF SubsetSize
<1> HIDE DEF q, r
<1>12. (\A i \in 1 .. k : SubsetSize(s, k, i) # 0) <=> q # 0
  <2>1. q # 0 => \A i \in 1 .. k : SubsetSize(s, k, i) # 0
    BY <1>10, <1>11
  <2>2. k \in 1 .. k /\ ~(k <= r)
    BY <1>10
  <2>3. SubsetSize(s, k, k) = q + 0
    BY <1>11, <2>2
  <2>4. q = 0 => SubsetSize(s, k, k) = 0
    BY <2>3
  <2> QED BY <2>1, <2>2, <2>4
<1>13. s.num >= k <=> q # 0
  BY <1>7, <1>10
<1> QED BY <1>2, <1>3, <1>5, <1>9, <1>12, <1>13
-------------------------------------------------------------------------------
(* What the set-up needs in order to end, as the code meets it.            *)
CanEnd ==
    /\ control_set.num # 0
    /\ control_set.member \subseteq Vertices
    /\ \A i \in DOMAIN Subsets : LoopEnds(Subsets[i])

EMInv == EMTypes /\ (result # "none" => (result = "done" <=> CanEnd))

(* Whatever the set-up said, it said for what it was given.                *)
LEMMA EMInvariant == EMSpec => []EMInv
<1>1. EMInit => EMInv
  BY DEF EMInit, EMInv, EMTypes
<1>2. EMInv /\ [setup_execution_model]_emVars => EMInv'
  <2> SUFFICES ASSUME EMInv, [setup_execution_model]_emVars PROVE EMInv'
    OBVIOUS
  <2>1. core_list' = core_list /\ ctl_num' = ctl_num /\ data_num' = data_num
    BY DEF setup_execution_model, emVars
  <2>2. control_set' = control_set /\ data_set' = data_set /\ Vertices' = Vertices
    BY <2>1 DEF control_set, data_set, Vertices
  <2>3. Subsets' = Subsets
    BY <2>2 DEF Subsets
  <2>4. CanEnd' <=> CanEnd
    BY <2>2, <2>3 DEF CanEnd
  <2>5. EMTypes'
    BY <2>1 DEF EMInv, EMTypes
  <2>6. CASE setup_execution_model
    <3>1. result' = "done" <=> CanEnd
      BY <2>6 DEF setup_execution_model, CanEnd
    <3> QED BY <2>4, <2>5, <3>1 DEF EMInv
  <2>7. CASE UNCHANGED emVars
    <3>1. result' = result
      BY <2>7 DEF emVars
    <3> QED BY <2>4, <2>5, <3>1 DEF EMInv
  <2> QED BY <2>6, <2>7
<1> QED BY <1>1, <1>2, PTL DEF EMSpec

(* setup_execution_model (em.c) ends exactly when there is a control core, *)
(* each of them gets a data core and a vertex: with a list that names each *)
(* core once, for every number of cores.                                   *)
THEOREM SetupEnds == EMSpec => []SetupEndsWhenItCan
<1>1. EMInv => SetupEndsWhenItCan
  <2> SUFFICES ASSUME EMInv, result # "none"
               PROVE  result = "done" <=>
                        /\ Enough
                        /\ \A i \in 1 .. ctl_num : core_list[i] < Len(core_list)
    BY DEF SetupEndsWhenItCan, Enough
  <2> DEFINE Met == control_set.num # 0 /\ data_set.num >= control_set.num
  <2>1. EMTypes /\ (result = "done" <=> CanEnd)
    BY DEF EMInv
  <2>2. Met <=> Enough
    BY <2>1, RoleFacts
  <2>3. Met => control_set.member = {core_list[i] : i \in 1 .. ctl_num}
    BY <2>1, RoleFacts
  <2>4. CanEnd <=> Met /\ control_set.member \subseteq Vertices
    BY <2>1, LoopsEnd DEF CanEnd
  <2> HIDE DEF Met
  <2>5. ASSUME Enough
        PROVE  {core_list[i] : i \in 1 .. ctl_num} \subseteq Vertices <=>
                 \A i \in 1 .. ctl_num : core_list[i] < Len(core_list)
    <3>1. /\ core_list \in Seq(0 .. MaxSize - 1) /\ ctl_num \in Nat
          /\ Len(core_list) \in Nat
      BY <2>1, ListsAssumption DEF EMTypes
    <3>2. ctl_num <= Len(core_list)
      BY <2>5, <3>1 DEF Enough
    <3>3. \A i \in 1 .. ctl_num : core_list[i] \in Nat
      <4> DEFINE V == 0 .. MaxSize - 1
      <4>1. core_list \in Seq(V)
        BY <3>1
      <4> HIDE DEF V
      <4>2. \A i \in 1 .. ctl_num : core_list[i] \in V
        BY <3>1, <3>2, <4>1
      <4> QED BY <4>2 DEF V
    <3>4. \A i \in 1 .. ctl_num : core_list[i] \in Vertices <=> core_list[i] < Len(core_list)
      BY <3>1, <3>3 DEF Vertices
    <3> QED BY <3>4
  <2> QED BY <2>1, <2>2, <2>3, <2>4, <2>5
<1> QED BY <1>1, EMInvariant, PTL

(* F ranks the k control cores, p cuts the data cores, and each control    *)
(* core's list has the subset of its rank.                                 *)
Sharing(k, F, p) ==
    /\ \A i \in 1 .. k : F[i] \in control_set.member
    /\ \A c \in control_set.member : \E i \in 1 .. k : F[i] = c
    /\ \A i, j \in 1 .. k : F[i] = F[j] => i = j
    /\ Cut(data_set, k, p)
    /\ \A i \in 1 .. k : ToSet(SFG[F[i]]) = p[i].member /\ Len(SFG[F[i]]) = p[i].num

(* Such are the lists of adjacency once the set-up is done.                *)
LEMMA Shares ==
    ASSUME EMInv, result = "done"
    PROVE  \E k \in Nat \ {0} : \E F, p : Sharing(k, F, p)
<1>1. EMTypes /\ control_set.num # 0
  BY DEF EMInv, CanEnd
<1>2. SetFacts(control_set) /\ SetFacts(data_set)
  BY <1>1, RoleFacts
<1>3. PICK k \in Nat \ {0} : k = control_set.num
  BY <1>1, <1>2 DEF SetFacts
<1>4. PICK C : C = control_set.member
  OBVIOUS
<1>5. PICK D : D = data_set.member
  OBVIOUS
<1>6. /\ IsFiniteSet(C) /\ C \subseteq 0 .. MaxSize - 1 /\ k = Cardinality(C)
      /\ IsFiniteSet(D) /\ D \subseteq 0 .. MaxSize - 1 /\ data_set = CoreSet(D)
  <2>1. control_set = CoreSet(C)
    BY <1>2, <1>4 DEF SetFacts
  <2>2. control_set.num = Cardinality(C)
    BY <2>1 DEF CoreSet
  <2> QED BY <1>2, <1>3, <1>4, <1>5, <2>2 DEF SetFacts
<1>7. C \subseteq Int /\ D \subseteq Int
  BY <1>6
<1>8. PICK F : F = InOrderOf(C)
  OBVIOUS
<1>9. /\ \A i \in 1 .. k : F[i] \in C
      /\ \A c \in C : \E i \in 1 .. k : F[i] = c
      /\ \A i, j \in 1 .. k : F[i] = F[j] => i = j
  <2> DEFINE G == InOrderOf(C)
             n == Cardinality(C)
  <2>1. /\ \A i \in 1 .. n : G[i] \in C
        /\ \A c \in C : \E i \in 1 .. n : G[i] = c
        /\ \A i, j \in 1 .. n : G[i] = G[j] => i = j
    BY <1>6, <1>7, InOrderFacts
  <2> HIDE DEF G, n
  <2>2. G = F /\ n = k
    BY <1>6, <1>8 DEF G, n
  <2> QED BY <2>1, <2>2
<1>10. PICK s : s = data_set
  OBVIOUS
<1>11. PICK p : p = set_split(s, k)
  OBVIOUS
<1>12. Cut(s, k, p)
  <2>1. D \subseteq Int /\ IsFiniteSet(D) /\ s = CoreSet(D) /\ k \in Nat \ {0}
    BY <1>6, <1>7, <1>10
  <2> QED BY ONLY <2>1, <1>11, SplitFacts
<1>13. Subsets = p
  BY <1>3, <1>10, <1>11 DEF Subsets
<1>14. ASSUME NEW i \in 1 .. k
       PROVE  /\ ToSet(SFG[F[i]]) = p[i].member
              /\ Len(SFG[F[i]]) = p[i].num
  <2>1. PICK c : c = F[i] /\ c \in C
    BY <1>9
  <2>2. PICK j : j = CHOOSE x \in 1 .. k : F[x] = c
    OBVIOUS
  <2>3. j = i
    BY <1>9, <2>1, <2>2
  <2>4. SFG[c] = add_control_data(<<>>, p[j])
    <3>1. InOrder(control_set) = F
      BY <1>4, <1>8 DEF InOrder
    <3> QED BY <1>3, <1>4, <1>13, <2>1, <2>2, <3>1 DEF SFG
  <2>5. PICK M : M = p[i].member
    OBVIOUS
  <2>6. PICK a : a = SFG[c]
    OBVIOUS
  <2>7. /\ p[i] = CoreSet(M) /\ M \subseteq D /\ IsFiniteSet(M)
    BY <1>5, <1>10, <1>12, <2>5 DEF Cut
  <2>8. M \subseteq Int /\ IsFiniteSet(M) /\ a = add_control_data(<<>>, CoreSet(M))
    BY <1>7, <2>3, <2>4, <2>6, <2>7
  <2>9. ToSet(a) = M /\ Len(a) = Cardinality(M)
    BY ONLY <2>8, WalkFacts
  <2>10. p[i].num = Cardinality(M)
    BY <2>7 DEF CoreSet
  <2> QED BY <2>1, <2>5, <2>6, <2>9, <2>10
<1>15. Sharing(k, F, p)
  BY <1>4, <1>9, <1>10, <1>12, <1>14 DEF Sharing
<1> QED BY <1>15

(* The graph that em.c leaves: every data core hangs on exactly one        *)
(* control core, and the shares differ by one core at most, for every      *)
(* number of cores.                                                        *)
THEOREM DataCoresAreShared == EMSpec => []DataCoresShared
<1>1. EMInv => DataCoresShared
  <2> SUFFICES ASSUME EMInv, result = "done"
               PROVE  /\ \A d \in data_set.member :
                            Cardinality({c \in control_set.member : d \in ToSet(SFG[c])}) = 1
                      /\ \A c \in control_set.member :
                            /\ ToSet(SFG[c]) \subseteq data_set.member
                            /\ \A e \in control_set.member : Len(SFG[c]) <= Len(SFG[e]) + 1
    BY DEF DataCoresShared
  <2>0. PICK k \in Nat \ {0} : \E F, p : Sharing(k, F, p)
    BY Shares
  <2>1. PICK F, p : Sharing(k, F, p)
    BY <2>0
  <2>2. /\ \A i \in 1 .. k : F[i] \in control_set.member
        /\ \A c \in control_set.member : \E i \in 1 .. k : F[i] = c
        /\ \A i, j \in 1 .. k : F[i] = F[j] => i = j
        /\ Cut(data_set, k, p)
        /\ \A i \in 1 .. k : ToSet(SFG[F[i]]) = p[i].member /\ Len(SFG[F[i]]) = p[i].num
    BY <2>1 DEF Sharing
  <2>3. ASSUME NEW d \in data_set.member
        PROVE  Cardinality({c \in control_set.member : d \in ToSet(SFG[c])}) = 1
    <3>1. PICK i \in 1 .. k : d \in p[i].member
      BY <2>2 DEF Cut
    <3>2. ASSUME NEW c \in control_set.member, d \in ToSet(SFG[c]) PROVE c = F[i]
      <4>1. PICK j \in 1 .. k : F[j] = c
        BY <2>2
      <4>2. d \in p[j].member
        BY <2>2, <3>2, <4>1
      <4>3. j = i
        BY <2>2, <3>1, <4>2 DEF Cut
      <4> QED BY <4>1, <4>3
    <3>3. F[i] \in control_set.member /\ d \in ToSet(SFG[F[i]])
      BY <2>2, <3>1
    <3>4. {c \in control_set.member : d \in ToSet(SFG[c])} = {F[i]}
      BY <3>2, <3>3
    <3> QED BY <3>4, FS_Singleton
  <2>4. ASSUME NEW c \in control_set.member, NEW e \in control_set.member
        PROVE  Len(SFG[c]) <= Len(SFG[e]) + 1
    <3>1. PICK i \in 1 .. k : F[i] = c
      BY <2>2
    <3>2. PICK j \in 1 .. k : F[j] = e
      BY <2>2
    <3>3. PICK n : n = data_set.num
      OBVIOUS
    <3>4. /\ Len(SFG[c]) = SubsetSize(data_set, k, i) /\ Len(SFG[e]) = SubsetSize(data_set, k, j)
      BY <2>2, <3>1, <3>2 DEF Cut
    <3>5. n \in Nat
      BY <3>3, RoleFacts DEF EMInv, SetFacts
    <3>6. PICK q : q = n \div k
      OBVIOUS
    <3>7. q \in Nat
      BY <3>5, <3>6, Division
    <3>8. PICK x \in {0, 1} : Len(SFG[c]) = q + x
      BY <3>3, <3>4, <3>6 DEF SubsetSize
    <3>9. PICK y \in {0, 1} : Len(SFG[e]) = q + y
      BY <3>3, <3>4, <3>6 DEF SubsetSize
    <3>10. q + x <= q + y + 1
      BY <3>7
    <3> QED BY <3>8, <3>9, <3>10
  <2>5. ASSUME NEW c \in control_set.member PROVE ToSet(SFG[c]) \subseteq data_set.member
    <3>1. PICK i \in 1 .. k : F[i] = c
      BY <2>2
    <3> QED BY <2>2, <3>1 DEF Cut
  <2> QED BY <2>3, <2>4, <2>5
<1> QED BY <1>1, EMInvariant, PTL
===============================================================================
