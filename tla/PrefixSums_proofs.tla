--------------------------- MODULE PrefixSums_proofs ---------------------------
(***************************************************************************)
(* What the proofs about sums, counts and chains rest on: induction, in    *)
(* the form of a set of numbers, and the running totals of PrefixSums.     *)
(*                                                                         *)
(* A recursive function is what its equation says only if there is such a  *)
(* function.  The sums up to n are tabulated for each n (TableExists), two *)
(* tables agree where both are defined (TablesAgree), and SumTo reads one  *)
(* (SumIsTable).                                                           *)
(***************************************************************************)
EXTENDS PrefixSums, NaturalsInduction, WellFoundedInduction, TLAPS

\* The well-foundedness of the numbers, and induction from it.
LEMMA LeastElement ==
  ASSUME NEW S \in SUBSET Nat, S # {}
  PROVE  \E m \in S : \A k \in S : m <= k
<1> DEFINE R == OpToRel(<, Nat)
<1>1. IsWellFoundedOn(R, Nat)
  BY NatLessThanWellFounded, Zenon
<1>2. R = {s \in Nat \X Nat : s[1] < s[2]}
  BY Zenon DEF OpToRel
<1>3. PICK m \in S : \A k \in S : ~(<<k, m>> \in R)
  <2> HIDE DEF R
  <2> QED BY <1>1, WFMin
<1>4. ASSUME NEW k \in S PROVE m <= k
  <2>1. ~(<<k, m>> \in {s \in Nat \X Nat : s[1] < s[2]})
    BY <1>2, <1>3
  <2> QED BY <2>1
<1> QED BY <1>4

LEMMA Induction ==
  ASSUME NEW S, 0 \in S, \A n \in Nat : n \in S => n + 1 \in S
  PROVE  Nat \subseteq S
<1> DEFINE T == {n \in Nat : n \notin S}
<1> SUFFICES ASSUME T # {} PROVE FALSE
  OBVIOUS
<1>1. PICK m \in T : \A k \in T : m <= k
  <2>1. T \in SUBSET Nat
    OBVIOUS
  <2> HIDE DEF T
  <2> QED BY <2>1, LeastElement
<1>2. m \in Nat /\ m # 0 /\ m \notin S
  BY <1>1
<1>3. m - 1 \in Nat /\ (m - 1) + 1 = m /\ ~(m <= m - 1)
  BY <1>2
<1>4. m - 1 \in S
  BY <1>1, <1>3
<1> QED BY <1>2, <1>3, <1>4

(* Prefix sums *)

\* g tabulates the sums of f up to n.
Tabulates(g, f, n) == g = [i \in 0..n |-> IF i = 0 THEN 0 ELSE g[i - 1] + f[i]]

LEMMA TableExists ==
  ASSUME NEW f, NEW n \in Nat
  PROVE  \E g : Tabulates(g, f, n)
<1> DEFINE S == {m \in Nat : \E g : Tabulates(g, f, m)}
<1>1. 0 \in S
  <2> DEFINE g == [i \in 0..0 |-> 0]
  <2>1. Tabulates(g, f, 0)
    BY DEF Tabulates
  <2> QED BY <2>1
<1>2. ASSUME NEW m \in Nat, m \in S PROVE m + 1 \in S
  <2>1. PICK g : Tabulates(g, f, m)
    BY <1>2
  <2> DEFINE h == [i \in 0..(m + 1) |-> IF i = m + 1 THEN g[m] + f[m + 1] ELSE g[i]]
  <2>2. ASSUME NEW i \in 0..(m + 1)
        PROVE  h[i] = IF i = 0 THEN 0 ELSE h[i - 1] + f[i]
    <3>1. CASE i = m + 1
      BY <3>1
    <3>2. CASE i # m + 1
      <4>1. i \in 0..m /\ h[i] = g[i] /\ (i # 0 => h[i - 1] = g[i - 1])
        BY <3>2
      <4>2. g[i] = IF i = 0 THEN 0 ELSE g[i - 1] + f[i]
        BY <2>1, <4>1 DEF Tabulates
      <4> QED BY <4>1, <4>2
    <3> QED BY <3>1, <3>2
  <2>3. Tabulates(h, f, m + 1)
    <3>1. h = [i \in 0..(m + 1) |-> h[i]]
      OBVIOUS
    <3> HIDE DEF h
    <3> QED BY <2>2, <3>1 DEF Tabulates
  <2> QED BY <2>3
<1>3. Nat \subseteq S
  <2> HIDE DEF S
  <2> QED BY <1>1, <1>2, Induction
<1> QED BY <1>3

LEMMA TableAt ==
  ASSUME NEW f, NEW g, NEW n \in Nat, Tabulates(g, f, n)
  PROVE  /\ g[0] = 0
         /\ \A i \in 0..n : i # 0 => g[i] = g[i - 1] + f[i]
BY DEF Tabulates

\* Two tables of one function agree where both are defined.
LEMMA TablesAgree ==
  ASSUME NEW f, NEW e, NEW g, NEW h, NEW m \in Nat, NEW n \in Nat, m <= n,
         Tabulates(g, f, m), Tabulates(h, e, n), \A i \in 1..m : f[i] = e[i]
  PROVE  g[m] = h[m]
<1> DEFINE S == {i \in Nat : i <= m => g[i] = h[i]}
<1>1. 0 \in S
  BY TableAt
<1>2. ASSUME NEW i \in Nat, i \in S PROVE i + 1 \in S
  <2> SUFFICES ASSUME i + 1 <= m PROVE g[i + 1] = h[i + 1]
    OBVIOUS
  <2>1. i + 1 \in 0..m /\ i + 1 \in 0..n /\ i + 1 # 0 /\ (i + 1) - 1 = i /\ i <= m
    OBVIOUS
  <2>2. g[i + 1] = g[i] + f[i + 1] /\ h[i + 1] = h[i] + e[i + 1]
    BY <2>1, TableAt
  <2>3. g[i] = h[i] /\ f[i + 1] = e[i + 1]
    BY <1>2, <2>1
  <2> QED BY <2>2, <2>3
<1>3. Nat \subseteq S
  <2> HIDE DEF S
  <2> QED BY <1>1, <1>2, Induction
<1> QED BY <1>3

LEMMA SumIsTable ==
  ASSUME NEW f, NEW n \in Nat
  PROVE  \E g : Tabulates(g, f, n) /\ SumTo(f, n) = g[n]
<1> DEFINE g == CHOOSE g : Tabulates(g, f, n)
<1>1. Tabulates(g, f, n)
  BY TableExists, Zenon
<1>2. SumTo(f, n) = g[n]
  BY Zenon DEF SumTo, Tabulates
<1> QED BY <1>1, <1>2, Zenon

\* The sum depends on the terms alone, and grows by one term at a time.
LEMMA SumSame ==
  ASSUME NEW f, NEW e, NEW n \in Nat, \A i \in 1..n : f[i] = e[i]
  PROVE  SumTo(f, n) = SumTo(e, n)
<1>1. PICK g : Tabulates(g, f, n) /\ SumTo(f, n) = g[n]
  BY SumIsTable
<1>2. PICK h : Tabulates(h, e, n) /\ SumTo(e, n) = h[n]
  BY SumIsTable
<1>3. g[n] = h[n]
  BY <1>1, <1>2, TablesAgree
<1> QED BY <1>1, <1>2, <1>3

LEMMA SumGrows ==
  ASSUME NEW f
  PROVE  /\ SumTo(f, 0) = 0
         /\ \A n \in Nat : SumTo(f, n + 1) = SumTo(f, n) + f[n + 1]
<1>1. SumTo(f, 0) = 0
  <2>1. PICK g : Tabulates(g, f, 0) /\ SumTo(f, 0) = g[0]
    BY SumIsTable
  <2> QED BY <2>1, TableAt
<1>2. ASSUME NEW n \in Nat PROVE SumTo(f, n + 1) = SumTo(f, n) + f[n + 1]
  <2>1. PICK g : Tabulates(g, f, n) /\ SumTo(f, n) = g[n]
    BY SumIsTable
  <2>2. PICK h : Tabulates(h, f, n + 1) /\ SumTo(f, n + 1) = h[n + 1]
    BY SumIsTable
  <2>3. g[n] = h[n]
    <3>1. n + 1 \in Nat /\ n <= n + 1
      OBVIOUS
    <3> QED BY <2>1, <2>2, <3>1, TablesAgree
  <2>4. h[n + 1] = h[n] + f[n + 1]
    <3>1. n + 1 \in 0..(n + 1) /\ n + 1 # 0 /\ (n + 1) - 1 = n /\ n + 1 \in Nat
      OBVIOUS
    <3> QED BY <2>2, <3>1, TableAt
  <2> QED BY <2>1, <2>2, <2>3, <2>4
<1> QED BY <1>1, <1>2

LEMMA SumType ==
  ASSUME NEW f, NEW n \in Nat, \A i \in 1..n : f[i] \in Nat, NEW m \in 0..n
  PROVE  SumTo(f, m) \in Nat
<1> DEFINE S == {i \in Nat : i <= n => SumTo(f, i) \in Nat}
<1>1. 0 \in S
  BY SumGrows
<1>2. ASSUME NEW i \in Nat, i \in S PROVE i + 1 \in S
  BY <1>2, SumGrows
<1>3. Nat \subseteq S
  <2> HIDE DEF S
  <2> QED BY <1>1, <1>2, Induction
<1> QED BY <1>3

LEMMA SumMonotone ==
  ASSUME NEW f, NEW n \in Nat, \A i \in 1..n : f[i] \in Nat, NEW m \in 0..n
  PROVE  SumTo(f, m) <= SumTo(f, n)
<1> DEFINE S == {i \in Nat : m <= i /\ i <= n => SumTo(f, m) <= SumTo(f, i)}
<1>1. 0 \in S
  <2>1. 0 = m \/ ~(m <= 0)
    OBVIOUS
  <2> QED BY <2>1, SumType
<1>2. ASSUME NEW i \in Nat, i \in S PROVE i + 1 \in S
  <2> SUFFICES ASSUME m <= i + 1, i + 1 <= n PROVE SumTo(f, m) <= SumTo(f, i + 1)
    OBVIOUS
  <2>1. /\ SumTo(f, m) \in Nat /\ SumTo(f, i) \in Nat /\ f[i + 1] \in Nat
        /\ SumTo(f, i + 1) = SumTo(f, i) + f[i + 1]
    BY SumType, SumGrows
  <2>2. CASE m = i + 1
    BY <2>1, <2>2
  <2>3. CASE m # i + 1
    <3>1. SumTo(f, m) <= SumTo(f, i)
      BY <1>2, <2>3
    <3> QED BY <2>1, <3>1
  <2> QED BY <2>2, <2>3
<1>3. Nat \subseteq S
  <2> HIDE DEF S
  <2> QED BY <1>1, <1>2, Induction
<1> QED BY <1>3

=============================================================================
