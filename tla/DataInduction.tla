--------------------------- MODULE DataInduction ---------------------------
(***************************************************************************)
(* Induction over data, without operator parameters: a set of natural      *)
(* numbers that holds 0 and with every number its successor is Nat. What   *)
(* a recursive function computes, and that a finite set has a least        *)
(* element, follow from it.                                                *)
(***************************************************************************)
EXTENDS Integers, Sequences, FiniteSetTheorems, WellFoundedInduction, TLAPS

(* A step is left to Zenon, then to SMT, for at most 30 seconds each; one  *)
(* that needs arithmetic, sequences or records names SMT.                  *)
USE ZenonT(30), SMTT(30)

(* A set of natural numbers has a least element, since < is well founded.  *)
LEMMA LeastNat ==
    ASSUME NEW T \in SUBSET Nat, T # {}
    PROVE  \E m \in T : \A n \in T : m <= n
<1> DEFINE R == OpToRel(<, Nat)
<1>1. IsWellFoundedOn(R, Nat)
  BY NatLessThanWellFounded
<1>2. \A x, y \in Nat : <<y, x>> \in R <=> y < x
  BY DEF OpToRel
<1> HIDE DEF R
<1>3. PICK m \in T : \A n \in T : <<n, m>> \notin R
  BY <1>1, WFMin
<1>4. ASSUME NEW n \in T PROVE m <= n
  <2>1. m \in Nat /\ n \in Nat
    OBVIOUS
  <2>2. ~(n < m)
    BY <1>2, <1>3, <2>1
  <2> QED
    BY <2>1, <2>2, SMTT(30)
<1> QED
  BY <1>4

(* The principle of induction, for sets.                                   *)
LEMMA NatSet ==
    ASSUME NEW T \in SUBSET Nat, 0 \in T, \A n \in T : n + 1 \in T
    PROVE  T = Nat
<1> SUFFICES ASSUME Nat \ T # {} PROVE FALSE
  OBVIOUS
<1>1. PICK m \in Nat \ T : \A n \in Nat \ T : m <= n
  BY LeastNat
<1>2. m # 0 /\ m - 1 \in Nat /\ m - 1 \in T
  BY <1>1, SMTT(30)
<1> QED
  BY <1>2, SMTT(30)

-----------------------------------------------------------------------------
(* Sequences laid end to end                                               *)

(* A function on 1 .. n is a sequence.                                     *)
LEMMA IsSequence ==
    ASSUME NEW S, NEW n \in Nat, NEW s, s = [i \in 1 .. n |-> s[i]],
           \A i \in 1 .. n : s[i] \in S
    PROVE  s \in Seq(S) /\ Len(s) = n
<1>1. s \in [1 .. n -> S]
  OBVIOUS
<1> QED
  BY <1>1, SMTT(30)

(* An element of a sequence.                                               *)
In(x, s) == \E k \in 1 .. Len(s) : s[k] = x

(* What a concatenation holds.                                             *)
LEMMA InJoin ==
    ASSUME NEW S, NEW s \in Seq(S), NEW t \in Seq(S), NEW x
    PROVE  s \o t \in Seq(S) /\ (In(x, s \o t) <=> In(x, s) \/ In(x, t))
<1>1. /\ s \o t \in Seq(S) /\ Len(s \o t) = Len(s) + Len(t)
      /\ \A k \in 1 .. Len(s) : (s \o t)[k] = s[k]
      /\ \A k \in 1 .. Len(t) : (s \o t)[Len(s) + k] = t[k]
      /\ \A k \in (Len(s) + 1) .. (Len(s) + Len(t)) : (s \o t)[k] = t[k - Len(s)]
      /\ Len(s) \in Nat /\ Len(t) \in Nat
  BY SMTT(30)
<1> DEFINE r == s \o t
<1> HIDE DEF r
<1>2. ASSUME NEW k \in 1 .. Len(r) PROVE In(r[k], s) \/ In(r[k], t)
  <2>1. CASE k \in 1 .. Len(s)
    BY <1>1, <2>1 DEF In, r
  <2>2. CASE k \in (Len(s) + 1) .. (Len(s) + Len(t))
    <3>1. k - Len(s) \in 1 .. Len(t) /\ r[k] = t[k - Len(s)]
      BY <1>1, <2>2, SMTT(30) DEF r
    <3> QED
      BY <3>1 DEF In
  <2> QED
    BY <1>1, <2>1, <2>2, SMTT(30) DEF r
<1>3. ASSUME NEW k \in 1 .. Len(s) PROVE In(s[k], r)
  <2>1. k \in 1 .. Len(r) /\ r[k] = s[k]
    BY <1>1, SMTT(30) DEF r
  <2> QED
    BY <2>1 DEF In
<1>4. ASSUME NEW k \in 1 .. Len(t) PROVE In(t[k], r)
  <2>1. Len(s) + k \in 1 .. Len(r) /\ r[Len(s) + k] = t[k]
    BY <1>1, SMTT(30) DEF r
  <2> QED
    BY <2>1 DEF In
<1>5. ASSUME In(x, r) PROVE In(x, s) \/ In(x, t)
  <2>1. PICK k \in 1 .. Len(r) : r[k] = x
    BY <1>5 DEF In
  <2> QED
    BY <1>2, <2>1
<1>6. ASSUME In(x, s) PROVE In(x, r)
  <2>1. PICK k \in 1 .. Len(s) : s[k] = x
    BY <1>6 DEF In
  <2> QED
    BY <1>3, <2>1
<1>7. ASSUME In(x, t) PROVE In(x, r)
  <2>1. PICK k \in 1 .. Len(t) : t[k] = x
    BY <1>7 DEF In
  <2> QED
    BY <1>4, <2>1
<1> QED
  BY <1>1, <1>5, <1>6, <1>7 DEF r

(* f lays the sequences ss end to end, as far as n.                        *)
Laid(f, ss, n) ==
    f = [i \in 0 .. n |-> IF i = 0 THEN << >> ELSE f[i - 1] \o ss[i]]

(* There is such a function.                                               *)
LEMMA LaidExists ==
    ASSUME NEW ss, NEW n \in Nat
    PROVE  \E f : Laid(f, ss, n)
<1> DEFINE T == {m \in Nat : \E f : Laid(f, ss, m)}
<1>1. 0 \in T
  <2> DEFINE e == [i \in 0 .. 0 |-> << >>]
  <2>1. Laid(e, ss, 0)
    BY SMTT(30) DEF Laid
  <2> QED
    BY <2>1
<1>2. ASSUME NEW m \in T PROVE m + 1 \in T
  <2>1. m \in Nat
    OBVIOUS
  <2>2. PICK f : Laid(f, ss, m)
    OBVIOUS
  <2> DEFINE g == [i \in 0 .. (m + 1) |-> IF i <= m THEN f[i] ELSE f[m] \o ss[i]]
  <2>3. ASSUME NEW i \in 0 .. (m + 1)
        PROVE  g[i] = IF i = 0 THEN << >> ELSE g[i - 1] \o ss[i]
    <3>1. CASE i <= m
      <4>1. i \in 0 .. m /\ g[i] = f[i]
        BY <2>1, <3>1, SMTT(30)
      <4>2. f[i] = IF i = 0 THEN << >> ELSE f[i - 1] \o ss[i]
        BY <2>2, <4>1 DEF Laid
      <4>3. i # 0 => i - 1 \in 0 .. (m + 1) /\ i - 1 <= m
        BY <2>1, <4>1, SMTT(30)
      <4>4. i # 0 => g[i - 1] = f[i - 1]
        BY <4>3
      <4> QED
        BY <4>1, <4>2, <4>4
    <3>2. CASE ~(i <= m)
      <4>1. i = m + 1 /\ i # 0 /\ i - 1 = m
        BY <2>1, <3>2, SMTT(30)
      <4>2. g[m] = f[m] /\ g[i] = f[m] \o ss[i]
        BY <2>1, <3>2, SMTT(30)
      <4> QED
        BY <4>1, <4>2
    <3> QED
      BY <3>1, <3>2
  <2>4. Laid(g, ss, m + 1)
    BY <2>3 DEF Laid
  <2> QED
    BY <2>1, <2>4, SMTT(30)
<1>3. T = Nat
  <2> HIDE DEF T
  <2>1. T \in SUBSET Nat
    BY DEF T
  <2> QED
    BY <1>1, <1>2, <2>1, NatSet
<1> QED
  BY <1>3

(* Sequences laid end to end are a sequence of the elements of every one   *)
(* of them and of nothing else.                                            *)
LEMMA LaidElements ==
    ASSUME NEW S, NEW ss \in Seq(Seq(S)), NEW f, Laid(f, ss, Len(ss))
    PROVE  /\ f[Len(ss)] \in Seq(S)
           /\ \A x : In(x, f[Len(ss)]) <=> \E i \in 1 .. Len(ss) : In(x, ss[i])
<1> DEFINE n == Len(ss)
           All(m) == /\ f[m] \in Seq(S)
                     /\ \A x : In(x, f[m]) <=> \E i \in 1 .. m : In(x, ss[i])
           T == {m \in Nat : m <= n => All(m)}
<1>1. n \in Nat
  BY SMTT(30)
<1>2. 0 \in T
  <2>1. f[0] = << >>
    BY <1>1, SMTT(30) DEF Laid
  <2>2. f[0] \in Seq(S) /\ Len(f[0]) = 0
    BY <2>1, SMTT(30)
  <2>3. \A x : ~In(x, f[0])
    BY <2>2, SMTT(30) DEF In
  <2>4. ~\E i \in 1 .. 0 : TRUE
    BY SMTT(30)
  <2>5. All(0)
    BY <2>2, <2>3, <2>4
  <2> HIDE DEF All
  <2> QED
    BY <2>5
<1>3. ASSUME NEW m \in T PROVE m + 1 \in T
  <2>0. m \in Nat
    OBVIOUS
  <2> SUFFICES ASSUME m + 1 <= n PROVE All(m + 1)
    <3> HIDE DEF All
    <3> QED
      BY <2>0, SMTT(30)
  <2>1. m <= n /\ m + 1 \in 1 .. n
    BY <1>1, <2>0, SMTT(30)
  <2>2. ss[m + 1] \in Seq(S) /\ All(m)
    <3> HIDE DEF All
    <3> QED
      BY <2>1, SMTT(30)
  <2>3. f[m + 1] = f[m] \o ss[m + 1]
    <3>1. \A i \in 0 .. n : f[i] = IF i = 0 THEN << >> ELSE f[i - 1] \o ss[i]
      BY DEF Laid
    <3>2. m + 1 # 0 /\ (m + 1) - 1 = m /\ m + 1 \in 0 .. n
      BY <2>0, <2>1, SMTT(30)
    <3>3. f[m + 1] = f[(m + 1) - 1] \o ss[m + 1]
      BY <3>1, <3>2
    <3> QED
      BY <3>2, <3>3
  <2>4. \A x : In(x, f[m + 1]) <=> In(x, f[m]) \/ In(x, ss[m + 1])
    BY <2>2, <2>3, InJoin
  <2>5. \A i : i \in 1 .. (m + 1) <=> i \in 1 .. m \/ i = m + 1
    BY <2>0, SMTT(30)
  <2>6. f[m + 1] \in Seq(S)
    BY <2>2, <2>3, SMTT(30)
  <2> QED
    BY <2>2, <2>4, <2>5, <2>6
<1>4. T = Nat
  <2> HIDE DEF T
  <2>1. T \in SUBSET Nat
    BY DEF T
  <2> QED
    BY <1>2, <1>3, <2>1, NatSet
<1>5. All(n)
  <2> HIDE DEF All
  <2> QED
    BY <1>1, <1>4, SMTT(30)
<1> QED
  BY <1>5

-----------------------------------------------------------------------------
(* Least elements                                                          *)

Transitive(R, S) ==
    \A x, y, z \in S : <<x, y>> \in R /\ <<y, z>> \in R => <<x, z>> \in R

(* In a finite set that a strict order relates there is an element that    *)
(* none comes before.                                                      *)
LEMMA FirstElement ==
    ASSUME NEW S, IsFiniteSet(S), S # {}, NEW R, Transitive(R, S),
           \A x \in S : <<x, x>> \notin R
    PROVE  \E m \in S : \A x \in S : <<x, m>> \notin R
<1> DEFINE Has(U) == \E m \in U : \A x \in U : <<x, m>> \notin R
           T == {n \in Nat : \A U \in SUBSET S : Cardinality(U) = n + 1 => Has(U)}
<1>1. 0 \in T
  <2> SUFFICES ASSUME NEW U \in SUBSET S, Cardinality(U) = 1 PROVE Has(U)
    BY SMTT(30)
  <2>1. IsFiniteSet(U)
    BY FS_Subset
  <2>2. PICK x : U = {x}
    BY <2>1, FS_Singleton
  <2> QED
    BY <2>2
<1>2. ASSUME NEW n \in T PROVE n + 1 \in T
  <2> SUFFICES ASSUME NEW U \in SUBSET S, Cardinality(U) = n + 2 PROVE Has(U)
    BY SMTT(30)
  <2>1. IsFiniteSet(U) /\ n \in Nat
    BY FS_Subset
  <2>2. PICK u \in U : TRUE
    BY <2>1, FS_EmptySet, SMTT(30)
  <2> DEFINE V == U \ {u}
  <2>3. V \in SUBSET S /\ Cardinality(V) = n + 1
    <3>1. Cardinality(V) = Cardinality(U) - 1
      BY <2>1, <2>2, FS_RemoveElement
    <3> QED
      BY <2>1, <3>1, SMTT(30)
  <2>4. PICK m \in V : \A x \in V : <<x, m>> \notin R
    BY <2>3
  <2>5. CASE <<u, m>> \in R
    <3>1. ASSUME NEW x \in U PROVE <<x, u>> \notin R
      <4>1. CASE x = u
        BY <2>2, <4>1
      <4>2. CASE x # u
        BY <2>2, <2>4, <2>5, <4>2 DEF Transitive
      <4> QED
        BY <4>1, <4>2
    <3> QED
      BY <2>2, <3>1
  <2>6. CASE <<u, m>> \notin R
    BY <2>4, <2>6
  <2> QED
    BY <2>5, <2>6
<1>3. T = Nat
  <2> HIDE DEF T
  <2>1. T \in SUBSET Nat
    BY DEF T
  <2> QED
    BY <1>1, <1>2, <2>1, NatSet
<1>4. Cardinality(S) \in Nat /\ Cardinality(S) # 0
  BY FS_CardinalityType, FS_EmptySet
<1>5. Cardinality(S) - 1 \in T /\ (Cardinality(S) - 1) + 1 = Cardinality(S)
  BY <1>3, <1>4, SMTT(30)
<1>6. Has(S)
  BY <1>5
<1> QED
  BY <1>6
=============================================================================
