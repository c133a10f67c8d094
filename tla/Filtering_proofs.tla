-------------------------- MODULE Filtering_proofs --------------------------
(***************************************************************************)
(* What Filtered returns, for every sequence and every set; members and    *)
(* repetitions of sequences that are put together.                         *)
(***************************************************************************)
EXTENDS Filtering, SequencesExt, FiniteSetTheorems, SequenceTheorems, TLAPS

\* The rank of a number in a finite set: from 1 to its size, and higher for a higher number.
LEMMA RanksGrow ==
  ASSUME NEW S, IsFiniteSet(S), S \subseteq Nat
  PROVE  /\ Cardinality(S) \in Nat
         /\ \A i \in S : Cardinality({j \in S : j <= i}) \in 1..Cardinality(S)
         /\ \A i, k \in S :
              i < k => Cardinality({j \in S : j <= i}) < Cardinality({j \in S : j <= k})
<1> DEFINE Below(i) == {j \in S : j <= i}
           R(i) == Cardinality(Below(i))
<1>1. Cardinality(S) \in Nat
  BY FS_CardinalityType
<1>2. \A i \in S : /\ IsFiniteSet(Below(i)) /\ R(i) \in 1..Cardinality(S) /\ i \in Below(i)
  <2> TAKE i \in S
  <2>1. Below(i) \subseteq S /\ i \in Below(i)
    OBVIOUS
  <2>2. IsFiniteSet(Below(i)) /\ R(i) <= Cardinality(S)
    BY <2>1, FS_Subset
  <2>3. R(i) \in Nat /\ R(i) # 0
    BY <2>1, <2>2, FS_CardinalityType, FS_EmptySet
  <2> QED
    BY <1>1, <2>1, <2>2, <2>3
<1>3. \A i, k \in S : i < k => R(i) < R(k)
  <2> SUFFICES ASSUME NEW i \in S, NEW k \in S, i < k PROVE R(i) < R(k)
    OBVIOUS
  <2>1. Below(i) \subseteq Below(k) /\ k \in Below(k) /\ k \notin Below(i)
    <3>1. i \in Nat /\ k \in Nat /\ k <= k /\ ~(k <= i)
      OBVIOUS
    <3>2. \A j \in S : j <= i => j <= k
      BY <3>1
    <3> QED
      BY <3>1, <3>2
  <2>2. R(i) <= R(k) /\ (R(i) = R(k) => Below(i) = Below(k))
    BY <1>2, <2>1, FS_Subset
  <2> QED
    BY <1>2, <2>1, <2>2
<1> QED
  BY <1>1, <1>2, <1>3

\* Every place from 1 to its size is that of a number in a finite set, and Nth finds it.
LEMMA NthCovers ==
  ASSUME NEW S, IsFiniteSet(S), S \subseteq Nat
  PROVE  /\ Cardinality(S) \in Nat
         /\ \A n \in 1..Cardinality(S) : Nth(S, n) \in S
         /\ \A i \in S : \E n \in 1..Cardinality(S) : Nth(S, n) = i
         /\ \A m, n \in 1..Cardinality(S) : Nth(S, m) = Nth(S, n) => m = n
         /\ \A n \in 1..Cardinality(S) : Cardinality({j \in S : j <= Nth(S, n)}) = n
<1> DEFINE R(i) == Cardinality({j \in S : j <= i})
           T == {R(i) : i \in S}
<1>1. Cardinality(S) \in Nat
  BY RanksGrow
<1>2. \A i \in S : R(i) \in 1..Cardinality(S)
  BY RanksGrow
<1>3. \A i, k \in S : i < k => R(i) < R(k)
  BY RanksGrow
<1>4. \A i, k \in S : R(i) = R(k) => i = k
  BY <1>2, <1>3
<1>5. T = 1..Cardinality(S)
  <2> DEFINE f == [i \in S |-> R(i)]
  <2>1. f \in Bijection(S, T)
    <3>1. f \in Injection(S, T)
      BY <1>4 DEF Injection, IsInjective
    <3>2. f \in Surjection(S, T)
      BY DEF Surjection
    <3> QED
      BY <3>1, <3>2 DEF Bijection
  <2>2. IsFiniteSet(T) /\ Cardinality(T) = Cardinality(S)
    BY <2>1, FS_Bijection DEF ExistsBijection
  <2>3. IsFiniteSet(1..Cardinality(S)) /\ Cardinality(1..Cardinality(S)) = Cardinality(S)
    BY <1>1, FS_Interval
  <2>4. T \subseteq 1..Cardinality(S)
    BY <1>2
  <2> QED
    BY <2>2, <2>3, <2>4, FS_Subset
<1>6. \A i \in S : Nth(S, R(i)) = i
  BY <1>4 DEF Nth
<1>7. \A n \in 1..Cardinality(S) : \E i \in S : n = R(i) /\ Nth(S, n) = i
  BY <1>5, <1>6
<1>11. \A n \in 1..Cardinality(S) : Cardinality({j \in S : j <= Nth(S, n)}) = n
  BY <1>7
<1> HIDE DEF R
<1>8. \A m, n \in 1..Cardinality(S) : Nth(S, m) = Nth(S, n) => m = n
  BY <1>7
<1>9. \A n \in 1..Cardinality(S) : Nth(S, n) \in S
  BY <1>7
<1>10. \A i \in S : \E n \in 1..Cardinality(S) : Nth(S, n) = i
  BY <1>2, <1>6
<1> QED
  BY <1>1, <1>8, <1>9, <1>10, <1>11

\* A finite set of numbers has a least and a greatest member.
LEMMA Extremes ==
  ASSUME NEW S, IsFiniteSet(S), S \subseteq Nat, S # {}
  PROVE  /\ \E m \in S : \A x \in S : m <= x
         /\ \E m \in S : \A x \in S : x <= m
<1> DEFINE R(i) == Cardinality({j \in S : j <= i})
           k == Cardinality(S)
<1>1. k \in Nat \ {0}
  BY FS_CardinalityType, FS_EmptySet
<1>2. \A n \in 1..k : Nth(S, n) \in S /\ R(Nth(S, n)) = n
  BY NthCovers
<1>3. /\ \A x \in S : R(x) \in 1..k
      /\ \A x, y \in S : x < y => R(x) < R(y)
  BY RanksGrow
<1> HIDE DEF R, k
<1>9. 1 \in 1..k /\ k \in 1..k
  BY <1>1
<1>10. Nth(S, 1) \in S /\ R(Nth(S, 1)) = 1 /\ Nth(S, k) \in S /\ R(Nth(S, k)) = k
  BY <1>2, <1>9
<1>4. PICK l \in S : R(l) = 1
  BY <1>10
<1>5. PICK g \in S : R(g) = k
  BY <1>10
<1>6. \A x \in S : ~(x < l) /\ ~(g < x)
  BY <1>1, <1>3, <1>4, <1>5
<1>7. l \in Nat /\ g \in Nat
  OBVIOUS
<1>8. \A x \in S : l <= x /\ x <= g
  BY <1>6, <1>7
<1> QED
  BY <1>8

\* A filtered sequence has the members that are in the set, and repeats none of them that the
\* sequence does not repeat.
THEOREM FilteredMembers ==
  ASSUME NEW T, NEW s \in Seq(T), NEW S
  PROVE  /\ Filtered(s, S) \in Seq(T)
         /\ ToSet(Filtered(s, S)) = ToSet(s) \cap S
         /\ IsInjective(s) => IsInjective(Filtered(s, S))
<1> DEFINE P == Places(s, S)
           k == Cardinality(P)
<1>1. DOMAIN s = 1..Len(s) /\ Len(s) \in Nat /\ \A i \in DOMAIN s : s[i] \in T
  BY LenProperties, ElementOfSeq
<1>2. P \subseteq Nat /\ IsFiniteSet(P)
  <2>1. IsFiniteSet(DOMAIN s)
    BY <1>1, FS_Interval
  <2> QED
    BY <1>1, <2>1, FS_Subset DEF Places
<1>3. /\ k \in Nat
      /\ \A n \in 1..k : Nth(P, n) \in P
      /\ \A i \in P : \E n \in 1..k : Nth(P, n) = i
      /\ \A m, n \in 1..k : Nth(P, m) = Nth(P, n) => m = n
  <2> HIDE DEF P
  <2> QED
    BY <1>2, NthCovers
<1>4. P = {i \in DOMAIN s : s[i] \in S}
  BY DEF Places
<1>5. Filtered(s, S) = [n \in 1..k |-> s[Nth(P, n)]]
  BY DEF Filtered
<1> HIDE DEF P, k
<1>6. DOMAIN Filtered(s, S) = 1..k /\ \A n \in 1..k : Filtered(s, S)[n] = s[Nth(P, n)]
  BY <1>5
<1>7. Filtered(s, S) \in Seq(T)
  <2>1. \A n \in 1..k : s[Nth(P, n)] \in T
    BY <1>1, <1>3, <1>4
  <2> QED
    BY <1>3, <1>5, <2>1, IsASeq
<1>8. ToSet(Filtered(s, S)) = ToSet(s) \cap S
  <2>1. ASSUME NEW n \in 1..k PROVE Filtered(s, S)[n] \in ToSet(s) \cap S
    BY <1>3, <1>4, <1>6 DEF ToSet
  <2>2. ASSUME NEW i \in DOMAIN s, s[i] \in S PROVE \E n \in 1..k : Filtered(s, S)[n] = s[i]
    <3>1. PICK n \in 1..k : Nth(P, n) = i
      BY <1>3, <1>4, <2>2
    <3> QED
      BY <1>6, <3>1
  <2>3. ToSet(Filtered(s, S)) = {Filtered(s, S)[n] : n \in 1..k}
    BY <1>6 DEF ToSet
  <2>4. ToSet(s) = {s[i] : i \in DOMAIN s}
    BY DEF ToSet
  <2>5. ToSet(s) \cap S \subseteq ToSet(Filtered(s, S))
    BY <2>2, <2>3, <2>4
  <2> QED
    BY <2>1, <2>3, <2>5
<1>9. ASSUME IsInjective(s) PROVE IsInjective(Filtered(s, S))
  <2>1. ASSUME NEW m \in 1..k, NEW n \in 1..k, Filtered(s, S)[m] = Filtered(s, S)[n] PROVE m = n
    <3>1. Nth(P, m) \in DOMAIN s /\ Nth(P, n) \in DOMAIN s
      BY <1>3, <1>4
    <3>2. s[Nth(P, m)] = s[Nth(P, n)]
      BY <1>6, <2>1
    <3>3. Nth(P, m) = Nth(P, n)
      BY <1>9, <3>1, <3>2 DEF IsInjective
    <3> QED
      BY <1>3, <3>3
  <2> QED
    BY <1>6, <2>1 DEF IsInjective
<1> QED
  BY <1>7, <1>8, <1>9
-----------------------------------------------------------------------------
(* Sequences put together *)

\* Two sequences put together have the members of both, and repeat none that neither repeats nor
\* both have.
LEMMA Joined ==
  ASSUME NEW T, NEW s \in Seq(T), NEW t \in Seq(T)
  PROVE  /\ s \o t \in Seq(T) /\ ToSet(s \o t) = ToSet(s) \cup ToSet(t)
         /\ IsInjective(s) /\ IsInjective(t) /\ ToSet(s) \cap ToSet(t) = {} => IsInjective(s \o t)
<1> DEFINE u == s \o t
           k == Len(s)
           l == Len(t)
<1>1. /\ k \in Nat /\ l \in Nat /\ DOMAIN s = 1..k /\ DOMAIN t = 1..l
  BY LenProperties
<1>2. /\ u \in Seq(T) /\ Len(u) = k + l
      /\ \A i \in 1..k + l : u[i] = IF i <= k THEN s[i] ELSE t[i - k]
  BY ConcatProperties
<1>3. DOMAIN u = 1..k + l
  BY <1>2, LenProperties
<1> HIDE DEF u, k, l
<1>4. \A i \in 1..k : i \in 1..k + l /\ u[i] = s[i]
  BY <1>1, <1>2
<1>5. \A i \in 1..l : k + i \in 1..k + l /\ u[k + i] = t[i]
  <2> TAKE i \in 1..l
  <2>1. k + i \in 1..k + l /\ ~(k + i <= k) /\ (k + i) - k = i
    BY <1>1
  <2>2. u[k + i] = t[(k + i) - k]
    BY <1>2, <2>1
  <2> QED
    BY <2>1, <2>2
<1>6. \A i \in 1..k + l : i \in 1..k \/ (i - k \in 1..l /\ i = k + (i - k))
  BY <1>1
<1>7. /\ ToSet(u) = {u[i] : i \in 1..k + l}
      /\ ToSet(s) = {s[i] : i \in 1..k} /\ ToSet(t) = {t[i] : i \in 1..l}
  BY <1>1, <1>3 DEF ToSet
<1>8. ASSUME NEW i \in 1..k + l PROVE u[i] \in ToSet(s) \cup ToSet(t)
  <2>1. CASE i \in 1..k
    BY <1>4, <1>7, <2>1
  <2>2. CASE i - k \in 1..l /\ i = k + (i - k)
    <3>1. u[i] = t[i - k]
      BY <1>5, <2>2
    <3> QED
      BY <1>7, <2>2, <3>1
  <2> QED
    BY <1>6, <2>1, <2>2
<1>9. ToSet(u) = ToSet(s) \cup ToSet(t)
  <2>1. ToSet(s) \subseteq ToSet(u)
    BY <1>4, <1>7
  <2>2. ToSet(t) \subseteq ToSet(u)
    BY <1>5, <1>7
  <2> QED
    BY <1>7, <1>8, <2>1, <2>2
<1>10. ASSUME IsInjective(s), IsInjective(t), ToSet(s) \cap ToSet(t) = {} PROVE IsInjective(u)
  <2> SUFFICES ASSUME NEW i \in 1..k + l, NEW j \in 1..k + l, u[i] = u[j] PROVE i = j
    BY <1>3 DEF IsInjective
  <2>1. CASE i \in 1..k /\ j \in 1..k
    BY <1>1, <1>4, <1>10, <2>1 DEF IsInjective
  <2>2. CASE i \in 1..k /\ j - k \in 1..l /\ j = k + (j - k)
    <3>1. u[j] = t[j - k] /\ u[i] = s[i]
      BY <1>4, <1>5, <2>2
    <3> QED
      BY <1>7, <1>10, <2>2, <3>1
  <2>3. CASE j \in 1..k /\ i - k \in 1..l /\ i = k + (i - k)
    <3>1. u[i] = t[i - k] /\ u[j] = s[j]
      BY <1>4, <1>5, <2>3
    <3> QED
      BY <1>7, <1>10, <2>3, <3>1
  <2>4. CASE i - k \in 1..l /\ i = k + (i - k) /\ j - k \in 1..l /\ j = k + (j - k)
    <3>1. u[i] = t[i - k] /\ u[j] = t[j - k]
      BY <1>5, <2>4
    <3>2. i - k = j - k
      BY <1>1, <1>10, <2>4, <3>1 DEF IsInjective
    <3> QED
      BY <2>4, <3>2
  <2> QED
    BY <1>6, <2>1, <2>2, <2>3, <2>4
<1> QED
  BY <1>2, <1>9, <1>10 DEF u

\* One more member at the end.
LEMMA Appended ==
  ASSUME NEW T, NEW s \in Seq(T), NEW e \in T
  PROVE  /\ Append(s, e) \in Seq(T) /\ ToSet(Append(s, e)) = ToSet(s) \cup {e}
         /\ IsInjective(s) /\ e \notin ToSet(s) => IsInjective(Append(s, e))
<1> DEFINE one == <<e>>
<1>1. /\ one \in Seq(T) /\ ToSet(one) = {e} /\ IsInjective(one)
  BY DEF ToSet, IsInjective
<1>2. Append(s, e) = s \o one
  BY AppendIsConcat
<1> HIDE DEF one
<1> QED
  BY <1>1, <1>2, Joined
=============================================================================
