-------------------------- MODULE Selection_proofs --------------------------
(***************************************************************************)
(* Lemmas about the elements of a sequence at a set of places.             *)
(***************************************************************************)
EXTENDS Selection, FiniteSetTheorems, SequenceTheorems, TLAPS

\* A set of places is finite, and its ranks go up with the places.
LEMMA Ranks ==
  ASSUME NEW n \in Nat, NEW I \in SUBSET (1 .. n)
  PROVE  /\ IsFiniteSet(I) /\ Cardinality(I) \in Nat
         /\ \A i \in I : RankIn(i, I) \in 1 .. Cardinality(I)
         /\ \A i, j \in I : i < j => RankIn(i, I) < RankIn(j, I)
<1>1. IsFiniteSet(1 .. n)
  BY FS_Interval
<1>2. IsFiniteSet(I)
  BY <1>1, FS_Subset
<1>3. Cardinality(I) \in Nat
  BY <1>2, FS_CardinalityType
<1> DEFINE Upto(i) == {j \in I : j <= i}
<1>4. \A i \in I : Upto(i) \in SUBSET I /\ i \in Upto(i)
  BY SMT
<1>5. \A i \in I : /\ IsFiniteSet(Upto(i)) /\ Cardinality(Upto(i)) \in Nat
                   /\ Cardinality(Upto(i)) <= Cardinality(I)
                   /\ Cardinality(Upto(i)) # 0
  <2> TAKE i \in I
  <2>1. Upto(i) \in SUBSET I /\ Upto(i) # {}
    BY <1>4
  <2> HIDE DEF Upto
  <2>2. IsFiniteSet(Upto(i)) /\ Cardinality(Upto(i)) <= Cardinality(I)
    BY <1>2, <2>1, FS_Subset
  <2> QED BY <2>1, <2>2, FS_CardinalityType, FS_EmptySet
<1>6. \A i \in I : RankIn(i, I) = Cardinality(Upto(i))
  BY Zenon DEF RankIn
<1>7. ASSUME NEW i \in I, NEW j \in I, i < j
      PROVE  Cardinality(Upto(i)) < Cardinality(Upto(j))
  <2>1. Upto(i) \in SUBSET Upto(j) /\ Upto(i) # Upto(j)
    <3>1. j \notin Upto(i) /\ j \in Upto(j)
      BY <1>7
    <3>2. Upto(i) \subseteq Upto(j)
      <4>1. \A a \in I : a \in Nat
        OBVIOUS
      <4>2. \A a \in I : a <= i => a <= j
        BY <1>7, <4>1
      <4> QED BY <4>2
    <3> QED BY <3>1, <3>2, Zenon
  <2> HIDE DEF Upto
  <2>2. Cardinality(Upto(i)) <= Cardinality(Upto(j))
        /\ Cardinality(Upto(i)) # Cardinality(Upto(j))
    BY <1>5, <2>1, FS_Subset
  <2> QED BY <1>5, <2>2
<1> HIDE DEF Upto
<1> QED BY <1>2, <1>3, <1>5, <1>6, <1>7

\* Every rank up to the number of places is that of one place.
LEMMA RanksOnto ==
  ASSUME NEW n \in Nat, NEW I \in SUBSET (1 .. n), NEW k \in 1 .. Cardinality(I)
  PROVE  \E i \in I : RankIn(i, I) = k
<1>1. PICK c \in Nat : c = Cardinality(I)
  BY Ranks
<1>2. PICK f : f = [i \in I |-> RankIn(i, I)]
  OBVIOUS
<1>3. f \in [I -> 1 .. c]
  BY <1>1, <1>2, Ranks
<1>4. \A i, j \in I : f[i] = f[j] => i = j
  <2> SUFFICES ASSUME NEW i \in I, NEW j \in I, f[i] = f[j], i # j PROVE FALSE
    OBVIOUS
  <2>1. i \in Nat /\ j \in Nat
    OBVIOUS
  <2>2. i < j \/ j < i
    BY <2>1
  <2>3. f[i] \in Nat /\ f[j] \in Nat
    BY <1>3, <1>1
  <2>4. f[i] < f[j] \/ f[j] < f[i]
    BY <1>2, <2>2, Ranks
  <2> QED BY <2>3, <2>4
<1>5. f \in Injection(I, 1 .. c)
  BY <1>3, <1>4 DEF Injection, IsInjective
<1>6. IsFiniteSet(1 .. c) /\ Cardinality(1 .. c) = c
  BY <1>1, FS_Interval
<1>7. f \in Surjection(I, 1 .. c)
  BY <1>1, <1>5, <1>6, FS_Injection
<1> QED BY <1>1, <1>2, <1>7 DEF Surjection

\* The elements of a sequence at a set of places: each is at its rank.
LEMMA ElementsAtPlaces ==
  ASSUME NEW S, NEW s \in Seq(S), NEW I \in SUBSET (1 .. Len(s))
  PROVE  /\ ElementsAt(s, I) \in Seq(S) /\ Len(ElementsAt(s, I)) = Cardinality(I)
         /\ \A i \in I : ElementsAt(s, I)[RankIn(i, I)] = s[i]
         /\ \A k \in 1 .. Cardinality(I) :
              \E i \in I : RankIn(i, I) = k /\ ElementsAt(s, I)[k] = s[i]
<1>1. Len(s) \in Nat
  OBVIOUS
<1>2. PICK c \in Nat : c = Cardinality(I)
  BY <1>1, Ranks
<1> DEFINE At(k) == CHOOSE i \in I : RankIn(i, I) = k
<1>3. \A k \in 1 .. c : At(k) \in I /\ RankIn(At(k), I) = k
  BY <1>1, <1>2, RanksOnto
<1>4. \A i \in I : RankIn(i, I) \in 1 .. c
  BY <1>1, <1>2, Ranks
<1>5. ASSUME NEW i \in I, NEW j \in I, RankIn(i, I) = RankIn(j, I)
      PROVE  i = j
  <2>1. i \in Nat /\ j \in Nat
    OBVIOUS
  <2>2. \A a, b \in I : a < b => RankIn(a, I) < RankIn(b, I)
    BY <1>1, Ranks
  <2>3. RankIn(i, I) \in Nat
    BY <1>2, <1>4
  <2> QED BY <1>5, <2>1, <2>2, <2>3
<1>6. \A i \in I : At(RankIn(i, I)) = i
  BY <1>3, <1>4, <1>5
<1>7. ElementsAt(s, I) = [k \in 1 .. c |-> s[At(k)]]
  BY <1>2 DEF ElementsAt
<1> HIDE DEF At
<1>8. \A k \in 1 .. c : s[At(k)] \in S
  <2>1. \A i \in 1 .. Len(s) : s[i] \in S
    OBVIOUS
  <2> QED BY <1>3, <2>1
<1>9. PICK t : t = ElementsAt(s, I)
  OBVIOUS
<1>10. t \in Seq(S) /\ Len(t) = c /\ \A k \in 1 .. c : t[k] = s[At(k)]
  BY <1>7, <1>8, <1>9
<1> QED BY <1>2, <1>3, <1>4, <1>6, <1>9, <1>10

\* An order of the elements that goes up with the places goes up with the
\* ranks.
LEMMA ElementsAtOrder ==
  ASSUME NEW S, NEW s \in Seq(S), NEW I \in SUBSET (1 .. Len(s)),
         NEW k \in 1 .. Cardinality(I), NEW l \in 1 .. Cardinality(I), k < l
  PROVE  \E i, j \in I : /\ i < j
                         /\ ElementsAt(s, I)[k] = s[i] /\ ElementsAt(s, I)[l] = s[j]
<1>1. PICK i \in I : RankIn(i, I) = k /\ ElementsAt(s, I)[k] = s[i]
  BY ElementsAtPlaces
<1>2. PICK j \in I : RankIn(j, I) = l /\ ElementsAt(s, I)[l] = s[j]
  BY ElementsAtPlaces
<1>3. Len(s) \in Nat
  OBVIOUS
<1>4. i \in Nat /\ j \in Nat /\ k \in Nat /\ l \in Nat
  BY <1>3, Ranks
<1>6. \A a, b \in I : a < b => RankIn(a, I) < RankIn(b, I)
  BY <1>3, Ranks
<1>5. ~(j < i) /\ i # j
  BY <1>1, <1>2, <1>4, <1>6
<1> QED BY <1>1, <1>2, <1>4, <1>5

\* Appending an element that is not at one of the places changes nothing.
LEMMA ElementsAtSame ==
  ASSUME NEW S, NEW s \in Seq(S), NEW x \in S, NEW I \in SUBSET (1 .. Len(s))
  PROVE  ElementsAt(Append(s, x), I) = ElementsAt(s, I)
<1>1. PICK t : t = Append(s, x)
  OBVIOUS
<1>2. t \in Seq(S) /\ Len(t) = Len(s) + 1 /\ \A i \in 1 .. Len(s) : t[i] = s[i]
  BY <1>1
<1>3. Len(s) \in Nat
  OBVIOUS
<1>4. I \in SUBSET (1 .. Len(t))
  BY <1>2, <1>3
<1>5. PICK a : a = ElementsAt(s, I)
  OBVIOUS
<1>6. PICK b : b = ElementsAt(t, I)
  OBVIOUS
<1>7. /\ a \in Seq(S) /\ Len(a) = Cardinality(I)
      /\ \A k \in 1 .. Cardinality(I) : \E i \in I : RankIn(i, I) = k /\ a[k] = s[i]
  BY <1>5, ElementsAtPlaces
<1>8. /\ b \in Seq(S) /\ Len(b) = Cardinality(I)
      /\ \A i \in I : b[RankIn(i, I)] = t[i]
  BY <1>2, <1>4, <1>6, ElementsAtPlaces
<1>9. \A k \in 1 .. Cardinality(I) : a[k] = b[k]
  BY <1>2, <1>7, <1>8
<1>10. a = b
  BY <1>7, <1>8, <1>9
<1> QED BY <1>1, <1>5, <1>6, <1>10

\* Appending one that is at one of the places appends it.
LEMMA ElementsAtAppend ==
  ASSUME NEW S, NEW s \in Seq(S), NEW x \in S, NEW I \in SUBSET (1 .. Len(s))
  PROVE  ElementsAt(Append(s, x), I \cup {Len(s) + 1}) = Append(ElementsAt(s, I), x)
<1>1. PICK t : t = Append(s, x)
  OBVIOUS
<1>2. PICK n \in Nat : n = Len(s)
  OBVIOUS
<1>3. /\ t \in Seq(S) /\ Len(t) = n + 1 /\ t[n + 1] = x
      /\ \A i \in 1 .. n : t[i] = s[i]
  BY <1>1, <1>2
<1>4. PICK J : J = I \cup {n + 1}
  OBVIOUS
<1>5. I \in SUBSET (1 .. n) /\ n + 1 \notin I /\ J \in SUBSET (1 .. n + 1)
  <2>1. \A i \in I : i \in 1 .. n
    BY <1>2
  <2>2. n + 1 \notin 1 .. n /\ \A i \in 1 .. n : i \in 1 .. n + 1
    OBVIOUS
  <2>3. n + 1 \in 1 .. n + 1
    OBVIOUS
  <2> QED BY <1>4, <2>1, <2>2, <2>3
<1>6. PICK c \in Nat : c = Cardinality(I) /\ IsFiniteSet(I)
  BY <1>5, Ranks
<1>7. Cardinality(J) = c + 1
  BY <1>4, <1>5, <1>6, FS_AddElement
<1>8. \A i \in I : RankIn(i, J) = RankIn(i, I)
  <2> TAKE i \in I
  <2>1. {j \in J : j <= i} = {j \in I : j <= i}
    <3>1. ~(n + 1 <= i)
      BY <1>5
    <3> QED BY <1>4, <3>1
  <2> QED BY <2>1 DEF RankIn
<1>9. RankIn(n + 1, J) = c + 1
  <2>1. {j \in J : j <= n + 1} = J
    <3>1. \A j \in J : j \in 1 .. n + 1
      BY <1>5
    <3>2. \A j \in 1 .. n + 1 : j <= n + 1
      OBVIOUS
    <3> QED BY <3>1, <3>2
  <2> QED BY <1>7, <2>1 DEF RankIn
<1>10. PICK a : a = ElementsAt(s, I)
  OBVIOUS
<1>11. PICK b : b = ElementsAt(t, J)
  OBVIOUS
<1>12. /\ a \in Seq(S) /\ Len(a) = c
       /\ \A k \in 1 .. c : \E i \in I : RankIn(i, I) = k /\ a[k] = s[i]
  BY <1>2, <1>5, <1>6, <1>10, ElementsAtPlaces
<1>13. /\ b \in Seq(S) /\ Len(b) = c + 1
       /\ \A i \in J : b[RankIn(i, J)] = t[i]
  BY <1>3, <1>5, <1>7, <1>11, ElementsAtPlaces
<1>14. b[c + 1] = x
  <2>1. n + 1 \in J
    BY <1>4
  <2>2. b[RankIn(n + 1, J)] = t[n + 1]
    BY <1>13, <2>1
  <2> QED BY <1>3, <1>9, <2>2
<1>15. ASSUME NEW k \in 1 .. c PROVE b[k] = a[k]
  <2>1. PICK i \in I : RankIn(i, I) = k /\ a[k] = s[i]
    BY <1>12
  <2>2. i \in J /\ RankIn(i, J) = k /\ t[i] = s[i]
    BY <1>3, <1>4, <1>5, <1>8, <2>1
  <2> QED BY <1>13, <2>1, <2>2
<1>16. b = Append(a, x)
  BY <1>6, <1>12, <1>13, <1>14, <1>15
<1> QED BY <1>1, <1>2, <1>4, <1>10, <1>11, <1>16

\* All the places give the sequence, none the empty one.
LEMMA ElementsAtAll ==
  ASSUME NEW S, NEW s \in Seq(S)
  PROVE  ElementsAt(s, 1 .. Len(s)) = s /\ ElementsAt(s, {}) = <<>>
<1>1. PICK n \in Nat : n = Len(s)
  OBVIOUS
<1>2. \A i \in 0 .. n : IsFiniteSet(1 .. i) /\ Cardinality(1 .. i) = i
  BY FS_Interval
<1>3. \A i \in 1 .. n : RankIn(i, 1 .. n) = i
  <2> TAKE i \in 1 .. n
  <2>1. {j \in 1 .. n : j <= i} = 1 .. i
    OBVIOUS
  <2>2. i \in 0 .. n
    OBVIOUS
  <2>3. RankIn(i, 1 .. n) = Cardinality(1 .. i)
    BY <2>1, Zenon DEF RankIn
  <2> QED BY <1>2, <2>2, <2>3
<1>4. PICK t : t = ElementsAt(s, 1 .. n)
  OBVIOUS
<1>5. /\ t \in Seq(S) /\ Len(t) = n
      /\ \A i \in 1 .. n : t[RankIn(i, 1 .. n)] = s[i]
  <2>1. Cardinality(1 .. n) = n
    BY <1>2
  <2>2. 1 .. n \in SUBSET (1 .. Len(s))
    BY <1>1
  <2> QED BY <1>4, <2>1, <2>2, ElementsAtPlaces
<1>6. t = s
  BY <1>1, <1>3, <1>5
<1>7. ElementsAt(s, {}) = <<>>
  <2>1. Cardinality({}) = 0
    BY FS_EmptySet
  <2>2. ElementsAt(s, {}) \in Seq(S) /\ Len(ElementsAt(s, {})) = 0
    BY <2>1, ElementsAtPlaces
  <2> QED BY <2>2
<1> QED BY <1>1, <1>4, <1>6, <1>7

\* Places moved up by n are as many as before.
LEMMA ShiftedPlaces ==
  ASSUME NEW n \in Nat, NEW m \in Nat, NEW J \in SUBSET (1 .. m)
  PROVE  /\ IsFiniteSet({n + j : j \in J})
         /\ Cardinality({n + j : j \in J}) = Cardinality(J)
<1>1. PICK K : K = {n + j : j \in J}
  OBVIOUS
<1>2. \A j \in J : j \in Nat
  OBVIOUS
<1>3. PICK f : f = [j \in J |-> n + j]
  OBVIOUS
<1>4. f \in [J -> K] /\ \A j \in J : f[j] = n + j
  BY <1>1, <1>3
<1>5. f \in Bijection(J, K)
  <2>1. \A i, j \in J : f[i] = f[j] => i = j
    BY <1>2, <1>4
  <2>2. \A k \in K : \E j \in J : f[j] = k
    BY <1>1, <1>4
  <2> QED BY <1>4, <2>1, <2>2 DEF Bijection, Injection, Surjection, IsInjective
<1>6. IsFiniteSet(J)
  BY Ranks
<1>7. ExistsBijection(J, K)
  BY <1>5 DEF ExistsBijection
<1> QED BY <1>1, <1>6, <1>7, FS_Bijection

\* The places J moved up by n.
Beyond(n, J) == {n + j : j \in J}

\* s is a and then b (a name the provers keep as it stands).
Joins(s, a, b) == s = a \o b

\* The elements of a concatenation are those of its two parts.
LEMMA ElementsAtConcat ==
  ASSUME NEW S, NEW a \in Seq(S), NEW b \in Seq(S),
         NEW I \in SUBSET (1 .. Len(a)), NEW J \in SUBSET (1 .. Len(b))
  PROVE  Joins(ElementsAt(a \o b, I \cup Beyond(Len(a), J)),
               ElementsAt(a, I), ElementsAt(b, J))
<1>1. PICK n \in Nat : n = Len(a)
  OBVIOUS
<1>2. PICK m \in Nat : m = Len(b)
  OBVIOUS
<1>3. PICK t : t = a \o b
  OBVIOUS
<1>4. /\ t \in Seq(S) /\ Len(t) = n + m
      /\ \A i \in 1 .. n : t[i] = a[i]
      /\ \A j \in 1 .. m : t[n + j] = b[j]
  <2>1. /\ t \in Seq(S) /\ Len(t) = n + m
        /\ \A i \in 1 .. n + m : t[i] = IF i <= n THEN a[i] ELSE b[i - n]
    BY <1>1, <1>2, <1>3, ConcatProperties
  <2>2. ASSUME NEW j \in 1 .. m PROVE t[n + j] = b[j]
    <3>1. n + j \in 1 .. n + m /\ ~(n + j <= n) /\ n + j - n = j
      OBVIOUS
    <3> QED BY <2>1, <3>1
  <2>3. \A i \in 1 .. n : i \in 1 .. n + m /\ i <= n
    OBVIOUS
  <2> QED BY <2>1, <2>2, <2>3
<1>5. PICK J1 : J1 = {n + j : j \in J} /\ J1 = Beyond(n, J)
  BY DEF Beyond
<1>6. PICK K : K = I \cup J1
  OBVIOUS
<1>7. PICK c \in Nat : c = Cardinality(I) /\ IsFiniteSet(I)
  BY <1>1, Ranks
<1>8. PICK d \in Nat : d = Cardinality(J) /\ IsFiniteSet(J)
  BY <1>2, Ranks
<1>9. /\ \A i \in I : i \in Nat /\ i <= n
      /\ \A j \in J : j \in Nat /\ j > 0 /\ j <= m
      /\ \A k \in J1 : k \in Nat /\ k > n /\ k <= n + m
  <2>1. \A j \in J : j \in 1 .. m
    BY <1>2
  <2>2. \A i \in I : i \in 1 .. n
    BY <1>1
  <2> QED BY <1>5, <2>1, <2>2
<1>10. K \in SUBSET (1 .. n + m)
  <2>1. \A i \in I : i \in 1 .. n + m
    BY <1>1, <1>9
  <2>2. \A k \in J1 : k \in 1 .. n + m
    BY <1>9
  <2> QED BY <1>6, <2>1, <2>2
<1>11. \A L \in SUBSET J : Cardinality(I \cup {n + j : j \in L}) = c + Cardinality(L)
  <2> TAKE L \in SUBSET J
  <2>1. PICK L1 : L1 = {n + j : j \in L}
    OBVIOUS
  <2>2. L \in SUBSET (1 .. m)
    BY <1>2
  <2>3. IsFiniteSet(L1) /\ Cardinality(L1) = Cardinality(L)
    BY <2>1, <2>2, ShiftedPlaces
  <2>4. I \cap L1 = {}
    BY <1>9, <2>1
  <2>5. Cardinality(I \cup L1) = c + Cardinality(L1) - Cardinality(I \cap L1)
    BY <1>7, <2>3, FS_Union, Zenon
  <2>6. Cardinality(L) \in Nat
    BY <2>2, Ranks
  <2>7. Cardinality(I \cap L1) = 0
    BY <2>4, FS_EmptySet
  <2> QED BY <2>1, <2>3, <2>5, <2>6, <2>7
<1>12. Cardinality(K) = c + d
  <2>1. Cardinality(I \cup {n + j : j \in J}) = c + Cardinality(J)
    BY <1>11
  <2> QED BY <1>5, <1>6, <1>8, <2>1
<1>13. \A i \in I : RankIn(i, K) = RankIn(i, I)
  <2> TAKE i \in I
  <2>1. {k \in K : k <= i} = {k \in I : k <= i}
    BY <1>6, <1>9
  <2> QED BY <2>1 DEF RankIn
<1>14. \A j \in J : RankIn(n + j, K) = c + RankIn(j, J)
  <2> TAKE j \in J
  <2>1. PICK L : L = {l \in J : l <= j}
    OBVIOUS
  <2>2. {k \in K : k <= n + j} = I \cup {n + l : l \in L}
    <3>1. \A k \in I : k <= n + j
      BY <1>9
    <3>2. \A l \in J : n + l <= n + j <=> l <= j
      BY <1>9
    <3>3. {k \in J1 : k <= n + j} = {n + l : l \in L}
      BY <1>5, <2>1, <3>2
    <3> QED BY <1>6, <3>1, <3>3
  <2>3. L \in SUBSET J
    BY <2>1
  <2>4. Cardinality(I \cup {n + l : l \in L}) = c + Cardinality(L)
    BY <1>11, <2>3
  <2>5. RankIn(n + j, K) = Cardinality({k \in K : k <= n + j})
    BY Zenon DEF RankIn
  <2>6. RankIn(j, J) = Cardinality(L)
    BY <2>1, Zenon DEF RankIn
  <2> QED BY <2>2, <2>4, <2>5, <2>6
<1>15. PICK x : x = ElementsAt(a, I)
  OBVIOUS
<1>16. PICK y : y = ElementsAt(b, J)
  OBVIOUS
<1>17. PICK z : z = ElementsAt(t, K)
  OBVIOUS
<1>18. /\ x \in Seq(S) /\ Len(x) = c
       /\ \A k \in 1 .. c : \E i \in I : RankIn(i, I) = k /\ x[k] = a[i]
  BY <1>1, <1>7, <1>15, ElementsAtPlaces
<1>19. /\ y \in Seq(S) /\ Len(y) = d
       /\ \A k \in 1 .. d : \E j \in J : RankIn(j, J) = k /\ y[k] = b[j]
  BY <1>2, <1>8, <1>16, ElementsAtPlaces
<1>20. /\ z \in Seq(S) /\ Len(z) = c + d
       /\ \A k \in K : z[RankIn(k, K)] = t[k]
  BY <1>4, <1>10, <1>12, <1>17, ElementsAtPlaces
<1>21. ASSUME NEW k \in 1 .. c PROVE z[k] = x[k]
  <2>1. PICK i \in I : RankIn(i, I) = k /\ x[k] = a[i]
    BY <1>18
  <2>2. i \in K /\ RankIn(i, K) = k /\ t[i] = a[i]
    BY <1>1, <1>4, <1>6, <1>13, <2>1
  <2> QED BY <1>20, <2>1, <2>2
<1>22. ASSUME NEW k \in 1 .. d PROVE z[c + k] = y[k]
  <2>1. PICK j \in J : RankIn(j, J) = k /\ y[k] = b[j]
    BY <1>19
  <2>2. n + j \in K /\ RankIn(n + j, K) = c + k
    BY <1>5, <1>6, <1>14, <2>1
  <2>3. t[n + j] = b[j]
    BY <1>2, <1>4
  <2> QED BY <1>20, <2>1, <2>2, <2>3
<1>23. z = x \o y
  <2>1. PICK w : w = x \o y
    OBVIOUS
  <2>2. /\ w \in Seq(S) /\ Len(w) = c + d
        /\ \A i \in 1 .. c + d : w[i] = IF i <= c THEN x[i] ELSE y[i - c]
    <3>1. /\ x \o y \in Seq(S) /\ Len(x \o y) = Len(x) + Len(y)
          /\ \A i \in 1 .. Len(x) + Len(y) :
               (x \o y)[i] = IF i <= Len(x) THEN x[i] ELSE y[i - Len(x)]
      BY <1>18, <1>19, ConcatProperties, ZenonT(40)
    <3> QED BY <1>18, <1>19, <2>1, <3>1
  <2>3. ASSUME NEW i \in 1 .. c + d PROVE z[i] = w[i]
    <3>1. CASE i <= c
      BY <1>21, <2>2, <3>1
    <3>2. CASE ~(i <= c)
      <4>1. i - c \in 1 .. d /\ c + (i - c) = i
        BY <3>2
      <4>2. z[c + (i - c)] = y[i - c]
        BY <1>22, <4>1
      <4> QED BY <2>2, <3>2, <4>1, <4>2
    <3> QED BY <3>1, <3>2
  <2> QED BY <1>20, <2>1, <2>2, <2>3
<1> QED BY <1>1, <1>3, <1>5, <1>6, <1>15, <1>16, <1>17, <1>23 DEF Joins

=============================================================================
