-------------------------- MODULE DesktopViewProofs --------------------------
(***************************************************************************)
(* Theorems about MCDesktop: the desktop panel's view of its sessions and  *)
(* its saved layouts, for any sessions, presets and files.                 *)
(***************************************************************************)
EXTENDS MCDesktop, SequenceTheorems, FiniteSetTheorems, FunctionTheorems, TLAPS

----------------------------------------------------------------------------
(* Places in order *)

Preceding(K, R, i) == {j \in K : <<j, i>> \in R}
Below(K, i) == {j \in K : j < i}

\* In a finite set with a strict total order, a number before any element, and an element after
\* any number below the cardinality.
LEMMA Ranks ==
    ASSUME NEW K, IsFiniteSet(K), NEW R,
           \A i \in K : <<i, i>> \notin R,
           \A i, j, k \in K : <<i, j>> \in R /\ <<j, k>> \in R => <<i, k>> \in R,
           \A i, j \in K : i # j => <<i, j>> \in R \/ <<j, i>> \in R
    PROVE  /\ Cardinality(K) \in Nat
           /\ \A k \in 1..Cardinality(K) : \E i \in K : Cardinality(Preceding(K, R, i)) = k - 1
           /\ \A i \in K : Cardinality(Preceding(K, R, i)) \in 0..(Cardinality(K) - 1)
           /\ \A i, j \in K : <<i, j>> \in R =>
                Cardinality(Preceding(K, R, i)) < Cardinality(Preceding(K, R, j))
<1> DEFINE n == Cardinality(K)
           before(i) == Preceding(K, R, i)
           rank == [i \in K |-> Cardinality(before(i)) + 1]
<1>1. n \in Nat BY FS_CardinalityType
<1>2. \A i, j \in K : j \in before(i) <=> <<j, i>> \in R BY DEF Preceding
<1>3. \A i \in K : before(i) \in SUBSET K BY DEF Preceding
<1> HIDE DEF before
<1>4. ASSUME NEW i \in K PROVE IsFiniteSet(before(i)) /\ Cardinality(before(i)) \in 0..(n - 1)
  <2>1. before(i) \in SUBSET K /\ before(i) # K BY <1>2, <1>3
  <2>2. /\ IsFiniteSet(before(i)) /\ Cardinality(before(i)) <= n
        /\ Cardinality(before(i)) # n
    BY <2>1, FS_Subset
  <2>3. Cardinality(before(i)) \in Nat BY <2>2, FS_CardinalityType
  <2>4. QED BY <1>1, <2>2, <2>3
<1>5. ASSUME NEW i \in K, NEW j \in K, <<i, j>> \in R
      PROVE  Cardinality(before(i)) < Cardinality(before(j))
  <2>1. before(i) \in SUBSET before(j)
    <3>1. \A k \in K : <<k, i>> \in R => <<k, j>> \in R BY <1>5
    <3>2. QED BY <1>2, <1>3, <3>1
  <2>2. i \in before(j) /\ i \notin before(i) BY <1>2, <1>5
  <2>3. /\ Cardinality(before(i)) <= Cardinality(before(j))
        /\ Cardinality(before(i)) # Cardinality(before(j))
    BY <1>4, <2>1, <2>2, FS_Subset
  <2>4. QED BY <1>1, <1>4, <2>3
<1>6. rank \in [K -> 1..n] /\ \A i \in K : rank[i] = Cardinality(before(i)) + 1 BY <1>1, <1>4
<1> HIDE DEF rank
<1>7. ASSUME NEW i \in K, NEW j \in K, rank[i] = rank[j] PROVE i = j
  <2>1. Cardinality(before(i)) = Cardinality(before(j)) BY <1>1, <1>4, <1>6, <1>7
  <2>2. ~(<<i, j>> \in R) /\ ~(<<j, i>> \in R) BY <1>1, <1>4, <1>5, <2>1
  <2>3. QED BY <2>2
<1>8. rank \in Injection(K, 1..n) BY <1>6, <1>7, Fun_IsInj
<1>9. IsFiniteSet(1..n) /\ Cardinality(1..n) = n BY <1>1, FS_Interval
<1>10. rank \in Surjection(K, 1..n) BY <1>8, <1>9, FS_Injection
<1>11. \A k \in 1..n : \E i \in K : rank[i] = k BY <1>10, Fun_SurjectionProperties
<1>12. \A k \in 1..n : \E i \in K : Cardinality(before(i)) = k - 1
  <2> TAKE k \in 1..n
  <2>1. PICK i \in K : rank[i] = k BY <1>11
  <2>2. QED BY <1>1, <1>4, <1>6, <2>1
<1>13. QED BY <1>1, <1>4, <1>5, <1>12 DEF before

\* Some numbers in their order: how many are before each.
LEMMA Counts ==
    ASSUME NEW K \in SUBSET Int, IsFiniteSet(K), NEW count,
           \A i \in K : count[i] = Cardinality(Below(K, i))
    PROVE  /\ Cardinality(K) \in Nat
           /\ \A k \in 1..Cardinality(K) : \E i \in K : count[i] = k - 1
           /\ \A i \in K : count[i] \in 0..(Cardinality(K) - 1)
           /\ \A i, j \in K : i < j => count[i] < count[j]
<1> DEFINE R == {p \in K \X K : p[1] < p[2]}
<1>1. \A i, j \in K : <<i, j>> \in R <=> i < j OBVIOUS
<1> HIDE DEF R
<1>2. /\ \A i \in K : <<i, i>> \notin R
      /\ \A i, j, k \in K : <<i, j>> \in R /\ <<j, k>> \in R => <<i, k>> \in R
      /\ \A i, j \in K : i # j => <<i, j>> \in R \/ <<j, i>> \in R
  BY <1>1
<1>3. ASSUME NEW i \in K PROVE Cardinality(Preceding(K, R, i)) = count[i]
  <2>1. Preceding(K, R, i) = Below(K, i) BY <1>1 DEF Preceding, Below
  <2>2. QED BY <2>1
<1>4. /\ Cardinality(K) \in Nat
      /\ \A k \in 1..Cardinality(K) : \E i \in K : Cardinality(Preceding(K, R, i)) = k - 1
      /\ \A i \in K : Cardinality(Preceding(K, R, i)) \in 0..(Cardinality(K) - 1)
      /\ \A i, j \in K : <<i, j>> \in R =>
           Cardinality(Preceding(K, R, i)) < Cardinality(Preceding(K, R, j))
  BY <1>2, Ranks
<1>5. QED BY <1>1, <1>3, <1>4

\* The place of a number is the number of those before it.
LEMMA NthInOrder ==
    ASSUME NEW K \in SUBSET Int, IsFiniteSet(K), NEW count, NEW nth,
           \A i \in K : count[i] = Cardinality(Below(K, i)),
           \A k \in 1..Cardinality(K) :
               (\E i \in K : count[i] = k - 1) => nth[k] \in K /\ count[nth[k]] = k - 1
    PROVE  /\ Cardinality(K) \in Nat
           /\ \A k \in 1..Cardinality(K) : nth[k] \in K
           /\ \A j, k \in 1..Cardinality(K) : j < k => nth[j] < nth[k]
           /\ \A i \in K : \E k \in 1..Cardinality(K) : nth[k] = i
<1> DEFINE n == Cardinality(K)
<1>1. /\ n \in Nat
      /\ \A k \in 1..n : \E i \in K : count[i] = k - 1
      /\ \A i \in K : count[i] \in 0..(n - 1)
      /\ \A i, j \in K : i < j => count[i] < count[j]
  BY Counts
<1>2. \A k \in 1..n : nth[k] \in K /\ count[nth[k]] = k - 1 BY <1>1
<1> HIDE DEF n
<1>3. ASSUME NEW i \in K, NEW j \in K, count[i] = count[j] PROVE i = j
  <2>1. count[i] \in Int /\ ~(i < j) /\ ~(j < i) BY <1>1, <1>3
  <2>2. i \in Int /\ j \in Int OBVIOUS
  <2>3. QED BY <2>1, <2>2
<1>4. \A i \in K : \E k \in 1..n : nth[k] = i
  <2> TAKE i \in K
  <2> DEFINE k == count[i] + 1
  <2>1. k \in 1..n /\ k - 1 = count[i] BY <1>1
  <2>2. nth[k] \in K /\ count[nth[k]] = count[i] BY <1>2, <2>1
  <2>3. QED BY <1>3, <2>1, <2>2
<1>5. ASSUME NEW j \in 1..n, NEW k \in 1..n, j < k PROVE nth[j] < nth[k]
  <2>1. nth[j] \in K /\ nth[k] \in K /\ count[nth[j]] = j - 1 /\ count[nth[k]] = k - 1 BY <1>2
  <2>2. j \in Int /\ k \in Int BY <1>1
  <2>3. ~(nth[k] < nth[j]) /\ nth[j] # nth[k]
    <3>1. count[nth[j]] < count[nth[k]] BY <1>5, <2>1, <2>2
    <3>2. count[nth[j]] \in Int /\ count[nth[k]] \in Int BY <1>1, <2>1
    <3>3. nth[k] < nth[j] => count[nth[k]] < count[nth[j]] BY <1>1, <2>1
    <3>4. QED BY <3>1, <3>2, <3>3
  <2>4. nth[j] \in Int /\ nth[k] \in Int BY <2>1
  <2>5. QED BY <2>3, <2>4
<1>6. QED BY <1>1, <1>2, <1>4, <1>5 DEF n

LEMMA ViewCardinality == ASSUME NEW S PROVE V!Cardinality(S) = Cardinality(S)
  BY Zenon DEF V!Cardinality, Cardinality
LEMMA LayoutCardinality == ASSUME NEW S PROVE L!Cardinality(S) = Cardinality(S)
  BY Zenon DEF L!Cardinality, Cardinality

\* The elements of a sequence at some places are as many, and follow each other as there.
IsAt(t, s, K) ==
    /\ IsSeq(t) /\ Len(t) = Cardinality(K) /\ Cardinality(K) <= Len(s)
    /\ \E f \in [1..Len(t) -> K] :
         /\ \A k \in 1..Len(t) : t[k] = s[f[k]]
         /\ \A j, k \in 1..Len(t) : j < k => f[j] < f[k]
         /\ \A i \in K : \E k \in 1..Len(t) : f[k] = i

LEMMA PlacesAreFinite ==
    ASSUME NEW s, IsSeq(s), NEW K \in SUBSET DOMAIN s
    PROVE  /\ DOMAIN s = 1..Len(s) /\ Len(s) \in Nat /\ K \in SUBSET Int /\ IsFiniteSet(K)
           /\ Cardinality(K) \in Nat /\ Cardinality(K) <= Len(s)
<1>1. DOMAIN s = 1..Len(s) /\ Len(s) \in Nat BY DEF IsSeq
<1>2. IsFiniteSet(1..Len(s)) /\ Cardinality(1..Len(s)) = Len(s) BY <1>1, FS_Interval
<1>3. IsFiniteSet(K) /\ Cardinality(K) <= Len(s) BY <1>1, <1>2, FS_Subset
<1>4. Cardinality(K) \in Nat BY <1>3, FS_CardinalityType
<1>5. QED BY <1>1, <1>3, <1>4

LEMMA PickedInOrder ==
    ASSUME NEW s, IsSeq(s), NEW K \in SUBSET DOMAIN s, NEW count, NEW nth,
           \A i \in K : count[i] = Cardinality(Below(K, i)),
           \A k \in 1..Cardinality(K) :
               (\E i \in K : count[i] = k - 1) => nth[k] \in K /\ count[nth[k]] = k - 1,
           NEW t, t = [k \in 1..Cardinality(K) |-> s[nth[k]]]
    PROVE  IsAt(t, s, K)
<1>1. K \in SUBSET Int /\ IsFiniteSet(K) /\ Cardinality(K) <= Len(s) BY PlacesAreFinite
<1>2. /\ Cardinality(K) \in Nat
      /\ \A k \in 1..Cardinality(K) : nth[k] \in K
      /\ \A j, k \in 1..Cardinality(K) : j < k => nth[j] < nth[k]
      /\ \A i \in K : \E k \in 1..Cardinality(K) : nth[k] = i
  BY <1>1, NthInOrder, SMTT(40)
<1>3. IsSeq(t) /\ Len(t) = Cardinality(K) BY <1>2 DEF IsSeq
<1> DEFINE f == [k \in 1..Len(t) |-> nth[k]]
<1>4. f \in [1..Len(t) -> K] /\ \A k \in 1..Len(t) : f[k] = nth[k] BY <1>2, <1>3
<1> HIDE DEF f
<1>5. \A k \in 1..Len(t) : t[k] = s[f[k]] BY <1>3, <1>4
<1>6. \A j, k \in 1..Len(t) : j < k => f[j] < f[k] BY <1>2, <1>3, <1>4
<1>7. \A i \in K : \E k \in 1..Len(t) : f[k] = i BY <1>2, <1>3, <1>4
<1>8. QED BY <1>1, <1>3, <1>4, <1>5, <1>6, <1>7 DEF IsAt

LEMMA ViewAt ==
    ASSUME NEW s, IsSeq(s), NEW K \in SUBSET DOMAIN s
    PROVE  IsAt(V!At(s, K), s, K)
<1> DEFINE count == [i \in K |-> Cardinality(Below(K, i))]
           nth == [k \in 1..Cardinality(K) |-> CHOOSE i \in K : Cardinality(Below(K, i)) = k - 1]
           t == V!At(s, K)
<1>1. \A k : V!Nth(K, k) = CHOOSE i \in K : Cardinality(Below(K, i)) = k - 1
  BY ViewCardinality, Zenon DEF V!Nth, Below
<1>2. t = [k \in 1..Cardinality(K) |-> s[V!Nth(K, k)]] BY ViewCardinality DEF V!At
<1>3. \A i \in K : count[i] = Cardinality(Below(K, i)) OBVIOUS
<1>4. \A k \in 1..Cardinality(K) :
        (\E i \in K : count[i] = k - 1) => nth[k] \in K /\ count[nth[k]] = k - 1
  OBVIOUS
<1>5. t = [k \in 1..Cardinality(K) |-> s[nth[k]]] BY <1>1, <1>2
<1> HIDE DEF count, nth, t
<1>6. IsAt(t, s, K) BY <1>3, <1>4, <1>5, PickedInOrder
<1>7. QED BY <1>6 DEF t

LEMMA LayoutAt ==
    ASSUME NEW s, IsSeq(s), NEW K \in SUBSET DOMAIN s
    PROVE  IsAt(L!At(s, K), s, K)
<1> DEFINE count == [i \in K |-> Cardinality(Below(K, i))]
           nth == [k \in 1..Cardinality(K) |-> CHOOSE i \in K : Cardinality(Below(K, i)) = k - 1]
           t == L!At(s, K)
<1>1. \A k : L!Nth(K, k) = CHOOSE i \in K : Cardinality(Below(K, i)) = k - 1
  BY LayoutCardinality, Zenon DEF L!Nth, Below
<1>2. t = [k \in 1..Cardinality(K) |-> s[L!Nth(K, k)]] BY LayoutCardinality DEF L!At
<1>3. \A i \in K : count[i] = Cardinality(Below(K, i)) OBVIOUS
<1>4. \A k \in 1..Cardinality(K) :
        (\E i \in K : count[i] = k - 1) => nth[k] \in K /\ count[nth[k]] = k - 1
  OBVIOUS
<1>5. t = [k \in 1..Cardinality(K) |-> s[nth[k]]] BY <1>1, <1>2
<1> HIDE DEF count, nth, t
<1>6. IsAt(t, s, K) BY <1>3, <1>4, <1>5, PickedInOrder
<1>7. QED BY <1>6 DEF t

----------------------------------------------------------------------------
(* Sequences *)

Elements(s) == {s[k] : k \in DOMAIN s}

LEMMA IsSeqOfElements ==
    ASSUME NEW s, IsSeq(s), NEW S, Elements(s) \subseteq S
    PROVE  s \in Seq(S) /\ DOMAIN s = 1..Len(s) /\ Len(s) \in Nat
<1>1. DOMAIN s = 1..Len(s) /\ Len(s) \in Nat BY DEF IsSeq
<1>2. s \in [1..Len(s) -> S] BY <1>1 DEF IsSeq, Elements
<1>3. QED BY <1>1, <1>2, IsASeq

LEMMA SeqIsIsSeq ==
    ASSUME NEW S, NEW s \in Seq(S)
    PROVE  IsSeq(s)
  BY LenProperties DEF IsSeq

\* A sequence after another, an element before one, and the beginning of one.
LEMMA Joined ==
    ASSUME NEW s, NEW t, IsSeq(s), IsSeq(t)
    PROVE  /\ IsSeq(s \o t) /\ Len(s \o t) = Len(s) + Len(t)
           /\ \A k \in 1..(Len(s) + Len(t)) : (s \o t)[k] = IF k <= Len(s) THEN s[k] ELSE t[k - Len(s)]
           /\ \A k \in DOMAIN (s \o t) : (s \o t)[k] \in Elements(s) \cup Elements(t)
<1> DEFINE S == Elements(s) \cup Elements(t)
<1>1. s \in Seq(S) /\ t \in Seq(S) /\ Len(s) \in Nat /\ Len(t) \in Nat BY IsSeqOfElements
<1> HIDE DEF S
<1>2. s \o t \in Seq(S) /\ Len(s \o t) = Len(s) + Len(t) BY <1>1, ConcatProperties
<1>3. \A k \in 1..(Len(s) + Len(t)) : (s \o t)[k] = IF k <= Len(s) THEN s[k] ELSE t[k - Len(s)]
  BY <1>1, ConcatProperties
<1>4. \A k \in DOMAIN (s \o t) : (s \o t)[k] \in S BY <1>2, LenProperties, ElementOfSeq
<1>5. QED BY <1>2, <1>3, <1>4, SeqIsIsSeq DEF S

LEMMA Single ==
    ASSUME NEW x
    PROVE  IsSeq(<<x>>) /\ Len(<<x>>) = 1 /\ DOMAIN <<x>> = {1} /\ <<x>>[1] = x /\ Elements(<<x>>) = {x}
<1>1. <<x>> \in Seq({x}) /\ Len(<<x>>) = 1 /\ DOMAIN <<x>> = 1..1 /\ <<x>>[1] = x OBVIOUS
<1>2. IsSeq(<<x>>) BY <1>1, SeqIsIsSeq
<1>3. Elements(<<x>>) = {x} BY <1>1 DEF Elements
<1>4. QED BY <1>1, <1>2, <1>3

LEMMA Beginning ==
    ASSUME NEW s, IsSeq(s), NEW n \in 0..Len(s)
    PROVE  /\ IsSeq(SubSeq(s, 1, n)) /\ Len(SubSeq(s, 1, n)) = n
           /\ \A k \in 1..n : k \in DOMAIN s /\ SubSeq(s, 1, n)[k] = s[k]
<1>1. s \in Seq(Elements(s)) /\ Len(s) \in Nat /\ DOMAIN s = 1..Len(s) BY IsSeqOfElements
<1>2. n \in Int /\ 1 \in 1..(Len(s) + 1) /\ n \in 0..Len(s) BY <1>1
<1>3. SubSeq(s, 1, n) \in Seq(Elements(s)) /\ Len(SubSeq(s, 1, n)) = n BY <1>1, <1>2
<1>4. \A k \in 1..n : SubSeq(s, 1, n)[k] = s[k] BY <1>1, <1>2
<1>5. \A k \in 1..n : k \in DOMAIN s BY <1>1, <1>2
<1>6. IsSeq(SubSeq(s, 1, n)) BY <1>3, SeqIsIsSeq
<1>7. QED BY <1>3, <1>4, <1>5, <1>6

\* The least and the greatest of some places.
LEMMA Extremes ==
    ASSUME NEW K \in SUBSET Int, IsFiniteSet(K), K # {}
    PROVE  /\ \E i \in K : \A j \in K : i <= j
           /\ \E i \in K : \A j \in K : j <= i
<1> DEFINE n == Cardinality(K)
           count == [i \in K |-> Cardinality(Below(K, i))]
           nth == [k \in 1..n |-> CHOOSE i \in K : count[i] = k - 1]
<1>1. /\ \A i \in K : count[i] = Cardinality(Below(K, i))
      /\ \A k \in 1..n : (\E i \in K : count[i] = k - 1) => nth[k] \in K /\ count[nth[k]] = k - 1
  OBVIOUS
<1> HIDE DEF count, nth
<1>2. /\ n \in Nat
      /\ \A k \in 1..n : nth[k] \in K
      /\ \A j, k \in 1..n : j < k => nth[j] < nth[k]
      /\ \A i \in K : \E k \in 1..n : nth[k] = i
  BY <1>1, NthInOrder, SMTT(40)
<1> HIDE DEF n
<1>3. n >= 1 /\ 1 \in 1..n /\ n \in 1..n
  <2>1. PICK i \in K : TRUE OBVIOUS
  <2>2. PICK k \in 1..n : nth[k] = i BY <1>2
  <2>3. QED BY <1>2, <2>2
<1>4. \A k \in 1..n : nth[k] \in Int BY <1>2
<1>5. \A j \in K : nth[1] <= j /\ j <= nth[n]
  <2> TAKE j \in K
  <2>1. PICK k \in 1..n : nth[k] = j BY <1>2
  <2>2. k \in Int /\ (k = 1 \/ 1 < k) /\ (k = n \/ k < n) BY <1>2
  <2>3. QED BY <1>2, <1>3, <1>4, <2>1, <2>2
<1>6. QED BY <1>2, <1>3, <1>5

\* Three parts of the places of a sequence are as many as its elements.
AreParts(n, a, b, c) == a \cup b \cup c = 1..n /\ a \cap b = {} /\ a \cap c = {} /\ b \cap c = {}

LEMMA ThreeParts ==
    ASSUME NEW n \in Nat, NEW A1, NEW B1, NEW C1, AreParts(n, A1, B1, C1)
    PROVE  /\ Cardinality(A1) \in Nat /\ Cardinality(B1) \in Nat /\ Cardinality(C1) \in Nat
           /\ Cardinality(A1) + Cardinality(B1) + Cardinality(C1) = n
<1>1. A1 \cup B1 \cup C1 = 1..n /\ A1 \cap B1 = {} /\ A1 \cap C1 = {} /\ B1 \cap C1 = {} BY DEF AreParts
<1>2. IsFiniteSet(1..n) /\ Cardinality(1..n) = n BY FS_Interval
<1>3. IsFiniteSet(A1) /\ IsFiniteSet(B1) /\ IsFiniteSet(C1) BY <1>1, <1>2, FS_Subset
<1>4. Cardinality(A1) \in Nat /\ Cardinality(B1) \in Nat /\ Cardinality(C1) \in Nat BY <1>3, FS_CardinalityType
<1>5. Cardinality({}) = 0 BY FS_EmptySet
<1>6. IsFiniteSet(A1 \cup B1) /\ Cardinality(A1 \cup B1) = Cardinality(A1) + Cardinality(B1)
  <2>1. /\ IsFiniteSet(A1 \cup B1)
        /\ Cardinality(A1 \cup B1) = Cardinality(A1) + Cardinality(B1) - Cardinality(A1 \cap B1)
    BY <1>3, FS_Union
  <2>2. Cardinality(A1 \cap B1) = 0 BY <1>1, <1>5, Zenon
  <2>3. QED BY <1>4, <2>1, <2>2
<1>7. (A1 \cup B1) \cap C1 = {} BY <1>1
<1>8. Cardinality(1..n) = Cardinality(A1 \cup B1) + Cardinality(C1)
  <2> DEFINE D == A1 \cup B1
  <2>1. Cardinality(D \cup C1) = Cardinality(D) + Cardinality(C1) - Cardinality(D \cap C1)
    <3> HIDE DEF D
    <3>1. IsFiniteSet(D) BY <1>6 DEF D
    <3>2. QED BY <1>3, <3>1, FS_Union
  <2>2. Cardinality(D \cap C1) = 0 BY <1>5, <1>7, Zenon
  <2>3. D \cup C1 = 1..n /\ Cardinality(D) \in Nat BY <1>1, <1>4, <1>6
  <2> HIDE DEF D
  <2>4. Cardinality(D \cup C1) = Cardinality(1..n) BY <2>3, Zenon
  <2>5. Cardinality(D \cup C1) = Cardinality(D) + Cardinality(C1) BY <1>4, <2>1, <2>2, <2>3
  <2>6. QED BY <2>4, <2>5 DEF D
<1>9. QED BY <1>2, <1>4, <1>6, <1>8

----------------------------------------------------------------------------
(* The view of the sessions: its inductive invariant *)

IsForm(f) ==
    /\ f = [id |-> f.id, name |-> f.name, host |-> f.host, clone |-> f.clone]
    /\ f.id \in ViewIds \cup {NoId}

\* Sessions that can be listed: each once.
IsList(s) ==
    /\ IsSeq(s)
    /\ \A k \in DOMAIN s : IsSession(s[k])
    /\ \A j, k \in DOMAIN s : s[j].id = s[k].id => j = k

\* An import under way: what was accepted is to do, or counted as new or as updated.
IsImport(l) ==
    /\ l = [items |-> l.items, todo |-> l.todo, known |-> l.known, imported |-> l.imported, updated |-> l.updated]
    /\ IsSeq(l.items) /\ l.todo \subseteq V!Accepted(l.items)
    /\ \A item \in DOMAIN l.known : l.known[item] \in ViewIds
    /\ l.imported \in Nat /\ l.updated \in Nat
    /\ l.imported + l.updated + Cardinality(l.todo) = Cardinality(V!Accepted(l.items))

\* It waits only while there is something to do.
Waits(l) == IsImport(l) /\ l.todo # {}

AllCounted(c) == c.imported + c.updated + c.skipped + c.invalid = c.items

SessionsListed ==
    /\ IsList(listed) /\ IsPrefs(prefs) /\ IsForm(form)
    /\ form.id \in V!IdsOf(listed) \cup {NoId}
    /\ ticked \subseteq V!IdsOf(listed)
    /\ listed # <<>> => DOMAIN prefs.of \subseteq V!IdsOf(listed)

FiltersKept ==
    /\ IsSeq(filters) /\ Len(filters) <= MaxFilters
    /\ \A j, k \in DOMAIN filters : filters[j].name = filters[k].name => j = k

ImportCounted ==
    /\ loop # <<>> => Waits(loop[1])
    /\ summary # <<>> => AllCounted(summary[1])

SaveWaits == saving # <<>> => IsForm(saving[1])

ViewInv == SessionsListed /\ FiltersKept /\ ImportCounted /\ SaveWaits

LEMMA ViewInvImplies == ViewInv => V!NothingOfGoneSessions
  BY DEF ViewInv, SessionsListed, FiltersKept, IsList, V!NothingOfGoneSessions

----------------------------------------------------------------------------
(* Sessions that are listed *)

LEMMA NoSessionsAreAList == IsList(<<>>)
  BY DEF IsList, IsSeq

LEMMA EmptyFormIsForm == IsForm(V!EmptyForm)
  BY DEF IsForm, V!EmptyForm

\* The effects leave nothing that belongs to a session that is gone.
LEMMA ListedStep ==
    ASSUME NEW s, IsList(s), NEW f, IsForm(f), IsPrefs(prefs), V!Listed(s, f)
    PROVE  SessionsListed'
<1>1. listed' = s /\ ticked' = ticked \cap V!IdsOf(s) BY DEF V!Listed
<1>2. IsForm(form') /\ form'.id \in V!IdsOf(s) \cup {NoId}
  <2>1. form' = IF f.id \in V!IdsOf(s) \cup {NoId} THEN f ELSE V!EmptyForm BY DEF V!Listed
  <2>2. V!EmptyForm.id = NoId BY DEF V!EmptyForm
  <2>3. QED BY <2>1, <2>2, EmptyFormIsForm
<1>3. IsPrefs(prefs') /\ (s # <<>> => DOMAIN prefs'.of \subseteq V!IdsOf(s))
  <2>1. CASE s = <<>> BY <2>1 DEF V!Listed
  <2>2. CASE s # <<>>
    <3> DEFINE of == [i \in DOMAIN prefs.of \cap V!IdsOf(s) |-> prefs.of[i]]
    <3>1. prefs' = [prefs EXCEPT !.of = of] BY <2>2 DEF V!Listed, V!Pruned
    <3>2. prefs' = [of |-> of, collapsed |-> prefs.collapsed] BY <3>1 DEF IsPrefs
    <3>3. DOMAIN of \subseteq V!IdsOf(s) OBVIOUS
    <3> HIDE DEF of
    <3>4. QED BY <3>2, <3>3 DEF IsPrefs
  <2>3. QED BY <2>1, <2>2
<1>4. V!IdsOf(listed)' = V!IdsOf(s) BY <1>1 DEF V!IdsOf
<1>5. QED BY <1>1, <1>2, <1>3, <1>4 DEF SessionsListed, IsPrefs, IsForm, IsList, IsSeq, IsSession

LEMMA WithoutIsList ==
    ASSUME IsList(listed), NEW K \in SUBSET DOMAIN listed
    PROVE  IsList(V!At(listed, K))
<1> DEFINE t == V!At(listed, K)
<1>1. IsSeq(listed) BY DEF IsList
<1>2. IsAt(t, listed, K) BY <1>1, ViewAt
<1> HIDE DEF t
<1>3. PICK f \in [1..Len(t) -> K] :
        /\ \A k \in 1..Len(t) : t[k] = listed[f[k]]
        /\ \A j, k \in 1..Len(t) : j < k => f[j] < f[k]
  BY <1>2 DEF IsAt
<1>4. IsSeq(t) /\ Len(t) \in Nat /\ DOMAIN t = 1..Len(t) BY <1>2 DEF IsAt, IsSeq
<1>5. \A k \in DOMAIN t : f[k] \in DOMAIN listed /\ f[k] \in Int /\ t[k] = listed[f[k]]
  <2>1. DOMAIN listed \subseteq Int BY <1>1 DEF IsSeq
  <2>2. QED BY <1>3, <1>4, <2>1
<1>6. \A k \in DOMAIN t : IsSession(t[k]) BY <1>5 DEF IsList
<1>7. ASSUME NEW j \in DOMAIN t, NEW k \in DOMAIN t, t[j].id = t[k].id PROVE j = k
  <2>1. f[j] = f[k] BY <1>5, <1>7 DEF IsList
  <2>2. ~(j < k) /\ ~(k < j) BY <1>3, <1>4, <1>5, <2>1
  <2>3. QED BY <1>4, <2>2
<1>8. IsList(t) BY <1>4, <1>6, <1>7 DEF IsList
<1>9. QED BY <1>8 DEF t

LEMMA DiagnosedIsList ==
    ASSUME IsList(listed), NEW i, NEW d
    PROVE  IsList(V!Diagnosed(i, d))
<1> DEFINE t == V!Diagnosed(i, d)
<1>1. Len(listed) \in Nat /\ DOMAIN listed = 1..Len(listed) BY DEF IsList, IsSeq
<1>2. t = [k \in DOMAIN listed |-> IF listed[k].id = i THEN [listed[k] EXCEPT !.diag = d] ELSE listed[k]]
  BY DEF V!Diagnosed
<1> HIDE DEF t
<1>3. IsSeq(t) /\ DOMAIN t = DOMAIN listed BY <1>1, <1>2 DEF IsSeq
<1>4. ASSUME NEW k \in DOMAIN listed PROVE IsSession(t[k]) /\ t[k].id = listed[k].id
  <2>1. IsSession(listed[k]) BY DEF IsList
  <2>2. CASE listed[k].id = i
    <3>1. t[k] = [listed[k] EXCEPT !.diag = d] BY <1>2, <2>2
    <3>2. [listed[k] EXCEPT !.diag = d] = [id |-> listed[k].id, name |-> listed[k].name, host |-> listed[k].host, diag |-> d]
      BY <2>1 DEF IsSession
    <3>3. QED BY <2>1, <3>1, <3>2 DEF IsSession
  <2>3. CASE listed[k].id # i BY <1>2, <2>1, <2>3
  <2>4. QED BY <2>2, <2>3
<1>5. \A j, k \in DOMAIN t : t[j].id = t[k].id => j = k BY <1>3, <1>4 DEF IsList
<1>6. IsList(t) BY <1>3, <1>4, <1>5 DEF IsList
<1>7. QED BY <1>6 DEF t

\* A session is put over the one that has its id, or before all others.
LEMMA UpsertIsList ==
    ASSUME IsList(listed), NEW s, IsSession(s)
    PROVE  LET t == V!Upsert(s) IN
           /\ IsList(t) /\ Len(t) \in {Len(listed), Len(listed) + 1} /\ t # <<>>
           /\ V!IdsOf(listed) \subseteq V!IdsOf(t)
           /\ \A k \in DOMAIN listed : listed[k].id = s.id \/ t[k + (Len(t) - Len(listed))] = listed[k]
<1> DEFINE t == V!Upsert(s) n == Len(listed)
<1>1. n \in Nat /\ DOMAIN listed = 1..n /\ IsSeq(listed) BY DEF IsList, IsSeq
<1>2. CASE s.id \in V!IdsOf(listed)
  <2>1. t = [k \in DOMAIN listed |-> IF listed[k].id = s.id THEN s ELSE listed[k]] BY <1>2 DEF V!Upsert
  <2> HIDE DEF t
  <2>2. IsSeq(t) /\ DOMAIN t = DOMAIN listed /\ Len(t) = n BY <1>1, <2>1 DEF IsSeq
  <2>3. \A k \in DOMAIN listed : IsSession(t[k]) /\ t[k].id = listed[k].id BY <2>1 DEF IsList
  <2>4. IsList(t) BY <2>2, <2>3 DEF IsList
  <2>5. V!IdsOf(listed) \subseteq V!IdsOf(t) BY <2>2, <2>3 DEF V!IdsOf
  <2>6. \A k \in DOMAIN listed : listed[k].id = s.id \/ t[k + (Len(t) - n)] = listed[k] BY <1>1, <2>1, <2>2
  <2>7. t # <<>>
    <3>1. PICK k \in DOMAIN listed : s.id = listed[k].id BY <1>2 DEF V!IdsOf
    <3>2. QED BY <2>2, <3>1
  <2>8. QED BY <2>2, <2>4, <2>5, <2>6, <2>7 DEF t
<1>3. CASE s.id \notin V!IdsOf(listed)
  <2>1. t = <<s>> \o listed BY <1>3 DEF V!Upsert
  <2> HIDE DEF t
  <2>2. IsSeq(<<s>>) /\ Len(<<s>>) = 1 /\ <<s>>[1] = s BY Single
  <2>3. /\ IsSeq(t) /\ Len(t) = n + 1
        /\ \A k \in 1..(n + 1) : t[k] = IF k <= 1 THEN <<s>>[k] ELSE listed[k - 1]
    BY <1>1, <2>1, <2>2, Joined
  <2>4. DOMAIN t = 1..(n + 1) BY <2>3 DEF IsSeq
  <2>5. t[1] = s /\ \A k \in 1..n : t[k + 1] = listed[k] BY <1>1, <2>2, <2>3
  <2>6. \A k \in DOMAIN t : k = 1 \/ (k - 1 \in 1..n /\ t[k] = listed[k - 1]) BY <1>1, <2>3, <2>4
  <2>7. \A k \in 1..n : listed[k].id # s.id BY <1>1, <1>3 DEF V!IdsOf
  <2>8. \A k \in DOMAIN t : IsSession(t[k]) BY <1>1, <2>5, <2>6 DEF IsList
  <2>9. ASSUME NEW j \in DOMAIN t, NEW k \in DOMAIN t, t[j].id = t[k].id PROVE j = k
    <3>1. j \in Int /\ k \in Int BY <1>1, <2>4
    <3>2. CASE j = 1 \/ k = 1 BY <2>5, <2>6, <2>7, <2>9, <3>2
    <3>3. CASE j # 1 /\ k # 1
      <4>1. j - 1 = k - 1 BY <1>1, <2>6, <2>9, <3>3 DEF IsList
      <4>2. QED BY <3>1, <4>1
    <3>4. QED BY <3>2, <3>3
  <2>10. IsList(t) BY <2>3, <2>8, <2>9 DEF IsList
  <2>11. V!IdsOf(listed) \subseteq V!IdsOf(t)
    <3>1. \A k \in 1..n : k + 1 \in DOMAIN t /\ t[k + 1].id = listed[k].id BY <1>1, <2>4, <2>5
    <3>2. QED BY <1>1, <3>1 DEF V!IdsOf
  <2>12. \A k \in DOMAIN listed : t[k + (Len(t) - n)] = listed[k] BY <1>1, <2>3, <2>5
  <2>13. t # <<>> BY <1>1, <2>3
  <2>14. QED BY <2>3, <2>10, <2>11, <2>12, <2>13 DEF t
<1>4. QED BY <1>2, <1>3

\* What touches only the list and what refers to it.
LEMMA RelistStep ==
    ASSUME ViewInv, NEW s, IsList(s), V!Listed(s, form), UNCHANGED <<filters, saving, loop, summary>>
    PROVE  ViewInv'
<1>1. SessionsListed' BY ListedStep DEF ViewInv, SessionsListed
<1>2. FiltersKept' BY DEF ViewInv, FiltersKept, IsSeq
<1>3. ImportCounted' BY DEF ViewInv, ImportCounted, Waits, IsImport, AllCounted, IsSeq
<1>4. SaveWaits' BY DEF ViewInv, SaveWaits, IsForm
<1>5. QED BY <1>1, <1>2, <1>3, <1>4 DEF ViewInv

LEMMA ControllerStep ==
    ASSUME ViewInv, V!Controller
    PROVE  ViewInv'
<1>1. IsList(listed) BY DEF ViewInv, SessionsListed
<1>2. CASE V!Loaded
  <2>1. PICK s \in Lists : V!Listed(s, form) BY <1>2 DEF V!Loaded
  <2>2. IsList(s) BY DesktopAssumption DEF DesktopAssumption, IsList
  <2>3. UNCHANGED <<filters, saving, loop, summary>> BY <1>2 DEF V!Loaded, V!panel
  <2>4. QED BY <2>1, <2>2, <2>3, RelistStep
<1>3. CASE V!Stopped("info") \/ V!Stopped("error")
  <2>1. PICK i, d : V!Listed(V!Diagnosed(i, d), form) BY <1>3 DEF V!Stopped
  <2>2. UNCHANGED <<filters, saving, loop, summary>> BY <1>3 DEF V!Stopped, V!panel
  <2>3. QED BY <1>1, <2>1, <2>2, DiagnosedIsList, RelistStep
<1>4. CASE \E i \in V!IdsOf(listed) : V!Deleted(i)
  <2>1. PICK i : V!Deleted(i) BY <1>4
  <2> DEFINE K == {k \in DOMAIN listed : listed[k].id # i}
  <2>2. V!Listed(V!At(listed, K), form) /\ UNCHANGED <<filters, saving, loop, summary>> BY <2>1 DEF V!Deleted, V!panel
  <2>3. K \in SUBSET DOMAIN listed OBVIOUS
  <2> HIDE DEF K
  <2>4. IsList(V!At(listed, K)) BY <1>1, <2>3, WithoutIsList
  <2>5. QED BY <2>2, <2>4, RelistStep
<1>5. CASE \E i \in V!IdsOf(listed) : \E d \in {V!Fresh, V!Broken} : V!Checked(i, d) \/ V!Ran(i, d)
  <2>1. PICK i, d : V!Checked(i, d) \/ V!Ran(i, d) BY <1>5
  <2>2. V!Listed(V!Diagnosed(i, d), form) BY <2>1 DEF V!Checked, V!Ran
  <2>3. UNCHANGED <<filters, saving, loop, summary>> BY <2>1 DEF V!Checked, V!Ran, V!panel
  <2>4. QED BY <1>1, <2>2, <2>3, DiagnosedIsList, RelistStep
<1>6. CASE \E i \in V!IdsOf(listed) : V!KeyDeleted(i)
  <2>1. PICK i : V!KeyDeleted(i) BY <1>6
  <2>2. V!Listed(V!Diagnosed(i, V!Fresh), form) BY <2>1 DEF V!KeyDeleted
  <2>3. UNCHANGED <<filters, saving, loop, summary>> BY <2>1 DEF V!KeyDeleted, V!panel
  <2>4. QED BY <1>1, <2>2, <2>3, DiagnosedIsList, RelistStep
<1>7. CASE \E s \in Lists : \E k \in DOMAIN s : V!RuntimeRead(s[k].id, V!Broken)
  <2>1. UNCHANGED <<listed, prefs, form, ticked, filters, saving, loop, summary>> BY <1>7 DEF V!RuntimeRead, V!panel
  <2>2. SessionsListed' BY <2>1 DEF ViewInv, SessionsListed, IsList, IsSeq, IsSession, IsPrefs, IsForm, V!IdsOf
  <2>3. FiltersKept' /\ ImportCounted' /\ SaveWaits'
    BY <2>1 DEF ViewInv, FiltersKept, ImportCounted, SaveWaits, Waits, IsImport, IsForm, AllCounted, IsSeq
  <2>4. QED BY <2>2, <2>3 DEF ViewInv
<1>8. QED BY <1>2, <1>3, <1>4, <1>5, <1>6, <1>7 DEF V!Controller

\* A save that the desktop accepts, or does not.
LEMMA SavedStep ==
    ASSUME ViewInv, NEW input, input.id \in ViewIds \cup {NoId}, NEW f, IsForm(f), V!SavedInput(input, f) \/ V!NotSaved
    PROVE  /\ SessionsListed'
           /\ \E i \in ViewIds : \A k \in DOMAIN listed :
                 listed[k].id = i \/ listed'[k + (Len(listed') - Len(listed))] = listed[k]
           /\ Len(listed') \in {Len(listed), Len(listed) + 1}
           /\ ticked' = ticked
           /\ \A k \in DOMAIN listed : V!Pref(prefs', listed[k].id) = V!Pref(prefs, listed[k].id)
<1>1. IsList(listed) /\ IsPrefs(prefs) /\ IsForm(form) /\ ticked \subseteq V!IdsOf(listed)
  BY DEF ViewInv, SessionsListed
<1>2. Len(listed) \in Nat /\ DOMAIN listed = 1..Len(listed) BY <1>1 DEF IsList, IsSeq
<1>3. CASE V!SavedInput(input, f)
  <2>1. PICK i \in IF input.id = NoId THEN ViewIds \ given ELSE {input.id} :
          V!Listed(V!Upsert([id |-> i, name |-> input.name, host |-> input.host, diag |-> V!Fresh]), f)
    BY <1>3 DEF V!SavedInput
  <2> DEFINE s == [id |-> i, name |-> input.name, host |-> input.host, diag |-> V!Fresh]
             t == V!Upsert(s)
  <2>2. IsSession(s) /\ s.id = i /\ i \in ViewIds BY <2>1 DEF IsSession
  <2> HIDE DEF s
  <2>3. /\ IsList(t) /\ Len(t) \in {Len(listed), Len(listed) + 1} /\ t # <<>>
        /\ V!IdsOf(listed) \subseteq V!IdsOf(t)
        /\ \A k \in DOMAIN listed : listed[k].id = i \/ t[k + (Len(t) - Len(listed))] = listed[k]
    BY <1>1, <2>2, UpsertIsList
  <2>4. V!Listed(t, f) BY <2>1 DEF s
  <2> HIDE DEF t
  <2>5. SessionsListed' BY <1>1, <2>3, <2>4, ListedStep
  <2>6. listed' = t /\ ticked' = ticked BY <1>1, <2>3, <2>4 DEF V!Listed
  <2>7. \A k \in DOMAIN listed : V!Pref(prefs', listed[k].id) = V!Pref(prefs, listed[k].id)
    <3> DEFINE of == [j \in DOMAIN prefs.of \cap V!IdsOf(t) |-> prefs.of[j]]
    <3>1. prefs' = [prefs EXCEPT !.of = of] BY <2>3, <2>4 DEF V!Listed, V!Pruned
    <3>2. prefs'.of = of BY <1>1, <3>1 DEF IsPrefs
    <3>3. \A k \in DOMAIN listed : listed[k].id \in V!IdsOf(t) BY <2>3 DEF V!IdsOf
    <3>4. QED BY <3>2, <3>3 DEF V!Pref
  <2>8. QED BY <2>2, <2>3, <2>5, <2>6, <2>7
<1>4. CASE V!NotSaved
  <2>1. UNCHANGED <<listed, form, prefs, ticked>> BY <1>4 DEF V!NotSaved
  <2>2. SessionsListed'
    BY <2>1 DEF ViewInv, SessionsListed, IsList, IsSeq, IsSession, IsPrefs, IsForm, V!IdsOf
  <2>3. v1 \in ViewIds BY DEF ViewIds
  <2>4. \A k \in DOMAIN listed : listed'[k + (Len(listed') - Len(listed))] = listed[k] BY <1>2, <2>1
  <2>5. QED BY <2>1, <2>2, <2>3, <2>4 DEF V!Pref
<1>5. QED BY <1>3, <1>4

LEMMA SaveReturnsStep ==
    ASSUME ViewInv, V!SaveReturns
    PROVE  ViewInv' /\ V!SavesTouchOne
<1>1. IsForm(saving[1]) BY DEF ViewInv, SaveWaits, V!SaveReturns
<1>2. V!SavedInput(saving[1], V!EmptyForm) \/ V!NotSaved BY DEF V!SaveReturns
<1>3. saving[1].id \in ViewIds \cup {NoId} BY <1>1 DEF IsForm
<1>4. /\ SessionsListed'
      /\ \E i \in ViewIds : \A k \in DOMAIN listed :
            listed[k].id = i \/ listed'[k + (Len(listed') - Len(listed))] = listed[k]
      /\ Len(listed') \in {Len(listed), Len(listed) + 1}
      /\ ticked' = ticked
      /\ \A k \in DOMAIN listed : V!Pref(prefs', listed[k].id) = V!Pref(prefs, listed[k].id)
  BY <1>2, <1>3, EmptyFormIsForm, SavedStep
<1>5. saving' = <<>> /\ UNCHANGED <<filters, loop, summary>> BY DEF V!SaveReturns
<1>6. FiltersKept' /\ ImportCounted' /\ SaveWaits'
  BY <1>5 DEF ViewInv, FiltersKept, ImportCounted, SaveWaits, Waits, IsImport, AllCounted, IsSeq
<1>7. QED BY <1>4, <1>6 DEF ViewInv, V!SavesTouchOne

----------------------------------------------------------------------------
(* Imports *)

\* Of every item of a file it is known whether it was accepted, is invalid or was skipped.
LEMMA ItemsAreCounted ==
    ASSUME NEW items, IsSeq(items)
    PROVE  /\ IsFiniteSet(V!Accepted(items))
           /\ Cardinality(V!Accepted(items)) \in Nat
           /\ Cardinality(V!Invalid(items)) \in Nat /\ Cardinality(V!Skipped(items)) \in Nat
           /\ Cardinality(V!Accepted(items)) + Cardinality(V!Invalid(items)) + Cardinality(V!Skipped(items)) = Len(items)
<1> DEFINE n == Len(items) a == V!Accepted(items) b == V!Invalid(items) c == V!Skipped(items)
<1>1. n \in Nat /\ DOMAIN items = 1..n BY DEF IsSeq
<1>2. /\ a = {k \in V!Firsts(items) : ~V!Full(items, k)}
      /\ b = {k \in DOMAIN items : ~V!Accepts(items[k]) /\ ~V!Full(items, k)}
      /\ c = {k \in DOMAIN items : V!Full(items, k) \/ (V!Accepts(items[k]) /\ k \notin V!Firsts(items))}
  BY DEF V!Accepted, V!Invalid, V!Skipped
<1>3. \A k \in V!Firsts(items) : k \in DOMAIN items /\ V!Accepts(items[k]) BY DEF V!Firsts
<1> HIDE DEF n, a, b, c
<1>4. a \cup b \cup c = DOMAIN items BY <1>2, <1>3
<1>5. a \cap b = {} /\ a \cap c = {} /\ b \cap c = {} BY <1>2, <1>3
<1>6. AreParts(n, a, b, c) BY <1>1, <1>4, <1>5 DEF AreParts
<1>7. /\ Cardinality(a) \in Nat /\ Cardinality(b) \in Nat /\ Cardinality(c) \in Nat
      /\ Cardinality(a) + Cardinality(b) + Cardinality(c) = n
  BY <1>1, <1>6, ThreeParts
<1>8. a \in SUBSET DOMAIN items BY <1>4
<1>9. IsFiniteSet(a) BY <1>8, PlacesAreFinite
<1>10. QED BY <1>7, <1>9 DEF n, a, b, c

\* The loop goes on, or ends with its summary.
LEMMA GoOnStep ==
    ASSUME ImportCounted, NEW l, IsImport(l), V!GoOn(l)
    PROVE  ImportCounted'
<1> DEFINE a == Cardinality(V!Accepted(l.items)) b == Cardinality(V!Invalid(l.items)) c == Cardinality(V!Skipped(l.items))
<1>1. a \in Nat /\ b \in Nat /\ c \in Nat /\ a + b + c = Len(l.items) BY ItemsAreCounted DEF IsImport
<1>2. V!Counted(l) = [items |-> Len(l.items), imported |-> l.imported, updated |-> l.updated, skipped |-> c, invalid |-> b]
  BY ViewCardinality DEF V!Counted
<1>3. l.imported \in Nat /\ l.updated \in Nat /\ l.imported + l.updated + Cardinality(l.todo) = a BY DEF IsImport
<1> HIDE DEF a, b, c
<1>4. CASE l.todo = {}
  <2>1. loop' = <<>> /\ summary' = <<V!Counted(l)>> BY <1>4 DEF V!GoOn
  <2>2. Cardinality(l.todo) = 0 BY <1>4, FS_EmptySet, Zenon
  <2>3. AllCounted(V!Counted(l)) BY <1>1, <1>2, <1>3, <2>2 DEF AllCounted
  <2>4. QED BY <2>1, <2>3 DEF ImportCounted, AllCounted
<1>5. CASE l.todo # {}
  <2>1. loop' = <<l>> /\ summary' = summary BY <1>5 DEF V!GoOn
  <2>2. Waits(loop'[1]) BY <1>5, <2>1 DEF Waits
  <2>3. summary' # <<>> => AllCounted(summary'[1]) BY <2>1 DEF ImportCounted
  <2>4. QED BY <2>2, <2>3 DEF ImportCounted, Waits, IsImport, AllCounted, IsSeq
<1>6. QED BY <1>4, <1>5

\* An endpoint is known by a session that is listed.
LEMMA KnownAreListed ==
    ASSUME IsList(listed)
    PROVE  \A item \in DOMAIN V!Known : V!Known[item] \in ViewIds
<1> SUFFICES ASSUME NEW item \in DOMAIN V!Known PROVE V!Known[item] \in ViewIds
  OBVIOUS
<1> DEFINE K == {k \in DOMAIN listed : V!ItemOf(listed[k]) = item}
<1>1. IsSeq(listed) /\ K \in SUBSET DOMAIN listed BY DEF IsList
<1>2. item \in {V!ItemOf(listed[k]) : k \in DOMAIN listed} BY DEF V!Known
<1>3. K # {} BY <1>2
<1>4. K \in SUBSET Int /\ IsFiniteSet(K) BY <1>1, PlacesAreFinite
<1> HIDE DEF K
<1>5. \E i \in K : \A j \in K : j <= i BY <1>3, <1>4, Extremes
<1>6. \E k \in DOMAIN listed : V!ItemOf(listed[k]) = item /\ \A j \in DOMAIN listed : V!ItemOf(listed[j]) = item => j <= k
  BY <1>5 DEF K
<1> DEFINE k == CHOOSE k \in DOMAIN listed : V!ItemOf(listed[k]) = item /\ \A j \in DOMAIN listed : V!ItemOf(listed[j]) = item => j <= k
<1>7. k \in DOMAIN listed BY <1>6
<1>8. V!Known[item] = listed[k].id BY <1>2 DEF V!Known
<1> HIDE DEF k
<1>9. QED BY <1>7, <1>8 DEF IsList, IsSession

LEMMA ImportSessionsStep ==
    ASSUME ViewInv, NEW items, IsSeq(items), V!ImportSessions(items)
    PROVE  ViewInv'
<1> DEFINE l == [items |-> items, todo |-> V!Accepted(items), known |-> V!Known, imported |-> 0, updated |-> 0]
<1>1. V!GoOn(l) /\ UNCHANGED <<listed, prefs, form, ticked, filters, saving>> BY DEF V!ImportSessions
<1>2. Cardinality(V!Accepted(items)) \in Nat BY ItemsAreCounted
<1>3. \A item \in DOMAIN V!Known : V!Known[item] \in ViewIds BY KnownAreListed DEF ViewInv, SessionsListed
<1>4. IsImport(l) BY <1>2, <1>3 DEF IsImport
<1> HIDE DEF l
<1>5. ImportCounted' BY <1>1, <1>4, GoOnStep DEF ViewInv
<1>6. SessionsListed' /\ FiltersKept' /\ SaveWaits'
  BY <1>1 DEF ViewInv, SessionsListed, FiltersKept, SaveWaits, IsList, IsSeq, IsSession, IsPrefs, IsForm, V!IdsOf
<1>7. QED BY <1>5, <1>6 DEF ViewInv

LEMMA ImportReturnsStep ==
    ASSUME ViewInv, V!ImportReturns
    PROVE  ViewInv' /\ V!SavesTouchOne
<1> DEFINE l    == loop[1]
           k    == CHOOSE j \in l.todo : \A m \in l.todo : j <= m
           item == V!ItemOf(l.items[k])
           old  == item \in DOMAIN l.known
           left == [l EXCEPT !.todo = @ \ {k}]
           next == IF old THEN [left EXCEPT !.updated = @ + 1] ELSE [left EXCEPT !.imported = @ + 1]
           input == [id |-> IF old THEN l.known[item] ELSE NoId, name |-> item.name, host |-> item.host]
<1>1. /\ (V!SavedInput(input, form) /\ V!GoOn(next)) \/ (V!NotSaved /\ loop' = <<>> /\ UNCHANGED summary)
      /\ UNCHANGED <<filters, saving>>
  BY DEF V!ImportReturns
<1>2. IsImport(l) /\ l.todo # {} BY DEF ViewInv, ImportCounted, Waits, V!ImportReturns
<1>3. input.id \in ViewIds \cup {NoId} BY <1>2 DEF IsImport
<1>4. IsForm(form) BY DEF ViewInv, SessionsListed
<1>5. V!SavedInput(input, form) \/ V!NotSaved BY <1>1
<1> HIDE DEF input
<1>6. /\ SessionsListed'
      /\ \E i \in ViewIds : \A j \in DOMAIN listed :
            listed[j].id = i \/ listed'[j + (Len(listed') - Len(listed))] = listed[j]
      /\ Len(listed') \in {Len(listed), Len(listed) + 1}
      /\ ticked' = ticked
      /\ \A j \in DOMAIN listed : V!Pref(prefs', listed[j].id) = V!Pref(prefs, listed[j].id)
  BY <1>3, <1>4, <1>5, SavedStep
<1>7. ImportCounted'
  <2>1. CASE V!NotSaved /\ loop' = <<>> /\ UNCHANGED summary
    BY <2>1 DEF ViewInv, ImportCounted, AllCounted
  <2>2. CASE V!GoOn(next) /\ l.todo # {}
    <3>1. IsFiniteSet(V!Accepted(l.items)) BY <1>2, ItemsAreCounted DEF IsImport
    <3>2. l.todo \in SUBSET V!Accepted(l.items) BY <1>2 DEF IsImport
    <3>3. IsFiniteSet(l.todo) BY <3>1, <3>2, FS_Subset
    <3>4. k \in l.todo
      <4>1. \A j \in V!Accepted(l.items) : j \in Int
        <5>1. \A j \in V!Accepted(l.items) : j \in DOMAIN l.items BY DEF V!Accepted, V!Firsts
        <5>2. QED BY <1>2, <5>1 DEF IsImport, IsSeq
      <4>2. l.todo \in SUBSET Int BY <3>2, <4>1
      <4>3. \E i \in l.todo : \A j \in l.todo : i <= j BY <2>2, <3>3, <4>2, Extremes
      <4>4. QED BY <4>3
    <3> HIDE DEF k
    <3>5. Cardinality(l.todo \ {k}) = Cardinality(l.todo) - 1 /\ Cardinality(l.todo) \in Nat
      BY <3>3, <3>4, FS_RemoveElement, FS_CardinalityType
    <3>6. left = [items |-> l.items, todo |-> l.todo \ {k}, known |-> l.known,
                  imported |-> l.imported, updated |-> l.updated]
      BY <1>2 DEF IsImport
    <3>7. l.todo \ {k} \subseteq V!Accepted(l.items) BY <3>2
    <3>8. /\ IsSeq(l.items) /\ \A i \in DOMAIN l.known : l.known[i] \in ViewIds
          /\ l.imported \in Nat /\ l.updated \in Nat
          /\ l.imported + l.updated + Cardinality(l.todo) = Cardinality(V!Accepted(l.items))
      BY <1>2 DEF IsImport
    <3> HIDE DEF left, old, l
    <3>9. IsImport(next)
      <4>1. CASE old
        <5>1. next = [items |-> l.items, todo |-> l.todo \ {k}, known |-> l.known,
                      imported |-> l.imported, updated |-> l.updated + 1]
          BY <3>6, <4>1
        <5> HIDE DEF next
        <5>2. l.imported + (l.updated + 1) + Cardinality(l.todo \ {k}) = Cardinality(V!Accepted(l.items))
          BY <3>5, <3>8
        <5>3. QED BY <3>7, <3>8, <5>1, <5>2 DEF IsImport
      <4>2. CASE ~old
        <5>1. next = [items |-> l.items, todo |-> l.todo \ {k}, known |-> l.known,
                      imported |-> l.imported + 1, updated |-> l.updated]
          BY <3>6, <4>2
        <5> HIDE DEF next
        <5>2. (l.imported + 1) + l.updated + Cardinality(l.todo \ {k}) = Cardinality(V!Accepted(l.items))
          BY <3>5, <3>8
        <5>3. QED BY <3>7, <3>8, <5>1, <5>2 DEF IsImport
      <4>3. QED BY <4>1, <4>2
    <3> HIDE DEF next
    <3>10. QED BY <2>2, <3>9, GoOnStep DEF ViewInv
  <2>3. QED BY <1>1, <1>2, <2>1, <2>2
<1>8. FiltersKept' /\ SaveWaits' BY <1>1 DEF ViewInv, FiltersKept, SaveWaits, IsSeq, IsForm
<1>9. QED BY <1>6, <1>7, <1>8 DEF ViewInv, V!SavesTouchOne

----------------------------------------------------------------------------
(* What the user does *)

LEMMA FillStep ==
    ASSUME ViewInv, NEW f, IsForm(f), f.id \in V!IdsOf(listed) \cup {NoId}, V!Fill(f)
    PROVE  ViewInv'
<1>1. form' = f /\ UNCHANGED <<listed, prefs, ticked, filters, saving, loop, summary>> BY DEF V!Fill, V!panel
<1>2. SessionsListed'
  BY <1>1 DEF ViewInv, SessionsListed, IsList, IsSeq, IsSession, IsPrefs, IsForm, V!IdsOf
<1>3. FiltersKept' /\ ImportCounted' /\ SaveWaits'
  BY <1>1 DEF ViewInv, FiltersKept, ImportCounted, SaveWaits, Waits, IsImport, AllCounted, IsSeq, IsForm
<1>4. QED BY <1>2, <1>3 DEF ViewInv

LEMMA FormStep ==
    ASSUME ViewInv, V!Form
    PROVE  ViewInv'
<1>1. IsForm(form) /\ form.id \in V!IdsOf(listed) \cup {NoId} BY DEF ViewInv, SessionsListed
<1>2. CASE V!CancelForm
  <2>1. V!Fill(V!EmptyForm) /\ V!EmptyForm.id = NoId BY <1>2 DEF V!CancelForm, V!EmptyForm
  <2>2. QED BY <2>1, EmptyFormIsForm, FillStep
<1>3. CASE V!Save
  <2>1. saving' = <<form>> /\ UNCHANGED <<listed, prefs, form, ticked, filters, loop, summary>> BY <1>3 DEF V!Save
  <2>2. SessionsListed'
    BY <2>1 DEF ViewInv, SessionsListed, IsList, IsSeq, IsSession, IsPrefs, IsForm, V!IdsOf
  <2>3. FiltersKept' /\ ImportCounted'
    BY <2>1 DEF ViewInv, FiltersKept, ImportCounted, Waits, IsImport, AllCounted, IsSeq
  <2>4. SaveWaits' BY <1>1, <2>1 DEF SaveWaits, IsForm
  <2>5. QED BY <2>2, <2>3, <2>4 DEF ViewInv
<1>4. ASSUME NEW f, V!Fill(f), \/ \E n : f = [form EXCEPT !.name = n]
                               \/ \E h : f = [form EXCEPT !.host = h]
      PROVE  ViewInv'
  <2>1. IsForm(f) /\ f.id = form.id BY <1>1, <1>4 DEF IsForm
  <2>2. QED BY <1>1, <1>4, <2>1, FillStep
<1>5. CASE \E n \in Names \cup {NoName} : V!TypeName(n)
  BY <1>4, <1>5 DEF V!TypeName
<1>6. CASE \E h \in Hosts \cup {BadHost, NoName} : V!TypeHost(h)
  BY <1>4, <1>6 DEF V!TypeHost
<1>7. QED BY <1>2, <1>3, <1>5, <1>6 DEF V!Form

LEMMA TransferStep ==
    ASSUME ViewInv, V!Transfer
    PROVE  ViewInv'
<1>1. PICK items \in Transfers \cup {V!Exported(V!IdsOf(listed)), V!Exported(ticked)} : V!ImportSessions(items)
  BY DEF V!Transfer
<1>2. ASSUME NEW N PROVE IsSeq(V!Exported(N))
  <2> DEFINE K == {k \in DOMAIN listed : listed[k].id \in N}
  <2>1. IsSeq(listed) /\ K \in SUBSET DOMAIN listed BY DEF ViewInv, SessionsListed, IsList
  <2>2. V!Exported(N) = [k \in DOMAIN V!At(listed, K) |-> V!ItemOf(V!At(listed, K)[k])] BY DEF V!Exported
  <2> HIDE DEF K
  <2>3. IsSeq(V!At(listed, K)) BY <2>1, ViewAt DEF IsAt
  <2>4. QED BY <2>2, <2>3 DEF IsSeq
<1>3. IsSeq(items) BY <1>1, <1>2, DesktopAssumption DEF DesktopAssumption
<1>4. QED BY <1>1, <1>3, ImportSessionsStep

LEMMA KeepStep ==
    ASSUME ViewInv, NEW fs, IsSeq(fs), Len(fs) <= MaxFilters,
           \A j, k \in DOMAIN fs : fs[j].name = fs[k].name => j = k, V!Keep(fs)
    PROVE  ViewInv'
<1>1. filters' = fs /\ UNCHANGED <<listed, prefs, form, ticked, saving, loop, summary>> BY DEF V!Keep
<1>2. SessionsListed'
  BY <1>1 DEF ViewInv, SessionsListed, IsList, IsSeq, IsSession, IsPrefs, IsForm, V!IdsOf
<1>3. FiltersKept' BY <1>1 DEF FiltersKept, IsSeq
<1>4. ImportCounted' /\ SaveWaits'
  BY <1>1 DEF ViewInv, ImportCounted, SaveWaits, Waits, IsImport, AllCounted, IsSeq, IsForm
<1>5. QED BY <1>2, <1>3, <1>4 DEF ViewInv

\* The saved filters but that of a name, in their order.
LEMMA OthersThanStep ==
    ASSUME FiltersKept, NEW n
    PROVE  LET t == V!OthersThan(n) IN
           /\ IsSeq(t) /\ Len(t) <= Len(filters)
           /\ \A j, k \in DOMAIN t : t[j].name = t[k].name => j = k
           /\ \A k \in DOMAIN t : t[k].name # n
<1> DEFINE K == {k \in DOMAIN filters : filters[k].name # n}
           t == V!OthersThan(n)
<1>1. IsSeq(filters) /\ K \in SUBSET DOMAIN filters BY DEF FiltersKept
<1>2. t = V!At(filters, K) BY DEF V!OthersThan
<1>3. \A k \in K : filters[k].name # n OBVIOUS
<1> HIDE DEF K, t
<1>4. IsAt(t, filters, K) BY <1>1, <1>2, ViewAt
<1>5. PICK f \in [1..Len(t) -> K] :
        /\ \A k \in 1..Len(t) : t[k] = filters[f[k]]
        /\ \A j, k \in 1..Len(t) : j < k => f[j] < f[k]
  BY <1>4 DEF IsAt
<1>6. IsSeq(t) /\ Len(t) \in Nat /\ DOMAIN t = 1..Len(t) /\ Len(t) <= Len(filters) BY <1>4 DEF IsAt, IsSeq
<1>7. \A k \in DOMAIN t : f[k] \in K /\ f[k] \in DOMAIN filters /\ f[k] \in Int /\ t[k] = filters[f[k]]
  <2>1. DOMAIN filters \subseteq Int BY <1>1 DEF IsSeq
  <2>2. QED BY <1>1, <1>5, <1>6, <2>1
<1>8. ASSUME NEW j \in DOMAIN t, NEW k \in DOMAIN t, t[j].name = t[k].name PROVE j = k
  <2>1. f[j] = f[k] BY <1>7, <1>8 DEF FiltersKept
  <2>2. ~(j < k) /\ ~(k < j) BY <1>5, <1>6, <1>7, <2>1
  <2>3. QED BY <1>6, <2>2
<1>9. \A k \in DOMAIN t : t[k].name # n BY <1>3, <1>7
<1>10. QED BY <1>6, <1>8, <1>9 DEF t

LEMMA FiltersStep ==
    ASSUME ViewInv, \/ \E n \in Names \cup {NoName} : V!SaveFilter(n)
                    \/ \E k \in DOMAIN filters : V!DeleteFilter(filters[k].name)
    PROVE  ViewInv'
<1>1. FiltersKept /\ MaxFilters \in Nat /\ Len(filters) <= MaxFilters
  BY DesktopAssumption DEF ViewInv, FiltersKept, DesktopAssumption
<1>2. Len(filters) \in Nat BY <1>1 DEF FiltersKept, IsSeq
<1>3. ASSUME NEW n \in Names \cup {NoName}, V!SaveFilter(n) PROVE ViewInv'
  <2> DEFINE name == IF n = NoName THEN <<filter.stage, filter.severity>> ELSE <<n>>
             f    == [name |-> name, stage |-> filter.stage, severity |-> filter.severity]
             t    == V!OthersThan(name)
             all  == <<f>> \o t
             m    == IF Len(all) < MaxFilters THEN Len(all) ELSE MaxFilters
             cut  == SubSeq(all, 1, m)
  <2>1. V!Keep(cut) BY <1>3 DEF V!SaveFilter
  <2>2. f.name = name OBVIOUS
  <2>3. IsSeq(t) /\ (\A j, k \in DOMAIN t : t[j].name = t[k].name => j = k) /\ \A k \in DOMAIN t : t[k].name # name
    BY <1>1, OthersThanStep
  <2>4. IsSeq(<<f>>) /\ Len(<<f>>) = 1 /\ <<f>>[1] = f BY Single
  <2> HIDE DEF f, name, t
  <2>5. /\ IsSeq(all) /\ Len(all) = 1 + Len(t)
        /\ \A k \in 1..(1 + Len(t)) : all[k] = IF k <= 1 THEN <<f>>[k] ELSE t[k - 1]
    BY <2>3, <2>4, Joined
  <2>6. Len(t) \in Nat /\ DOMAIN t = 1..Len(t) BY <2>3 DEF IsSeq
  <2>7. all[1] = f /\ \A k \in 1..Len(all) : k = 1 \/ (k - 1 \in DOMAIN t /\ all[k] = t[k - 1])
    BY <2>4, <2>5, <2>6
  <2> HIDE DEF all
  <2>8. m \in 0..Len(all) /\ m <= MaxFilters BY <1>1, <2>5, <2>6
  <2> HIDE DEF m
  <2>9. IsSeq(cut) /\ Len(cut) = m /\ \A k \in 1..m : k \in DOMAIN all /\ cut[k] = all[k]
    BY <2>5, <2>8, Beginning
  <2> HIDE DEF cut
  <2>10. DOMAIN cut = 1..m /\ DOMAIN all = 1..Len(all) BY <2>5, <2>9 DEF IsSeq
  <2>11. ASSUME NEW j \in DOMAIN cut, NEW k \in DOMAIN cut, cut[j].name = cut[k].name PROVE j = k
    <3>1. j \in 1..Len(all) /\ k \in 1..Len(all) /\ all[j].name = all[k].name BY <2>9, <2>10, <2>11
    <3>2. j \in Int /\ k \in Int BY <2>5, <2>6, <3>1
    <3>3. CASE j = 1 \/ k = 1 BY <2>2, <2>3, <2>7, <3>1, <3>3
    <3>4. CASE j # 1 /\ k # 1
      <4>1. j - 1 = k - 1 BY <2>3, <2>7, <3>1, <3>4
      <4>2. QED BY <3>2, <4>1
    <3>5. QED BY <3>3, <3>4
  <2>12. QED BY <2>1, <2>8, <2>9, <2>11, KeepStep
<1>4. ASSUME NEW n, V!DeleteFilter(n) PROVE ViewInv'
  <2> DEFINE t == V!OthersThan(n)
  <2>1. V!Keep(t) BY <1>4 DEF V!DeleteFilter
  <2>2. IsSeq(t) /\ Len(t) <= Len(filters) /\ (\A j, k \in DOMAIN t : t[j].name = t[k].name => j = k)
    BY <1>1, OthersThanStep
  <2> HIDE DEF t
  <2>3. Len(t) <= MaxFilters
    <3>1. Len(t) \in Nat BY <2>2 DEF IsSeq
    <3>2. QED BY <1>1, <1>2, <2>2, <3>1
  <2>4. QED BY <2>1, <2>2, <2>3, KeepStep
<1>5. QED BY <1>3, <1>4

LEMMA LookStep ==
    ASSUME ViewInv, NEW f, V!Look(f)
    PROVE  ViewInv'
<1>1. UNCHANGED <<listed, prefs, form, ticked, filters, saving, loop, summary>> BY DEF V!Look
<1>2. SessionsListed'
  BY <1>1 DEF ViewInv, SessionsListed, IsList, IsSeq, IsSession, IsPrefs, IsForm, V!IdsOf
<1>3. FiltersKept' /\ ImportCounted' /\ SaveWaits'
  BY <1>1 DEF ViewInv, FiltersKept, ImportCounted, SaveWaits, Waits, IsImport, AllCounted, IsSeq, IsForm
<1>4. QED BY <1>2, <1>3 DEF ViewInv

\* Preferences and ticks that are given are of sessions that are listed.
LEMMA PreferStep ==
    ASSUME ViewInv, NEW p, IsPrefs(p), listed # <<>> => DOMAIN p.of \subseteq V!IdsOf(listed),
           prefs' = p, ticked' \subseteq V!IdsOf(listed),
           UNCHANGED <<listed, form, filters, saving, loop, summary>>
    PROVE  ViewInv'
<1>1. SessionsListed'
  BY DEF ViewInv, SessionsListed, IsList, IsSeq, IsSession, IsPrefs, IsForm, V!IdsOf
<1>2. FiltersKept' /\ ImportCounted' /\ SaveWaits'
  BY DEF ViewInv, FiltersKept, ImportCounted, SaveWaits, Waits, IsImport, AllCounted, IsSeq, IsForm
<1>3. QED BY <1>1, <1>2 DEF ViewInv

LEMMA ChangedStep ==
    ASSUME ViewInv, NEW N, N \subseteq V!IdsOf(listed), NEW new, DOMAIN new = N, V!Prefer(V!Changed(prefs, new))
    PROVE  ViewInv'
<1> DEFINE kept == {i \in DOMAIN prefs.of \cup DOMAIN new : i \in DOMAIN new => new[i] # V!Plain}
           of   == [i \in kept |-> IF i \in DOMAIN new THEN new[i] ELSE prefs.of[i]]
           p    == V!Changed(prefs, new)
<1>1. IsPrefs(prefs) /\ ticked \subseteq V!IdsOf(listed)
      /\ (listed # <<>> => DOMAIN prefs.of \subseteq V!IdsOf(listed))
  BY DEF ViewInv, SessionsListed
<1>2. DOMAIN of \subseteq DOMAIN prefs.of \cup N OBVIOUS
<1>3. p = [prefs EXCEPT !.of = of] BY DEF V!Changed
<1> HIDE DEF of, kept
<1>4. p = [of |-> of, collapsed |-> prefs.collapsed] BY <1>1, <1>3 DEF IsPrefs
<1>5. prefs' = p /\ UNCHANGED <<listed, form, ticked, filters, saving, loop, summary>> BY DEF V!Prefer, V!panel
<1> HIDE DEF p
<1>6. IsPrefs(p) /\ (listed # <<>> => DOMAIN p.of \subseteq V!IdsOf(listed)) BY <1>1, <1>2, <1>4 DEF IsPrefs
<1>7. QED BY <1>1, <1>5, <1>6, PreferStep

LEMMA CollapseStep ==
    ASSUME ViewInv, NEW g, V!Collapse(g)
    PROVE  ViewInv'
<1> DEFINE C == IF g \in prefs.collapsed THEN prefs.collapsed \ {g} ELSE prefs.collapsed \cup {g}
           p == [prefs EXCEPT !.collapsed = C]
<1>1. IsPrefs(prefs) /\ ticked \subseteq V!IdsOf(listed)
      /\ (listed # <<>> => DOMAIN prefs.of \subseteq V!IdsOf(listed))
  BY DEF ViewInv, SessionsListed
<1>2. prefs' = p /\ UNCHANGED <<listed, form, ticked, filters, saving, loop, summary>> BY DEF V!Collapse, V!Prefer, V!panel
<1> HIDE DEF C
<1>3. p = [of |-> prefs.of, collapsed |-> C] BY <1>1 DEF IsPrefs
<1> HIDE DEF p
<1>4. IsPrefs(p) /\ p.of = prefs.of BY <1>3 DEF IsPrefs
<1>5. QED BY <1>1, <1>2, <1>4, PreferStep

LEMMA TickStep ==
    ASSUME ViewInv, NEW T, T \subseteq V!IdsOf(listed), V!Tick(T)
    PROVE  ViewInv'
<1>1. ticked' = T /\ UNCHANGED <<listed, prefs, form, filters, saving, loop, summary>> BY DEF V!Tick, V!panel
<1>2. IsPrefs(prefs) /\ (listed # <<>> => DOMAIN prefs.of \subseteq V!IdsOf(listed)) BY DEF ViewInv, SessionsListed
<1>3. QED BY <1>1, <1>2, PreferStep

LEMMA ApplyLayoutStep ==
    ASSUME ViewInv, NEW p, IsPrefs(p), V!ApplyLayout(p)
    PROVE  ViewInv'
<1> DEFINE of == [i \in DOMAIN p.of \cap V!IdsOf(listed) |-> p.of[i]]
           q  == V!Pruned(p, listed)
<1>1. prefs' = q /\ ticked' = {} /\ UNCHANGED <<listed, form, filters, saving, loop, summary>>
  BY DEF V!ApplyLayout, V!panel
<1>2. q = [p EXCEPT !.of = of] BY DEF V!Pruned
<1>3. DOMAIN of \subseteq V!IdsOf(listed) OBVIOUS
<1> HIDE DEF of, q
<1>4. q = [of |-> of, collapsed |-> p.collapsed] BY <1>2 DEF IsPrefs
<1>5. IsPrefs(q) /\ DOMAIN q.of \subseteq V!IdsOf(listed) BY <1>3, <1>4 DEF IsPrefs
<1>6. QED BY <1>1, <1>5, PreferStep

LEMMA VisibleIsListed == V!VisibleIds \subseteq V!IdsOf(listed)
  BY DEF V!VisibleIds, V!Visible, V!IdsOf

LEMMA TickTheseStep ==
    ASSUME ViewInv, NEW N, N \subseteq V!IdsOf(listed), V!TickThese(N)
    PROVE  ViewInv'
<1> DEFINE T == IF N \subseteq ticked THEN ticked \ N ELSE ticked \cup N
<1>1. V!Tick(T) BY DEF V!TickThese
<1>2. T \subseteq V!IdsOf(listed) BY DEF ViewInv, SessionsListed
<1> HIDE DEF T
<1>3. QED BY <1>1, <1>2, TickStep

LEMMA GroupedStep ==
    ASSUME ViewInv, NEW N, N \subseteq V!IdsOf(listed), NEW g, V!Prefer(V!Grouped(N, g))
    PROVE  ViewInv'
<1> DEFINE new == [i \in N |-> [V!Pref(prefs, i) EXCEPT !.group = V!Group(g)]]
<1>1. V!Prefer(V!Changed(prefs, new)) /\ DOMAIN new = N BY DEF V!Grouped
<1> HIDE DEF new
<1>2. QED BY <1>1, ChangedStep

LEMMA SearchBarStep ==
    ASSUME ViewInv, V!SearchBar
    PROVE  ViewInv'
<1>1. CASE \/ \E q \in Names \cup Folders \cup {"error", NoName} : V!SetQuery(q)
           \/ \E x \in {V!All, "metadata", "tunnel"} : V!SetStage(x)
           \/ \E x \in {V!All, "info", "error"} : V!SetSeverity(x)
           \/ V!ClearFilters
           \/ \E k \in DOMAIN filters : V!ApplyFilter(filters[k])
  BY <1>1, LookStep DEF V!SetQuery, V!SetStage, V!SetSeverity, V!ClearFilters, V!ApplyFilter
<1>2. CASE V!TickVisible \/ V!TickNone
  <2>1. V!Tick(ticked \cup V!VisibleIds) \/ V!Tick({}) BY <1>2 DEF V!TickVisible, V!TickNone
  <2>2. ticked \cup V!VisibleIds \subseteq V!IdsOf(listed) BY VisibleIsListed DEF ViewInv, SessionsListed
  <2>3. QED BY <2>1, <2>2, TickStep
<1>3. CASE \/ \E n \in Names \cup {NoName} : V!SaveFilter(n)
           \/ \E k \in DOMAIN filters : V!DeleteFilter(filters[k].name)
  BY <1>3, FiltersStep
<1>4. CASE \E p \in ViewLayouts : V!ApplyLayout(p)
  BY <1>4, ApplyLayoutStep, DesktopAssumption DEF DesktopAssumption
<1>5. QED BY <1>1, <1>2, <1>3, <1>4 DEF V!SearchBar

LEMMA BulkToolbarStep ==
    ASSUME ViewInv, V!BulkToolbar
    PROVE  ViewInv'
<1>1. ticked \subseteq V!IdsOf(listed) BY DEF ViewInv, SessionsListed
<1>2. CASE \E g \in Folders \cup {NoName} : V!MoveTicked(g)
  BY <1>1, <1>2, GroupedStep DEF V!MoveTicked
<1>3. CASE \E b \in BOOLEAN : V!FavorTicked(b)
  <2>1. PICK b \in BOOLEAN : V!FavorTicked(b) BY <1>3
  <2> DEFINE new == [i \in ticked |-> [V!Pref(prefs, i) EXCEPT !.favorite = b]]
  <2>2. V!Prefer(V!Changed(prefs, new)) /\ DOMAIN new = ticked BY <2>1 DEF V!FavorTicked, V!Favored
  <2> HIDE DEF new
  <2>3. QED BY <1>1, <2>2, ChangedStep
<1>4. QED BY <1>2, <1>3 DEF V!BulkToolbar

LEMMA GroupHeaderStep ==
    ASSUME ViewInv, NEW g \in V!ShownGroups, V!GroupHeader(g)
    PROVE  ViewInv'
<1>a. PICK h \in {V!Pref(prefs, i).group : i \in V!VisibleIds} :
        g = [group |-> h, sessions |-> V!InGroup(h) \cap V!VisibleIds, total |-> V!Cardinality(V!InGroup(h)),
             favorites |-> V!Cardinality({i \in V!InGroup(h) : V!Pref(prefs, i).favorite}), collapsed |-> h \in prefs.collapsed]
  BY Zenon DEF V!ShownGroups
<1>1. g.sessions = V!InGroup(h) \cap V!VisibleIds BY <1>a
<1>2. g.sessions \subseteq V!IdsOf(listed) BY <1>1, VisibleIsListed
<1>3. CASE V!TickThese(g.sessions) BY <1>2, <1>3, TickTheseStep
<1>4. CASE V!Collapse(g.group) BY <1>4, CollapseStep
<1>5. QED BY <1>3, <1>4 DEF V!GroupHeader

LEMMA CardStep ==
    ASSUME ViewInv, NEW k \in DOMAIN listed, V!Card(listed[k])
    PROVE  ViewInv'
<1> DEFINE s == listed[k]
<1>1. s.id \in V!IdsOf(listed) /\ IsSession(s) BY DEF ViewInv, SessionsListed, IsList, V!IdsOf
<1> HIDE DEF s
<1>2. {s.id} \subseteq V!IdsOf(listed) BY <1>1
<1>3. CASE V!TickThese({s.id}) BY <1>2, <1>3, TickTheseStep
<1>4. CASE V!ToggleFavorite(s.id)
  <2> DEFINE new == [i \in {s.id} |-> [V!Pref(prefs, i) EXCEPT !.favorite = ~V!Pref(prefs, i).favorite]]
  <2>1. V!Prefer(V!Changed(prefs, new)) /\ DOMAIN new = {s.id} BY <1>4 DEF V!ToggleFavorite, V!Favored
  <2> HIDE DEF new
  <2>2. QED BY <1>2, <2>1, ChangedStep
<1>5. CASE V!EditSession(s)
  <2> DEFINE f == [id |-> s.id, name |-> s.name, host |-> s.host, clone |-> FALSE]
  <2>1. V!Fill(f) BY <1>5 DEF V!EditSession
  <2>2. IsForm(f) /\ f.id = s.id BY <1>1 DEF IsForm, IsSession
  <2> HIDE DEF f
  <2>3. QED BY <1>1, <2>1, <2>2, FillStep
<1>6. CASE V!CloneSession(s)
  <2> DEFINE f == [id |-> NoId, name |-> V!CloneName(s.name), host |-> s.host, clone |-> TRUE]
  <2>1. V!Fill(f) BY <1>6 DEF V!CloneSession
  <2>2. IsForm(f) /\ f.id = NoId BY DEF IsForm
  <2> HIDE DEF f
  <2>3. QED BY <2>1, <2>2, FillStep
<1>7. CASE \E g \in Folders \cup {NoName} : V!SetGroup(s.id, g)
  BY <1>2, <1>7, GroupedStep DEF V!SetGroup
<1>8. QED BY <1>3, <1>4, <1>5, <1>6, <1>7 DEF V!Card, s

LEMMA ViewInit == V!Init => ViewInv
<1> SUFFICES ASSUME V!Init PROVE ViewInv
  OBVIOUS
<1>1. /\ listed = <<>> /\ filters = <<>> /\ form = V!EmptyForm /\ ticked = {} /\ prefs \in Stored
      /\ saving = <<>> /\ loop = <<>> /\ summary = <<>>
  BY DEF V!Init
<1>2. IsPrefs(prefs) BY <1>1, DesktopAssumption DEF DesktopAssumption
<1>3. form.id = NoId BY <1>1 DEF V!EmptyForm
<1>4. SessionsListed BY <1>1, <1>2, <1>3, NoSessionsAreAList, EmptyFormIsForm DEF SessionsListed
<1>5. IsSeq(<<>>) /\ Len(<<>>) = 0 BY DEF IsSeq
<1>6. FiltersKept BY <1>1, <1>5, DesktopAssumption DEF FiltersKept, DesktopAssumption
<1>7. ImportCounted /\ SaveWaits BY <1>1 DEF ImportCounted, SaveWaits
<1>8. QED BY <1>4, <1>6, <1>7 DEF ViewInv

LEMMA ViewStep ==
    ASSUME ViewInv, V!Next
    PROVE  ViewInv'
<1>1. CASE V!Controller BY <1>1, ControllerStep
<1>2. CASE V!SaveReturns BY <1>2, SaveReturnsStep
<1>3. CASE V!ImportReturns BY <1>3, ImportReturnsStep
<1>4. CASE V!Form BY <1>4, FormStep
<1>5. CASE V!Transfer BY <1>5, TransferStep
<1>6. CASE V!SearchBar BY <1>6, SearchBarStep
<1>7. CASE V!BulkToolbar BY <1>7, BulkToolbarStep
<1>8. CASE \E g \in V!ShownGroups : V!GroupHeader(g) BY <1>8, GroupHeaderStep
<1>9. CASE \E k \in DOMAIN listed : V!Card(listed[k]) BY <1>9, CardStep
<1>10. QED BY <1>1, <1>2, <1>3, <1>4, <1>5, <1>6, <1>7, <1>8, <1>9 DEF V!Next

LEMMA ViewCounts == ViewInv => V!EverySessionItemIsCounted
<1> SUFFICES ASSUME ViewInv PROVE V!EverySessionItemIsCounted
  OBVIOUS
<1>1. ASSUME loop # <<>>
      PROVE  LET l == loop[1] c == V!Counted(l) IN
             c.imported + c.updated + c.skipped + c.invalid + V!Cardinality(l.todo) = c.items
  <2> DEFINE l == loop[1]
             a == Cardinality(V!Accepted(l.items)) b == Cardinality(V!Invalid(l.items)) c == Cardinality(V!Skipped(l.items))
             d == Cardinality(l.todo)
  <2>1. IsImport(l) BY <1>1 DEF ViewInv, ImportCounted, Waits
  <2>2. a \in Nat /\ b \in Nat /\ c \in Nat /\ a + b + c = Len(l.items) /\ IsFiniteSet(V!Accepted(l.items))
    BY <2>1, ItemsAreCounted DEF IsImport
  <2>3. l.imported \in Nat /\ l.updated \in Nat /\ l.imported + l.updated + d = a BY <2>1 DEF IsImport
  <2>4. l.todo \in SUBSET V!Accepted(l.items) BY <2>1 DEF IsImport
  <2>5. d \in Nat BY <2>2, <2>4, FS_Subset, FS_CardinalityType
  <2>6. V!Counted(l) = [items |-> Len(l.items), imported |-> l.imported, updated |-> l.updated, skipped |-> c, invalid |-> b]
    BY ViewCardinality DEF V!Counted
  <2>7. V!Cardinality(l.todo) = d BY ViewCardinality
  <2> HIDE DEF a, b, c, d, l
  <2>8. l.imported + l.updated + c + b + d = Len(l.items) BY <2>2, <2>3, <2>5
  <2>9. QED BY <2>6, <2>7, <2>8 DEF l
<1>2. summary # <<>> =>
        LET c == summary[1] IN c.imported + c.updated + c.skipped + c.invalid = c.items
  BY DEF ViewInv, ImportCounted, AllCounted
<1>3. QED BY <1>1, <1>2 DEF V!EverySessionItemIsCounted

----------------------------------------------------------------------------
(* The theorems about the view *)

\* The view's inductive invariant: no session twice, what the panel keeps is of sessions that are
\* listed, the saved filters are few, and an import under way accounts for every item
\* (DesktopCmSessionPanel.tsx, desktopCmSessionView.ts).
THEOREM ViewInductive == DesktopSpec => [](part = "view" => ViewInv)
<1>1. DesktopInit => (part = "view" => ViewInv)
  BY ViewInit DEF DesktopInit
<1>2. (part = "view" => ViewInv) /\ [DesktopNext]_everything => (part = "view" => ViewInv)'
  <2> SUFFICES ASSUME part = "view" => ViewInv, [DesktopNext]_everything, part' = "view"
               PROVE  ViewInv'
    OBVIOUS
  <2>1. part = "view" BY DEF DesktopNext, everything
  <2>2. CASE V!Next BY <2>1, <2>2, ViewStep
  <2>3. CASE UNCHANGED viewOnly
    <3>1. UNCHANGED <<listed, prefs, form, ticked, filters, saving, loop, summary>> BY <2>3 DEF viewOnly
    <3>2. SessionsListed'
      BY <2>1, <3>1 DEF ViewInv, SessionsListed, IsList, IsSeq, IsSession, IsPrefs, IsForm, V!IdsOf
    <3>3. FiltersKept' /\ ImportCounted' /\ SaveWaits'
      BY <2>1, <3>1 DEF ViewInv, FiltersKept, ImportCounted, SaveWaits, Waits, IsImport, AllCounted, IsSeq, IsForm
    <3>4. QED BY <3>2, <3>3 DEF ViewInv
  <2>4. QED BY <2>1, <2>2, <2>3 DEF DesktopNext, everything
<1>3. QED BY <1>1, <1>2, PTL DEF DesktopSpec

\* A save or an imported item changes or adds one session: the others stay in their places, no tick
\* is lost and no preference of a listed session changes, whatever was deleted, checked or saved
\* while it was under way (handleSave, handleImportSessions).
THEOREM SavesTouchOneSession == DesktopSpec => [][part = "view" => V!SavesTouchOne]_everything
<1>1. (part = "view" => ViewInv) /\ [DesktopNext]_everything
      => [part = "view" => V!SavesTouchOne]_everything
  BY SaveReturnsStep, ImportReturnsStep DEF V!SavesTouchOne
<1>2. QED BY <1>1, ViewInductive, PTL DEF DesktopSpec

----------------------------------------------------------------------------
(* Lists of presets *)

IsPresets(ps) == IsSeq(ps) /\ \A k \in DOMAIN ps : IsPreset(ps[k])
OncePerName(ps) == \A j, k \in DOMAIN ps : ps[j].name = ps[k].name => j = k

\* A list that the panel may have.
IsShort(ps) == IsPresets(ps) /\ OncePerName(ps) /\ Len(ps) <= MaxPresets

LEMMA LenIsDomain ==
    ASSUME NEW s, IsSeq(s)
    PROVE  Len(s) \in Nat /\ DOMAIN s = 1..Len(s)
  BY DEF IsSeq

\* Some of the presets, in their order.
LEMMA SomeOf ==
    ASSUME NEW ps, IsPresets(ps), NEW K \in SUBSET DOMAIN ps
    PROVE  /\ IsPresets(L!At(ps, K)) /\ Elements(L!At(ps, K)) \subseteq Elements(ps)
           /\ Len(L!At(ps, K)) = Cardinality(K) /\ Len(L!At(ps, K)) <= Len(ps)
           /\ OncePerName(ps) => OncePerName(L!At(ps, K))
<1> DEFINE t == L!At(ps, K)
<1>1. IsSeq(ps) BY DEF IsPresets
<1>2. IsAt(t, ps, K) BY <1>1, LayoutAt
<1> HIDE DEF t
<1>3. IsSeq(t) /\ Len(t) = Cardinality(K) /\ Len(t) <= Len(ps) BY <1>2 DEF IsAt
<1>4. PICK f \in [1..Len(t) -> K] :
        /\ \A k \in 1..Len(t) : t[k] = ps[f[k]]
        /\ \A j, k \in 1..Len(t) : j < k => f[j] < f[k]
  BY <1>2 DEF IsAt
<1>5. Len(t) \in Nat /\ DOMAIN t = 1..Len(t) BY <1>3, LenIsDomain
<1>6. DOMAIN ps \subseteq Int BY <1>1, LenIsDomain
<1>7. \A k \in DOMAIN t : f[k] \in DOMAIN ps /\ f[k] \in Int /\ t[k] = ps[f[k]] BY <1>4, <1>5, <1>6
<1>8. \A k \in DOMAIN t : IsPreset(t[k]) BY <1>7 DEF IsPresets
<1>9. Elements(t) \subseteq Elements(ps) BY <1>7 DEF Elements
<1>10. ASSUME OncePerName(ps) PROVE OncePerName(t)
  <2> SUFFICES ASSUME NEW j \in DOMAIN t, NEW k \in DOMAIN t, t[j].name = t[k].name PROVE j = k
    BY DEF OncePerName
  <2>1. f[j] = f[k] BY <1>7, <1>10 DEF OncePerName
  <2>2. ~(j < k) /\ ~(k < j) BY <1>4, <1>5, <1>7, <2>1
  <2>3. QED BY <1>5, <2>2
<1>11. IsPresets(t) BY <1>3, <1>8 DEF IsPresets
<1>12. QED BY <1>3, <1>9, <1>10, <1>11 DEF t

\* Of presets with the same name the first is kept, and not more than the list can have.
LEMMA NormalizeIsShort ==
    ASSUME NEW ps, IsPresets(ps)
    PROVE  IsShort(L!Normalize(ps))
<1> DEFINE K == {k \in DOMAIN ps : \A j \in 1..(k - 1) : ps[j].name # ps[k].name}
           once == L!At(ps, K)
           n == IF Len(once) < MaxPresets THEN Len(once) ELSE MaxPresets
           t == SubSeq(once, 1, n)
<1>1. L!Normalize(ps) = t BY DEF L!Normalize
<1>2. K \in SUBSET DOMAIN ps OBVIOUS
<1>3. IsSeq(ps) /\ DOMAIN ps = 1..Len(ps) /\ Len(ps) \in Nat BY LenIsDomain DEF IsPresets
<1>4. ASSUME NEW i \in K, NEW j \in K, ps[i].name = ps[j].name PROVE i = j
  <2>1. i \in Int /\ j \in Int /\ i >= 1 /\ j >= 1 BY <1>3
  <2>2. ~(i < j) BY <1>4, <2>1
  <2>3. ~(j < i) BY <1>4, <2>1
  <2>4. QED BY <2>1, <2>2, <2>3
<1> HIDE DEF K
<1>5. IsAt(once, ps, K) /\ IsPresets(once) BY <1>2, <1>3, LayoutAt, SomeOf
<1> HIDE DEF once
<1>6. PICK f \in [1..Len(once) -> K] :
        /\ \A k \in 1..Len(once) : once[k] = ps[f[k]]
        /\ \A j, k \in 1..Len(once) : j < k => f[j] < f[k]
  BY <1>5 DEF IsAt
<1>7. IsSeq(once) /\ Len(once) \in Nat /\ DOMAIN once = 1..Len(once) BY <1>5, LenIsDomain DEF IsPresets
<1>8. OncePerName(once)
  <2> SUFFICES ASSUME NEW j \in DOMAIN once, NEW k \in DOMAIN once, once[j].name = once[k].name PROVE j = k
    BY DEF OncePerName
  <2>1. f[j] = f[k] BY <1>4, <1>6, <1>7
  <2>2. f[j] \in Int /\ f[k] \in Int BY <1>2, <1>3, <1>6, <1>7
  <2>3. ~(j < k) /\ ~(k < j) BY <1>6, <1>7, <2>1, <2>2
  <2>4. QED BY <1>7, <2>3
<1>9. n \in 0..Len(once) /\ n <= MaxPresets BY <1>7, DesktopAssumption DEF DesktopAssumption
<1> HIDE DEF n
<1>10. IsSeq(t) /\ Len(t) = n /\ \A k \in 1..n : k \in DOMAIN once /\ t[k] = once[k] BY <1>7, <1>9, Beginning
<1> HIDE DEF t
<1>11. DOMAIN t = 1..n BY <1>10, LenIsDomain
<1>12. IsPresets(t) BY <1>5, <1>10, <1>11 DEF IsPresets
<1>13. OncePerName(t) BY <1>8, <1>10, <1>11 DEF OncePerName
<1>14. IsShort(t) BY <1>9, <1>10, <1>12, <1>13 DEF IsShort
<1>15. QED BY <1>1, <1>14

LEMMA UpTo == ASSUME NEW n \in Nat PROVE IsFiniteSet(1..n) /\ Cardinality(1..n) = n
  BY FS_Interval

\* As many names as presets.
LEMMA NamesAreCounted ==
    ASSUME NEW ps, IsPresets(ps), OncePerName(ps)
    PROVE  Cardinality(L!NamesOf(ps)) = Len(ps)
<1> DEFINE D == DOMAIN ps
           N == L!NamesOf(ps)
           f == [k \in D |-> ps[k].name]
<1>1. N = {ps[k].name : k \in D} BY DEF L!NamesOf
<1>2. f \in [D -> N] /\ \A x \in N : \E k \in D : f[k] = x BY <1>1
<1>3. \A j, k \in D : f[j] = f[k] => j = k BY DEF OncePerName
<1>4. Len(ps) \in Nat /\ D = 1..Len(ps) BY LenIsDomain DEF IsPresets
<1> HIDE DEF f, D, N
<1>5. IsFiniteSet(D) /\ Cardinality(D) = Len(ps) BY <1>4, UpTo
<1>6. f \in Surjection(D, N) BY <1>2, Fun_IsSurj
<1>7. f \in Injection(D, N) BY <1>2, <1>3, Fun_IsInj
<1>8. Cardinality(N) = Cardinality(D) BY <1>5, <1>6, <1>7, FS_Surjection
<1>9. QED BY <1>5, <1>8 DEF N

\* A number of finite sets in a row.
LEMMA RowIsFinite ==
    ASSUME NEW n \in Nat, NEW row, \A k \in 1..n : IsFiniteSet(row[k])
    PROVE  IsFiniteSet(UNION {row[k] : k \in 1..n})
<1> DEFINE T == {row[k] : k \in 1..n}
           f == [k \in 1..n |-> row[k]]
<1>1. f \in [1..n -> T] /\ \A x \in T : \E k \in 1..n : f[k] = x OBVIOUS
<1>2. \A x \in T : IsFiniteSet(x) OBVIOUS
<1> HIDE DEF f, T
<1>3. f \in Surjection(1..n, T) BY <1>1, Fun_IsSurj
<1>4. IsFiniteSet(T) BY <1>3, FS_Interval, FS_Surjection
<1>5. IsFiniteSet(UNION T) BY <1>2, <1>4, FS_UNION
<1>6. QED BY <1>5 DEF T

\* One list after the other: t takes the places of the lists in their order.
IsFlat(t, lists, f) ==
    /\ IsSeq(t) /\ f \in [1..Len(t) -> L!Places(lists)]
    /\ \A k \in 1..Len(t) : t[k] = lists[f[k][1]][f[k][2]]
    /\ \A j, k \in 1..Len(t) : j < k => L!Before(f[j], f[k])
    /\ \A p \in L!Places(lists) : \E k \in 1..Len(t) : f[k] = p

LEMMA FlatInOrder ==
    ASSUME NEW lists, IsSeq(lists), \A k \in DOMAIN lists : IsSeq(lists[k])
    PROVE  \E f : IsFlat(L!Flat(lists), lists, f)
<1> DEFINE P == L!Places(lists)
           R == {pq \in P \X P : L!Before(pq[1], pq[2])}
           t == L!Flat(lists)
<1>1. Len(lists) \in Nat /\ DOMAIN lists = 1..Len(lists) BY LenIsDomain
<1>2. \A k \in DOMAIN lists : Len(lists[k]) \in Nat /\ DOMAIN lists[k] = 1..Len(lists[k]) BY LenIsDomain
<1>3. P = UNION {{<<k, i>> : i \in DOMAIN lists[k]} : k \in DOMAIN lists} BY DEF L!Places
<1>4. \A p \in P : p = <<p[1], p[2]>> /\ p[1] \in DOMAIN lists /\ p[2] \in DOMAIN lists[p[1]] BY <1>3
<1>5. IsFiniteSet(P)
  <2> DEFINE row == [k \in DOMAIN lists |-> {<<k, i>> : i \in DOMAIN lists[k]}]
  <2>1. ASSUME NEW k \in DOMAIN lists PROVE IsFiniteSet(row[k])
    <3>1. row[k] \in SUBSET ({k} \X (1..Len(lists[k]))) BY <1>2
    <3>2. IsFiniteSet({k}) /\ IsFiniteSet(1..Len(lists[k]))
      <4>1. Len(lists[k]) \in Nat BY <1>2
      <4>2. IsFiniteSet(1..Len(lists[k])) BY <4>1, UpTo
      <4>3. QED BY <4>2, FS_Singleton
    <3>3. IsFiniteSet({k} \X (1..Len(lists[k]))) BY <3>2, FS_Product
    <3> HIDE DEF row
    <3>4. QED BY <3>1, <3>3, FS_Subset
  <2>2. P = UNION {row[k] : k \in 1..Len(lists)} BY <1>1, <1>3
  <2> HIDE DEF row, P
  <2>3. QED BY <1>1, <2>1, <2>2, RowIsFinite
<1>6. \A p \in P : p[1] \in Int /\ p[2] \in Int BY <1>1, <1>2, <1>4
<1> HIDE DEF P
<1>7. \A p, q \in P : <<p, q>> \in R <=> (p[1] < q[1] \/ (p[1] = q[1] /\ p[2] < q[2])) BY DEF L!Before
<1>8. \A p, q \in P : <<q, p>> \in R <=> L!Before(q, p) OBVIOUS
<1> HIDE DEF R
<1>9. /\ \A p \in P : <<p, p>> \notin R
      /\ \A p, q, r \in P : <<p, q>> \in R /\ <<q, r>> \in R => <<p, r>> \in R
      /\ \A p, q \in P : p # q => <<p, q>> \in R \/ <<q, p>> \in R
  <2>1. \A p \in P : <<p, p>> \notin R BY <1>6, <1>7
  <2>2. \A p, q, r \in P : <<p, q>> \in R /\ <<q, r>> \in R => <<p, r>> \in R BY <1>6, <1>7
  <2>3. ASSUME NEW p \in P, NEW q \in P, p # q PROVE <<p, q>> \in R \/ <<q, p>> \in R
    <3>1. p[1] # q[1] \/ p[2] # q[2] BY <1>4, <2>3
    <3>2. QED BY <1>6, <1>7, <3>1
  <2>4. QED BY <2>1, <2>2, <2>3
<1>10. /\ Cardinality(P) \in Nat
       /\ \A k \in 1..Cardinality(P) : \E p \in P : Cardinality(Preceding(P, R, p)) = k - 1
  BY <1>5, <1>9, Ranks
<1>11. ASSUME NEW k \in 1..Cardinality(P)
       PROVE  L!NthOf(P, k) \in P /\ Cardinality(Preceding(P, R, L!NthOf(P, k))) = k - 1
  <2>1. PICK p \in P : Cardinality(Preceding(P, R, p)) = k - 1 BY <1>10
  <2>2. Preceding(P, R, p) = {q \in P : L!Before(q, p)} BY <1>8 DEF Preceding
  <2>3. L!Cardinality({q \in P : L!Before(q, p)}) = k - 1
    <3>1. Cardinality({q \in P : L!Before(q, p)}) = k - 1 BY <2>1, <2>2
    <3> DEFINE earlier == {q \in P : L!Before(q, p)}
    <3>2. L!Cardinality(earlier) = Cardinality(earlier) BY LayoutCardinality
    <3>3. QED BY <3>1, <3>2
  <2> DEFINE nth == L!NthOf(P, k)
  <2>4. nth \in P /\ L!Cardinality({q \in P : L!Before(q, nth)}) = k - 1 BY <2>3 DEF L!NthOf
  <2> HIDE DEF nth
  <2>5. Preceding(P, R, nth) = {q \in P : L!Before(q, nth)} BY <1>8, <2>4 DEF Preceding
  <2>6. Cardinality(Preceding(P, R, nth)) = k - 1
    <3> DEFINE earlier == {q \in P : L!Before(q, nth)}
    <3>1. L!Cardinality(earlier) = Cardinality(earlier) BY LayoutCardinality
    <3>2. QED BY <2>4, <2>5, <3>1
  <2>7. QED BY <2>4, <2>6 DEF nth
<1>12. t = [k \in 1..Cardinality(P) |-> lists[L!NthOf(P, k)[1]][L!NthOf(P, k)[2]]]
  BY LayoutCardinality DEF L!Flat, P
<1> HIDE DEF t
<1>13. IsSeq(t) /\ DOMAIN t = 1..Cardinality(P) BY <1>10, <1>12 DEF IsSeq
<1> DEFINE n == Cardinality(P)
           rank == [p \in P |-> Cardinality(Preceding(P, R, p))]
           f == [k \in 1..n |-> L!NthOf(P, k)]
<1>14. \A p \in P : rank[p] = Cardinality(Preceding(P, R, p)) OBVIOUS
<1>15. \A k \in 1..n : f[k] = L!NthOf(P, k) OBVIOUS
<1>16. n \in Nat /\ \A p \in P : rank[p] \in 0..(n - 1) BY <1>5, <1>9, <1>10, Ranks
<1>17. \A p, q \in P : <<p, q>> \in R => rank[p] < rank[q]
  <2>1. \A p, q \in P : <<p, q>> \in R => Cardinality(Preceding(P, R, p)) < Cardinality(Preceding(P, R, q))
    BY <1>5, <1>9, Ranks
  <2>2. QED BY <1>14, <2>1
<1>18. ASSUME NEW k \in 1..n PROVE f[k] \in P /\ rank[f[k]] = k - 1
  BY <1>11, <1>14, <1>15
<1>19. f = [k \in 1..n |-> f[k]] OBVIOUS
<1>20. Len(t) = n BY <1>10, <1>13, LenIsDomain
<1>21. \A k \in 1..n : t[k] = lists[f[k][1]][f[k][2]] BY <1>12, <1>15
<1> HIDE DEF n, rank, f
<1>22. f \in [1..n -> P] BY <1>18, <1>19
<1>23. ASSUME NEW p \in P, NEW q \in P, rank[p] = rank[q] PROVE p = q
  <2>1. <<p, q>> \notin R /\ <<q, p>> \notin R BY <1>16, <1>17, <1>23
  <2>2. QED BY <1>9, <2>1
<1>24. ASSUME NEW p \in P PROVE \E k \in 1..n : f[k] = p
  <2> DEFINE k == rank[p] + 1
  <2>1. k \in 1..n /\ k - 1 = rank[p] BY <1>16
  <2>2. f[k] \in P /\ rank[f[k]] = rank[p] BY <1>18, <2>1
  <2>3. QED BY <1>23, <2>1, <2>2
<1>25. ASSUME NEW j \in 1..n, NEW k \in 1..n, j < k PROVE L!Before(f[j], f[k])
  <2>1. f[j] \in P /\ f[k] \in P /\ rank[f[j]] = j - 1 /\ rank[f[k]] = k - 1 BY <1>18
  <2>2. <<f[k], f[j]>> \notin R
    <3>1. <<f[k], f[j]>> \in R => rank[f[k]] < rank[f[j]] BY <1>17, <2>1
    <3>2. QED BY <1>16, <1>25, <2>1, <3>1
  <2>3. f[j] # f[k] BY <1>16, <1>25, <2>1
  <2>4. <<f[j], f[k]>> \in R BY <1>9, <2>1, <2>2, <2>3
  <2>5. QED BY <1>8, <2>1, <2>4
<1>26. IsFlat(t, lists, f) BY <1>13, <1>20, <1>21, <1>22, <1>24, <1>25 DEF IsFlat, P
<1>27. QED BY <1>26 DEF t

\* Every place of the result is that of an element of a list.
LEMMA FlatIsSeq ==
    ASSUME NEW lists, IsSeq(lists), \A k \in DOMAIN lists : IsSeq(lists[k])
    PROVE  /\ IsSeq(L!Flat(lists))
           /\ \A k \in DOMAIN L!Flat(lists) : \E j \in DOMAIN lists : \E i \in DOMAIN lists[j] : L!Flat(lists)[k] = lists[j][i]
<1> DEFINE t == L!Flat(lists)
<1>1. PICK f : IsFlat(t, lists, f) BY FlatInOrder
<1> HIDE DEF t
<1>2. IsSeq(t) /\ DOMAIN t = 1..Len(t) BY <1>1, LenIsDomain DEF IsFlat
<1>3. ASSUME NEW k \in DOMAIN t PROVE \E j \in DOMAIN lists : \E i \in DOMAIN lists[j] : t[k] = lists[j][i]
  <2>1. f[k] \in L!Places(lists) /\ t[k] = lists[f[k][1]][f[k][2]] BY <1>1, <1>2 DEF IsFlat
  <2>2. PICK j \in DOMAIN lists : \E i \in DOMAIN lists[j] : f[k] = <<j, i>> BY <2>1 DEF L!Places
  <2>3. QED BY <2>1, <2>2
<1>4. QED BY <1>2, <1>3 DEF t

LEMMA Some ==
    ASSUME NEW s, IsSeq(s), NEW K \in SUBSET DOMAIN s
    PROVE  IsSeq(L!At(s, K)) /\ Elements(L!At(s, K)) \subseteq Elements(s)
<1> DEFINE t == L!At(s, K)
<1>1. IsAt(t, s, K) BY LayoutAt
<1> HIDE DEF t
<1>2. IsSeq(t) /\ DOMAIN t = 1..Len(t) BY <1>1, LenIsDomain DEF IsAt
<1>3. PICK f \in [1..Len(t) -> K] : \A k \in 1..Len(t) : t[k] = s[f[k]] BY <1>1 DEF IsAt
<1>4. \A k \in DOMAIN t : f[k] \in DOMAIN s /\ t[k] = s[f[k]] BY <1>2, <1>3
<1>5. QED BY <1>2, <1>4 DEF t, Elements

\* The folders in their order, and those but one.
LEMMA FoldersInOrder ==
    ASSUME NEW ps, IsPresets(ps)
    PROVE  /\ IsSeq(L!FolderOrder(ps)) /\ Elements(L!FolderOrder(ps)) \subseteq L!FoldersOf(ps)
           /\ \A f : IsSeq(L!OtherFolders(ps, f)) /\ Elements(L!OtherFolders(ps, f)) \subseteq L!FoldersOf(ps)
<1> DEFINE K == {k \in DOMAIN ps : \A j \in 1..(k - 1) : ps[j].folder # ps[k].folder}
           first == L!At(ps, K)
           order == L!FolderOrder(ps)
<1>1. order = [k \in DOMAIN first |-> first[k].folder] BY DEF L!FolderOrder
<1>2. K \in SUBSET DOMAIN ps OBVIOUS
<1> HIDE DEF K
<1>3. IsSeq(first) /\ Elements(first) \subseteq Elements(ps) BY <1>2, Some DEF IsPresets
<1> HIDE DEF first, order
<1>4. Len(first) \in Nat /\ DOMAIN first = 1..Len(first) BY <1>3, LenIsDomain
<1>5. IsSeq(order) /\ DOMAIN order = DOMAIN first BY <1>1, <1>4 DEF IsSeq
<1>6. \A k \in DOMAIN order : order[k] \in L!FoldersOf(ps) BY <1>1, <1>3, <1>5 DEF Elements, L!FoldersOf
<1>7. Elements(order) \subseteq L!FoldersOf(ps) BY <1>6 DEF Elements
<1>8. ASSUME NEW f
      PROVE  IsSeq(L!OtherFolders(ps, f)) /\ Elements(L!OtherFolders(ps, f)) \subseteq L!FoldersOf(ps)
  <2> DEFINE O == {k \in DOMAIN order : order[k] # f}
  <2>1. L!OtherFolders(ps, f) = L!At(order, O) BY DEF L!OtherFolders, order
  <2>2. O \in SUBSET DOMAIN order OBVIOUS
  <2> HIDE DEF O
  <2>3. IsSeq(L!At(order, O)) /\ Elements(L!At(order, O)) \subseteq Elements(order) BY <1>5, <2>2, Some
  <2>4. QED BY <1>7, <2>1, <2>3
<1>9. QED BY <1>5, <1>7, <1>8 DEF order

\* An element put in at a place counted from 0, or at the end.
LEMMA InsertIsSeq ==
    ASSUME NEW s, IsSeq(s), NEW i \in Nat, NEW x
    PROVE  IsSeq(L!Insert(s, i, x)) /\ Elements(L!Insert(s, i, x)) \subseteq Elements(s) \cup {x}
<1> DEFINE S == Elements(s) \cup {x}
           b == IF i < Len(s) THEN i ELSE Len(s)
<1>1. L!Insert(s, i, x) = SubSeq(s, 1, b) \o <<x>> \o SubSeq(s, b + 1, Len(s)) BY DEF L!Insert
<1>2. s \in Seq(S) /\ Len(s) \in Nat /\ DOMAIN s = 1..Len(s) BY IsSeqOfElements
<1>3. b \in 0..Len(s) BY <1>2
<1>4. x \in S OBVIOUS
<1> HIDE DEF S, b
<1>5. SubSeq(s, 1, b) \in Seq(S) /\ SubSeq(s, b + 1, Len(s)) \in Seq(S)
  <2>1. \A j \in 1..Len(s) : s[j] \in S BY <1>2, ElementOfSeq
  <2>2. \A j \in 1..b : s[j] \in S BY <1>2, <1>3, <2>1
  <2>3. \A j \in (b + 1)..Len(s) : s[j] \in S BY <1>2, <1>3, <2>1
  <2>4. b \in Int /\ b + 1 \in Int /\ Len(s) \in Int /\ 1 \in Int BY <1>2, <1>3
  <2> DEFINE c == b + 1 n == Len(s)
  <2> HIDE DEF c, n
  <2>5. SubSeq(s, 1, b) \in Seq(S) BY <2>2, <2>4, SubSeqProperties
  <2>6. SubSeq(s, c, n) \in Seq(S) BY <2>3, <2>4, SubSeqProperties DEF c, n
  <2>7. QED BY <2>5, <2>6 DEF c, n
<1>6. <<x>> \in Seq(S) BY <1>4
<1> DEFINE l == SubSeq(s, 1, b) r == SubSeq(s, b + 1, Len(s)) m == <<x>>
<1>7. l \in Seq(S) /\ r \in Seq(S) /\ m \in Seq(S) BY <1>5, <1>6
<1> HIDE DEF l, r, m
<1>8. l \o m \in Seq(S) BY <1>7, ConcatProperties
<1>9. (l \o m) \o r \in Seq(S) BY <1>7, <1>8, ConcatProperties
<1>10. L!Insert(s, i, x) \in Seq(S) BY <1>1, <1>9 DEF l, r, m
<1> DEFINE t == L!Insert(s, i, x)
<1> HIDE DEF t
<1>11. t \in Seq(S) BY <1>10 DEF t
<1>12. IsSeq(t) BY <1>11, SeqIsIsSeq
<1>13. DOMAIN t = 1..Len(t) BY <1>12, LenIsDomain
<1>14. Elements(t) \subseteq S BY <1>11, <1>13, ElementOfSeq DEF Elements
<1>15. QED BY <1>12, <1>14 DEF t, S

LEMMA InsertIsPresets ==
    ASSUME NEW ps, IsPresets(ps), NEW i \in Nat, NEW p, IsPreset(p)
    PROVE  IsPresets(L!Insert(ps, i, p))
<1>1. IsSeq(L!Insert(ps, i, p)) /\ Elements(L!Insert(ps, i, p)) \subseteq Elements(ps) \cup {p}
  BY InsertIsSeq DEF IsPresets
<1> DEFINE t == L!Insert(ps, i, p)
<1> HIDE DEF t
<1>2. IsSeq(t) /\ \A k \in DOMAIN t : t[k] = p \/ \E j \in DOMAIN ps : t[k] = ps[j] BY <1>1 DEF t, Elements
<1>3. IsPresets(t) BY <1>2 DEF IsPresets
<1>4. QED BY <1>3 DEF t

\* The presets of folders put together again.
LEMMA FlattenIsShort ==
    ASSUME NEW ps, NEW order, IsSeq(order), Elements(order) \subseteq L!FoldersOf(ps),
           NEW grouped, \A f \in L!FoldersOf(ps) : IsPresets(grouped[f])
    PROVE  IsShort(L!Flatten(order, grouped))
<1> DEFINE lists == [k \in DOMAIN order |-> grouped[order[k]]]
           t == L!Flat(lists)
<1>1. Len(order) \in Nat /\ DOMAIN order = 1..Len(order) BY LenIsDomain
<1>2. IsSeq(lists) /\ DOMAIN lists = DOMAIN order BY <1>1 DEF IsSeq
<1>3. \A k \in DOMAIN lists : IsPresets(lists[k]) BY DEF Elements
<1> HIDE DEF lists
<1>4. \A k \in DOMAIN lists : IsSeq(lists[k]) BY <1>3 DEF IsPresets
<1>5. /\ IsSeq(t)
      /\ \A k \in DOMAIN t : \E j \in DOMAIN lists : \E i \in DOMAIN lists[j] : t[k] = lists[j][i]
  BY <1>2, <1>4, FlatIsSeq
<1> HIDE DEF t
<1>6. IsPresets(t) BY <1>3, <1>5 DEF IsPresets
<1>7. IsShort(L!Normalize(t)) BY <1>6, NormalizeIsShort
<1>8. QED BY <1>7 DEF L!Flatten, t, lists

LEMMA PartsOfAList ==
    ASSUME NEW ps, IsPresets(ps)
    PROVE  /\ \A f : IsPresets(L!In(ps, f))
           /\ \A N : IsPresets(L!Without(ps, N)) /\ Elements(L!Without(ps, N)) \subseteq Elements(ps)
           /\ \A N : Len(L!Without(ps, N)) <= Len(ps) /\ (OncePerName(ps) => OncePerName(L!Without(ps, N)))
           /\ \A N : IsPresets(L!Named(ps, N))
           /\ \A u : IsPresets(L!Visible(ps, u)) /\ Elements(L!Visible(ps, u)) \subseteq Elements(ps)
<1>1. ASSUME NEW f PROVE IsPresets(L!In(ps, f))
  <2> DEFINE K == {k \in DOMAIN ps : ps[k].folder = f}
  <2>1. L!In(ps, f) = L!At(ps, K) /\ K \in SUBSET DOMAIN ps BY DEF L!In
  <2> HIDE DEF K
  <2>2. QED BY <2>1, SomeOf
<1>2. ASSUME NEW N
      PROVE  /\ IsPresets(L!Without(ps, N)) /\ Elements(L!Without(ps, N)) \subseteq Elements(ps)
             /\ Len(L!Without(ps, N)) <= Len(ps) /\ (OncePerName(ps) => OncePerName(L!Without(ps, N)))
  <2> DEFINE K == {k \in DOMAIN ps : ps[k].name \notin N}
  <2>1. L!Without(ps, N) = L!At(ps, K) /\ K \in SUBSET DOMAIN ps BY DEF L!Without
  <2> HIDE DEF K
  <2>2. QED BY <2>1, SomeOf
<1>3. ASSUME NEW N PROVE IsPresets(L!Named(ps, N))
  <2> DEFINE K == {k \in DOMAIN ps : ps[k].name \in N}
  <2>1. L!Named(ps, N) = L!At(ps, K) /\ K \in SUBSET DOMAIN ps BY DEF L!Named
  <2> HIDE DEF K
  <2>2. QED BY <2>1, SomeOf
<1>4. ASSUME NEW u PROVE IsPresets(L!Visible(ps, u)) /\ Elements(L!Visible(ps, u)) \subseteq Elements(ps)
  <2> DEFINE K == {k \in DOMAIN ps : L!Matches(ps[k], u.query) /\ u.filter \in {NoName, ps[k].folder}}
  <2>1. L!Visible(ps, u) = L!At(ps, K) /\ K \in SUBSET DOMAIN ps BY DEF L!Visible
  <2> HIDE DEF K
  <2>2. QED BY <2>1, SomeOf
<1>5. QED BY <1>1, <1>2, <1>3, <1>4

LEMMA GroupsOfAList ==
    ASSUME NEW ps, IsPresets(ps)
    PROVE  L!Grouped(ps) = [f \in L!FoldersOf(ps) |-> L!In(ps, f)] /\ \A f \in L!FoldersOf(ps) : IsPresets(L!Grouped(ps)[f])
  BY PartsOfAList DEF L!Grouped

LEMMA IndexIsThere ==
    ASSUME NEW ps, NEW n \in L!NamesOf(ps)
    PROVE  L!Index(ps, n) \in DOMAIN ps /\ ps[L!Index(ps, n)].name = n
<1>1. \E k \in DOMAIN ps : ps[k].name = n BY DEF L!NamesOf
<1>2. QED BY <1>1 DEF L!Index

\* Every reordering makes a list that the panel may have.
LEMMA ReorderedIsShort ==
    ASSUME NEW ps, IsPresets(ps)
    PROVE  /\ \A f \in L!FoldersOf(ps), i \in Nat : IsShort(L!FolderToIndex(ps, f, i))
           /\ \A f \in L!FoldersOf(ps) : \A g : IsShort(L!FolderBefore(ps, f, g))
           /\ \A n \in L!NamesOf(ps), i \in Nat : IsShort(L!PresetToIndex(ps, n, i))
           /\ \A n \in L!NamesOf(ps) : \A m : IsShort(L!PresetBefore(ps, n, m))
<1>1. ASSUME NEW f \in L!FoldersOf(ps), NEW i \in Nat
      PROVE  IsShort(L!Flatten(L!Insert(L!OtherFolders(ps, f), i, f), L!Grouped(ps)))
  <2> DEFINE rest == L!OtherFolders(ps, f)
  <2>1. IsSeq(rest) /\ Elements(rest) \subseteq L!FoldersOf(ps) BY FoldersInOrder
  <2> HIDE DEF rest
  <2>2. IsSeq(L!Insert(rest, i, f)) /\ Elements(L!Insert(rest, i, f)) \subseteq Elements(rest) \cup {f}
    BY <2>1, InsertIsSeq
  <2>3. Elements(L!Insert(rest, i, f)) \subseteq L!FoldersOf(ps) BY <2>1, <2>2
  <2>4. IsShort(L!Flatten(L!Insert(rest, i, f), L!Grouped(ps))) BY <2>2, <2>3, GroupsOfAList, FlattenIsShort
  <2>5. QED BY <2>4 DEF rest
<1>2. ASSUME NEW f \in L!FoldersOf(ps), NEW g
      PROVE  IsShort(L!FolderBefore(ps, f, g))
  <2> DEFINE rest == L!OtherFolders(ps, f)
             at == {k \in DOMAIN rest : rest[k] = g}
             i == (CHOOSE k \in at : TRUE) - 1
  <2>1. IsSeq(rest) BY FoldersInOrder
  <2>2. L!FolderBefore(ps, f, g) = IF at = {} THEN L!Normalize(ps) ELSE L!Flatten(L!Insert(rest, i, f), L!Grouped(ps))
    BY DEF L!FolderBefore
  <2>3. CASE at = {} BY <2>2, <2>3, NormalizeIsShort
  <2>4. CASE at # {}
    <3>1. (CHOOSE k \in at : TRUE) \in DOMAIN rest BY <2>4
    <3> HIDE DEF rest
    <3>2. i \in Nat BY <2>1, <3>1, LenIsDomain
    <3> HIDE DEF i
    <3>3. IsShort(L!Flatten(L!Insert(rest, i, f), L!Grouped(ps))) BY <1>1, <3>2 DEF rest
    <3>4. QED BY <2>2, <2>4, <3>3
  <2>5. QED BY <2>3, <2>4
<1>3. ASSUME NEW n \in L!NamesOf(ps), NEW i \in Nat
      PROVE  IsShort(L!PresetToIndex(ps, n, i))
  <2> DEFINE p == ps[L!Index(ps, n)]
             own == L!Insert(L!Without(L!Grouped(ps)[p.folder], {n}), i, p)
             grouped == [L!Grouped(ps) EXCEPT ![p.folder] = own]
  <2>1. IsPreset(p) /\ p.folder \in L!FoldersOf(ps) BY IndexIsThere DEF IsPresets, L!FoldersOf
  <2>2. L!PresetToIndex(ps, n, i) = L!Flatten(L!FolderOrder(ps), grouped) BY DEF L!PresetToIndex
  <2> HIDE DEF p
  <2>3. IsPresets(L!Grouped(ps)[p.folder]) BY <2>1, GroupsOfAList
  <2>4. IsPresets(L!Without(L!Grouped(ps)[p.folder], {n})) BY <2>3, PartsOfAList
  <2>5. IsPresets(own) BY <2>1, <2>4, InsertIsPresets
  <2> HIDE DEF own
  <2>6. \A f \in L!FoldersOf(ps) : IsPresets(grouped[f]) BY <2>5, GroupsOfAList
  <2> HIDE DEF grouped
  <2>7. IsSeq(L!FolderOrder(ps)) /\ Elements(L!FolderOrder(ps)) \subseteq L!FoldersOf(ps) BY FoldersInOrder
  <2>8. QED BY <2>2, <2>6, <2>7, FlattenIsShort
<1>4. ASSUME NEW n \in L!NamesOf(ps), NEW m
      PROVE  IsShort(L!PresetBefore(ps, n, m))
  <2> DEFINE rest == L!Without(L!In(ps, ps[L!Index(ps, n)].folder), {n})
  <2>1. L!PresetBefore(ps, n, m) = IF m \notin L!NamesOf(rest) THEN L!Normalize(ps) ELSE L!PresetToIndex(ps, n, L!Index(rest, m) - 1)
    BY DEF L!PresetBefore
  <2>2. IsPresets(rest)
    <3> DEFINE own == L!In(ps, ps[L!Index(ps, n)].folder)
    <3>1. IsPresets(own) BY PartsOfAList
    <3> HIDE DEF own
    <3>2. IsPresets(L!Without(own, {n})) BY <3>1, PartsOfAList
    <3>3. QED BY <3>2 DEF own
  <2> HIDE DEF rest
  <2>3. CASE m \notin L!NamesOf(rest) BY <2>1, <2>3, NormalizeIsShort
  <2>4. CASE m \in L!NamesOf(rest)
    <3>1. L!Index(rest, m) \in DOMAIN rest BY <2>4, IndexIsThere
    <3>2. DOMAIN rest = 1..Len(rest) /\ Len(rest) \in Nat BY <2>2, LenIsDomain DEF IsPresets
    <3>3. L!Index(rest, m) - 1 \in Nat BY <3>1, <3>2
    <3>4. QED BY <1>3, <2>1, <2>4, <3>3
  <2>5. QED BY <2>3, <2>4
<1>5. QED BY <1>1, <1>2, <1>3, <1>4 DEF L!FolderToIndex

----------------------------------------------------------------------------
(* What a move leaves as it was *)

\* The numbers of a set in their order.
Rises(f, n, K) ==
    /\ f \in [1..n -> K]
    /\ \A j, k \in 1..n : j < k => f[j] < f[k]
    /\ \A i \in K : \E k \in 1..n : f[k] = i

LEMMA RisesByRank ==
    ASSUME NEW K \in SUBSET Int, NEW n \in Nat, NEW f, Rises(f, n, K)
    PROVE  /\ IsFiniteSet(K) /\ Cardinality(K) = n
           /\ \A k \in 1..n : Cardinality(Below(K, f[k])) = k - 1
<1>1. IsFiniteSet(1..n) /\ Cardinality(1..n) = n BY UpTo
<1>2. f \in [1..n -> K] /\ (\A j, k \in 1..n : j < k => f[j] < f[k]) /\ \A i \in K : \E k \in 1..n : f[k] = i
  BY DEF Rises
<1>3. ASSUME NEW j \in 1..n, NEW k \in 1..n, f[j] = f[k] PROVE j = k
  <2>1. f[j] \in Int BY <1>2
  <2>2. ~(j < k) /\ ~(k < j) BY <1>2, <1>3, <2>1
  <2>3. QED BY <2>2
<1>4. f \in Surjection(1..n, K) BY <1>2, Fun_IsSurj
<1>5. f \in Injection(1..n, K) BY <1>2, <1>3, Fun_IsInj
<1>6. IsFiniteSet(K) /\ Cardinality(K) = n BY <1>1, <1>4, <1>5, FS_Surjection
<1>7. ASSUME NEW k \in 1..n PROVE Cardinality(Below(K, f[k])) = k - 1
  <2> DEFINE firstOnes == 1..(k - 1)
             below == Below(K, f[k])
             g == [j \in firstOnes |-> f[j]]
  <2>1. k - 1 \in Nat BY DEF firstOnes
  <2>2. firstOnes \in SUBSET (1..n) OBVIOUS
  <2>3. \A j \in firstOnes : g[j] = f[j] OBVIOUS
  <2>4. \A j \in firstOnes : j < k OBVIOUS
  <2>5. \A j \in 1..n : j < k => j \in firstOnes OBVIOUS
  <2>6. IsFiniteSet(firstOnes) /\ Cardinality(firstOnes) = k - 1 BY <2>1, UpTo
  <2>7. below = {i \in K : i < f[k]} BY DEF Below
  <2>8. g = [j \in firstOnes |-> g[j]] OBVIOUS
  <2> HIDE DEF firstOnes, below, g
  <2>9. \A j \in firstOnes : g[j] \in below BY <1>2, <2>2, <2>3, <2>4, <2>7
  <2>10. \A i \in below : \E j \in firstOnes : g[j] = i
    <3> TAKE i \in below
    <3>1. PICK j \in 1..n : f[j] = i BY <1>2, <2>7
    <3>2. i < f[k] /\ i \in Int /\ f[k] \in Int BY <1>2, <2>7
    <3>3. j # k /\ ~(k < j) BY <1>2, <3>1, <3>2
    <3>4. j < k BY <3>3
    <3>5. QED BY <2>3, <2>5, <3>1, <3>4
  <2>11. \A i, j \in firstOnes : g[i] = g[j] => i = j BY <1>3, <2>2, <2>3
  <2>12. g \in [firstOnes -> below] BY <2>8, <2>9
  <2>13. g \in Surjection(firstOnes, below) /\ g \in Injection(firstOnes, below) BY <2>10, <2>11, <2>12, Fun_IsSurj, Fun_IsInj
  <2>14. Cardinality(below) = Cardinality(firstOnes) BY <2>6, <2>13, FS_Surjection
  <2>15. QED BY <2>6, <2>14 DEF below
<1>8. QED BY <1>6, <1>7

AreTheSame(f, n, g, m) == m = n /\ \A k \in 1..n : f[k] = g[k]

LEMMA RisesOnlyOnce ==
    ASSUME NEW K \in SUBSET Int, NEW m \in Nat, NEW n \in Nat, NEW f, NEW g, Rises(f, n, K), Rises(g, m, K)
    PROVE  AreTheSame(f, n, g, m)
<1>1. /\ IsFiniteSet(K) /\ Cardinality(K) = n /\ Cardinality(K) = m
      /\ \A k \in 1..n : Cardinality(Below(K, f[k])) = k - 1
      /\ \A k \in 1..m : Cardinality(Below(K, g[k])) = k - 1
  BY RisesByRank
<1> DEFINE count == [i \in K |-> Cardinality(Below(K, i))]
<1>2. \A i \in K : count[i] = Cardinality(Below(K, i)) OBVIOUS
<1> HIDE DEF count
<1>3. /\ \A i \in K : count[i] \in 0..(Cardinality(K) - 1)
      /\ \A i, j \in K : i < j => count[i] < count[j]
  BY <1>1, <1>2, Counts
<1>4. ASSUME NEW k \in 1..n PROVE f[k] = g[k]
  <2>1. f[k] \in K /\ g[k] \in K BY <1>1 DEF Rises
  <2>2. count[f[k]] = k - 1 /\ count[g[k]] = k - 1 BY <1>1, <1>2, <2>1
  <2>3. ASSUME NEW i \in K, NEW j \in K, count[i] = k - 1, count[j] = k - 1 PROVE i = j
    <3>1. ~(i < j) /\ ~(j < i) BY <1>3, <2>3
    <3>2. i \in Int /\ j \in Int OBVIOUS
    <3>3. QED BY <3>1, <3>2
  <2>4. QED BY <2>1, <2>2, <2>3
<1>5. QED BY <1>1, <1>4 DEF AreTheSame

\* The elements at some places are the sequence that takes them in their order.
LEMMA TakenInOrder ==
    ASSUME NEW s, IsSeq(s), NEW K \in SUBSET DOMAIN s, NEW u, IsSeq(u), NEW g, Rises(g, Len(u), K),
           \A k \in DOMAIN u : u[k] = s[g[k]]
    PROVE  L!At(s, K) = u
<1> DEFINE t == L!At(s, K)
<1>1. IsAt(t, s, K) BY LayoutAt
<1> HIDE DEF t
<1>2. IsSeq(t) /\ Len(t) \in Nat /\ DOMAIN t = 1..Len(t) BY <1>1, LenIsDomain DEF IsAt
<1>3. Len(u) \in Nat /\ DOMAIN u = 1..Len(u) BY LenIsDomain
<1>4. K \in SUBSET Int BY PlacesAreFinite
<1>5. PICK f : Rises(f, Len(t), K) /\ \A k \in 1..Len(t) : t[k] = s[f[k]] BY <1>1 DEF IsAt, Rises
<1>6. Len(t) = Len(u) /\ \A k \in 1..Len(u) : f[k] = g[k]
  <2> DEFINE many == Len(t)
             all == Len(u)
  <2>1. many \in Nat /\ all \in Nat /\ Rises(f, many, K) /\ Rises(g, all, K) BY <1>2, <1>3, <1>5
  <2> HIDE DEF many, all
  <2>2. AreTheSame(f, many, g, all) BY <1>4, <2>1, RisesOnlyOnce
  <2>3. QED BY <2>2 DEF many, all, AreTheSame
<1>7. \A k \in 1..Len(u) : t[k] = u[k] BY <1>3, <1>5, <1>6
<1>8. t = [k \in 1..Len(t) |-> t[k]] /\ u = [k \in 1..Len(u) |-> u[k]] BY <1>2 DEF IsSeq
<1>9. t = u BY <1>6, <1>7, <1>8
<1>10. QED BY <1>9 DEF t

\* All of a list, and of a list without two presets of a name nothing is dropped.
LEMMA ShortIsNormal ==
    ASSUME NEW ps, IsShort(ps)
    PROVE  L!Normalize(ps) = ps
<1> DEFINE K == {k \in DOMAIN ps : \A j \in 1..(k - 1) : ps[j].name # ps[k].name}
           once == L!At(ps, K)
           g == [k \in 1..Len(ps) |-> k]
<1>1. L!Normalize(ps) = SubSeq(once, 1, IF Len(once) < MaxPresets THEN Len(once) ELSE MaxPresets)
  BY DEF L!Normalize
<1>2. IsSeq(ps) /\ Len(ps) \in Nat /\ DOMAIN ps = 1..Len(ps) /\ Len(ps) <= MaxPresets /\ OncePerName(ps)
  BY LenIsDomain DEF IsShort, IsPresets
<1>3. K = DOMAIN ps
  <2> SUFFICES ASSUME NEW k \in DOMAIN ps, NEW j \in 1..(k - 1), ps[j].name = ps[k].name PROVE FALSE
    OBVIOUS
  <2>1. j \in DOMAIN ps /\ j # k BY <1>2
  <2>2. QED BY <1>2, <2>1 DEF OncePerName
<1> HIDE DEF K
<1>4. Rises(g, Len(ps), K) BY <1>2, <1>3 DEF Rises
<1>5. \A k \in DOMAIN ps : ps[k] = ps[g[k]] BY <1>2
<1> HIDE DEF g
<1>6. once = ps BY <1>2, <1>3, <1>4, <1>5, TakenInOrder
<1> HIDE DEF once
<1>7. MaxPresets \in Nat BY DesktopAssumption DEF DesktopAssumption
<1>8. L!Normalize(ps) = SubSeq(ps, 1, Len(ps))
  <2> DEFINE n == Len(ps)
  <2>1. (IF n < MaxPresets THEN n ELSE MaxPresets) = n
    <3>1. n \in Nat /\ n <= MaxPresets BY <1>2
    <3> HIDE DEF n
    <3>2. QED BY <1>7, <3>1
  <2>2. L!Normalize(ps) = SubSeq(ps, 1, IF Len(ps) < MaxPresets THEN Len(ps) ELSE MaxPresets) BY <1>1, <1>6
  <2>3. QED BY <2>1, <2>2
<1>9. IsSeq(SubSeq(ps, 1, Len(ps))) /\ Len(SubSeq(ps, 1, Len(ps))) = Len(ps)
      /\ \A k \in 1..Len(ps) : SubSeq(ps, 1, Len(ps))[k] = ps[k]
  <2>1. Len(ps) \in 0..Len(ps) BY <1>2
  <2>2. QED BY <1>2, <2>1, Beginning
<1> DEFINE t == SubSeq(ps, 1, Len(ps))
<1> HIDE DEF t
<1>10. t = [k \in 1..Len(t) |-> t[k]] /\ ps = [k \in 1..Len(ps) |-> ps[k]] BY <1>2, <1>9 DEF IsSeq, t
<1>11. t = ps BY <1>9, <1>10 DEF t
<1>12. QED BY <1>8, <1>11 DEF t

AreSeqs(lists) == IsSeq(lists) /\ \A a \in DOMAIN lists : IsSeq(lists[a])

LEMMA PlacesOfLists ==
    ASSUME NEW lists, AreSeqs(lists)
    PROVE  /\ \A p \in L!Places(lists) :
                /\ p = <<p[1], p[2]>> /\ p[1] \in DOMAIN lists /\ p[2] \in DOMAIN lists[p[1]]
                /\ p[1] \in Int /\ p[2] \in Int
           /\ \A a \in DOMAIN lists : \A i \in DOMAIN lists[a] : <<a, i>> \in L!Places(lists)
<1>1. L!Places(lists) = UNION {{<<k, i>> : i \in DOMAIN lists[k]} : k \in DOMAIN lists} BY DEF L!Places
<1>2. DOMAIN lists \subseteq Int /\ \A a \in DOMAIN lists : DOMAIN lists[a] \subseteq Int
  <2>1. DOMAIN lists \subseteq Int BY LenIsDomain DEF AreSeqs
  <2>2. ASSUME NEW a \in DOMAIN lists PROVE DOMAIN lists[a] \subseteq Int
    <3> DEFINE s == lists[a]
    <3>1. IsSeq(s) BY DEF AreSeqs
    <3> HIDE DEF s
    <3>2. DOMAIN s \subseteq Int BY <3>1, LenIsDomain
    <3>3. QED BY <3>2 DEF s
  <2>3. QED BY <2>1, <2>2
<1>3. \A p \in L!Places(lists) : p = <<p[1], p[2]>> /\ p[1] \in DOMAIN lists /\ p[2] \in DOMAIN lists[p[1]]
  BY <1>1
<1>4. \A a \in DOMAIN lists : \A i \in DOMAIN lists[a] : <<a, i>> \in L!Places(lists) BY <1>1
<1>5. QED BY <1>2, <1>3, <1>4

\* Every place of the lists has its number in the flat one, and they count up together.
LEMMA FlatNumbers ==
    ASSUME NEW lists, AreSeqs(lists), NEW t, NEW f, IsFlat(t, lists, f)
    PROVE  /\ \A p \in L!Places(lists) : \E k \in 1..Len(t) : f[k] = p
           /\ \A k \in 1..Len(t) : f[k] \in L!Places(lists) /\ t[k] = lists[f[k][1]][f[k][2]]
           /\ \A j, k \in 1..Len(t) : j < k <=> L!Before(f[j], f[k])
           /\ \A j, k \in 1..Len(t) : f[j] = f[k] => j = k
<1>1. /\ f \in [1..Len(t) -> L!Places(lists)] /\ Len(t) \in Nat
      /\ \A k \in 1..Len(t) : t[k] = lists[f[k][1]][f[k][2]]
      /\ \A j, k \in 1..Len(t) : j < k => L!Before(f[j], f[k])
      /\ \A p \in L!Places(lists) : \E k \in 1..Len(t) : f[k] = p
  BY DEF IsFlat, IsSeq
<1>2. \A p, q \in L!Places(lists) : L!Before(p, q) => p # q /\ ~L!Before(q, p)
  BY PlacesOfLists DEF L!Before
<1>3. ASSUME NEW j \in 1..Len(t), NEW k \in 1..Len(t), f[j] = f[k] PROVE j = k
  <2>1. ~L!Before(f[j], f[k]) /\ ~L!Before(f[k], f[j]) BY <1>1, <1>2, <1>3
  <2>2. ~(j < k) /\ ~(k < j) BY <1>1, <2>1
  <2>3. QED BY <2>2
<1>4. ASSUME NEW j \in 1..Len(t), NEW k \in 1..Len(t), L!Before(f[j], f[k]) PROVE j < k
  <2>1. f[j] # f[k] /\ ~L!Before(f[k], f[j]) BY <1>1, <1>2, <1>4
  <2>2. j # k /\ ~(k < j) BY <1>1, <2>1
  <2>3. QED BY <2>2
<1>5. QED BY <1>1, <1>3, <1>4

\* Each list is a part of the flat one.
LEMMA PartOfFlat ==
    ASSUME NEW lists, AreSeqs(lists), NEW t, NEW f, IsFlat(t, lists, f), NEW a \in DOMAIN lists,
           NEW K, K = {k \in DOMAIN t : f[k][1] = a}
    PROVE  L!At(t, K) = lists[a]
<1> DEFINE u == lists[a]
           g == [i \in 1..Len(u) |-> CHOOSE k \in 1..Len(t) : f[k] = <<a, i>>]
<1>1. IsSeq(t) /\ DOMAIN t = 1..Len(t) /\ Len(t) \in Nat BY LenIsDomain DEF IsFlat
<1>2. IsSeq(u) BY DEF AreSeqs
<1>3. \A i \in DOMAIN u : <<a, i>> \in L!Places(lists) BY PlacesOfLists
<1>4. \A p \in L!Places(lists) : p[1] = a => p[2] \in DOMAIN u /\ p = <<a, p[2]>> BY PlacesOfLists
<1>5. g = [i \in 1..Len(u) |-> g[i]] OBVIOUS
<1>6. \A i \in 1..Len(u) : g[i] = CHOOSE k \in 1..Len(t) : f[k] = <<a, i>> OBVIOUS
<1> HIDE DEF g
<1>7. \A i \in DOMAIN u : <<a, i>>[1] = a /\ <<a, i>>[2] = i /\ \A k \in 1..Len(t) : f[k] = <<a, i>> => u[i] = t[k]
  BY <1>3, FlatNumbers
<1> HIDE DEF u
<1>8. Len(u) \in Nat /\ DOMAIN u = 1..Len(u) BY <1>2, LenIsDomain
<1>9. \A i \in 1..Len(u) : g[i] \in 1..Len(t) /\ f[g[i]] = <<a, i>> /\ g[i] \in K
  <2> TAKE i \in 1..Len(u)
  <2>1. <<a, i>> \in L!Places(lists) BY <1>3, <1>8
  <2>2. \E k \in 1..Len(t) : f[k] = <<a, i>> BY <2>1, FlatNumbers
  <2>3. g[i] \in 1..Len(t) /\ f[g[i]] = <<a, i>> BY <1>6, <2>2
  <2>4. g[i] \in DOMAIN t /\ f[g[i]][1] = a BY <1>1, <1>7, <1>8, <2>3
  <2>5. QED BY <2>3, <2>4
<1>10. ASSUME NEW i \in 1..Len(u), NEW j \in 1..Len(u), i < j PROVE g[i] < g[j]
  <2>1. L!Before(<<a, i>>, <<a, j>>) BY <1>10 DEF L!Before
  <2>2. L!Before(f[g[i]], f[g[j]]) BY <1>9, <2>1
  <2>3. QED BY <1>9, <2>2, FlatNumbers
<1>11. ASSUME NEW k \in K PROVE \E i \in 1..Len(u) : g[i] = k
  <2>1. k \in 1..Len(t) /\ f[k] \in L!Places(lists) /\ f[k][1] = a BY <1>1, FlatNumbers
  <2> DEFINE i == f[k][2]
  <2>2. i \in 1..Len(u) /\ f[k] = <<a, i>> BY <1>4, <1>8, <2>1
  <2>3. f[g[i]] = f[k] BY <1>9, <2>2
  <2>4. g[i] = k BY <1>9, <2>1, <2>2, <2>3, FlatNumbers
  <2>5. QED BY <2>2, <2>4
<1>12. Rises(g, Len(u), K) BY <1>5, <1>9, <1>10, <1>11 DEF Rises
<1>13. \A i \in DOMAIN u : u[i] = t[g[i]] BY <1>7, <1>8, <1>9
<1>14. K \in SUBSET DOMAIN t OBVIOUS
<1>15. L!At(t, K) = u BY <1>1, <1>2, <1>12, <1>13, <1>14, TakenInOrder
<1>16. QED BY <1>15 DEF u

\* The first of each list, where none is empty.
LEMMA HeadsOfFlat ==
    ASSUME NEW lists, AreSeqs(lists), NEW t, NEW f, IsFlat(t, lists, f), \A a \in DOMAIN lists : 1 \in DOMAIN lists[a],
           NEW K, K = {k \in DOMAIN t : f[k][2] = 1}
    PROVE  L!At(t, K) = [a \in DOMAIN lists |-> lists[a][1]]
<1> DEFINE u == [a \in DOMAIN lists |-> lists[a][1]]
           g == [a \in 1..Len(u) |-> CHOOSE k \in 1..Len(t) : f[k] = <<a, 1>>]
<1>1. IsSeq(t) /\ DOMAIN t = 1..Len(t) /\ Len(t) \in Nat BY LenIsDomain DEF IsFlat
<1>2. DOMAIN lists = 1..Len(lists) /\ Len(lists) \in Nat BY LenIsDomain DEF AreSeqs
<1>3. IsSeq(u) /\ DOMAIN u = DOMAIN lists BY <1>2 DEF IsSeq
<1>4. \A a \in DOMAIN u : <<a, 1>> \in L!Places(lists) /\ u[a] = lists[a][1] BY <1>3, PlacesOfLists
<1>5. g = [a \in 1..Len(u) |-> g[a]] OBVIOUS
<1>6. \A a \in 1..Len(u) : g[a] = CHOOSE k \in 1..Len(t) : f[k] = <<a, 1>> OBVIOUS
<1> HIDE DEF g, u
<1>7. \A a \in DOMAIN u : <<a, 1>>[1] = a /\ <<a, 1>>[2] = 1 /\ \A k \in 1..Len(t) : f[k] = <<a, 1>> => u[a] = t[k]
  <2> TAKE a \in DOMAIN u
  <2>1. <<a, 1>>[1] = a /\ <<a, 1>>[2] = 1 OBVIOUS
  <2>2. ASSUME NEW k \in 1..Len(t), f[k] = <<a, 1>> PROVE u[a] = t[k]
    <3>1. t[k] = lists[f[k][1]][f[k][2]] BY FlatNumbers
    <3>2. t[k] = lists[a][1] BY <2>1, <2>2, <3>1
    <3>3. QED BY <1>4, <3>2
  <2>3. QED BY <2>1, <2>2
<1>8. Len(u) \in Nat /\ DOMAIN u = 1..Len(u) BY <1>3, LenIsDomain
<1>9. \A a \in 1..Len(u) : g[a] \in 1..Len(t) /\ f[g[a]] = <<a, 1>> /\ g[a] \in K
  <2> TAKE a \in 1..Len(u)
  <2>1. <<a, 1>> \in L!Places(lists) BY <1>4, <1>8
  <2>2. \E k \in 1..Len(t) : f[k] = <<a, 1>> BY <2>1, FlatNumbers
  <2>3. g[a] \in 1..Len(t) /\ f[g[a]] = <<a, 1>> BY <1>6, <2>2
  <2>4. g[a] \in DOMAIN t /\ f[g[a]][2] = 1 BY <1>1, <1>7, <1>8, <2>3
  <2>5. QED BY <2>3, <2>4
<1>10. ASSUME NEW i \in 1..Len(u), NEW j \in 1..Len(u), i < j PROVE g[i] < g[j]
  <2>1. L!Before(<<i, 1>>, <<j, 1>>) BY <1>10 DEF L!Before
  <2>2. L!Before(f[g[i]], f[g[j]]) BY <1>9, <2>1
  <2>3. QED BY <1>9, <2>2, FlatNumbers
<1>11. ASSUME NEW k \in K PROVE \E i \in 1..Len(u) : g[i] = k
  <2>1. k \in 1..Len(t) /\ f[k] \in L!Places(lists) /\ f[k][2] = 1 BY <1>1, FlatNumbers
  <2> DEFINE i == f[k][1]
  <2>2. i \in 1..Len(u) /\ f[k] = <<i, 1>> BY <1>3, <1>8, <2>1, PlacesOfLists
  <2>3. f[g[i]] = f[k] BY <1>9, <2>2
  <2>4. g[i] = k BY <1>9, <2>1, <2>2, <2>3, FlatNumbers
  <2>5. QED BY <2>2, <2>4
<1>12. Rises(g, Len(u), K) BY <1>5, <1>9, <1>10, <1>11 DEF Rises
<1>13. \A i \in DOMAIN u : u[i] = t[g[i]] BY <1>7, <1>8, <1>9
<1>14. K \in SUBSET DOMAIN t OBVIOUS
<1>15. L!At(t, K) = u BY <1>1, <1>3, <1>12, <1>13, <1>14, TakenInOrder
<1>16. QED BY <1>15 DEF u

\* Lists of presets, each of one folder, in an order of the folders.
ByFolder(lists, order) ==
    /\ AreSeqs(lists) /\ IsSeq(order) /\ DOMAIN lists = DOMAIN order
    /\ \A a, b \in DOMAIN order : order[a] = order[b] => a = b
    /\ \A a \in DOMAIN order :
         /\ 1 \in DOMAIN lists[a]
         /\ \A i \in DOMAIN lists[a] : IsPreset(lists[a][i]) /\ lists[a][i].folder = order[a]

\* They are of one list, and no two have one name.
AreApart(lists) ==
    \A a, b \in DOMAIN lists : \A i \in DOMAIN lists[a], j \in DOMAIN lists[b] :
        lists[a][i].name = lists[b][j].name => a = b /\ i = j

AreOf(lists, ps) == \A a \in DOMAIN lists : Elements(lists[a]) \subseteq Elements(ps)

LEMMA FlatByFolder ==
    ASSUME NEW lists, NEW order, ByFolder(lists, order), NEW t, NEW f, IsFlat(t, lists, f)
    PROVE  L!FolderOrder(t) = order /\ \A a \in DOMAIN order : L!In(t, order[a]) = lists[a]
<1> DEFINE K == {k \in DOMAIN t : \A j \in 1..(k - 1) : t[j].folder # t[k].folder}
<1>1. AreSeqs(lists) /\ DOMAIN lists = DOMAIN order BY DEF ByFolder
<1>2. IsSeq(t) /\ DOMAIN t = 1..Len(t) /\ Len(t) \in Nat BY LenIsDomain DEF IsFlat
<1>3. ASSUME NEW k \in 1..Len(t)
      PROVE  /\ f[k][1] \in DOMAIN order /\ f[k][2] \in DOMAIN lists[f[k][1]] /\ t[k].folder = order[f[k][1]]
             /\ f[k][1] \in Int /\ f[k][2] \in Int /\ f[k][2] >= 1 /\ f[k] = <<f[k][1], f[k][2]>>
  <2>1. f[k] \in L!Places(lists) /\ t[k] = lists[f[k][1]][f[k][2]] BY <1>1, FlatNumbers
  <2> DEFINE a == f[k][1]
             i == f[k][2]
             s == lists[a]
  <2>2. f[k] = <<a, i>> /\ a \in DOMAIN lists /\ i \in DOMAIN s /\ a \in Int /\ i \in Int
    BY <1>1, <2>1, PlacesOfLists
  <2>3. t[k].folder = order[a] BY <1>1, <2>1, <2>2 DEF ByFolder
  <2>4. IsSeq(s) BY <1>1, <2>2 DEF AreSeqs
  <2> HIDE DEF a, i, s
  <2>5. i >= 1 BY <2>2, <2>4, LenIsDomain
  <2>6. QED BY <1>1, <2>2, <2>3, <2>5 DEF a, i, s
<1>4. \A a, b \in DOMAIN order : order[a] = order[b] => a = b BY DEF ByFolder
<1>5. \A a \in DOMAIN order : 1 \in DOMAIN lists[a] BY DEF ByFolder
<1>6. ASSUME NEW a \in DOMAIN order PROVE L!In(t, order[a]) = lists[a]
  <2> DEFINE I == {k \in DOMAIN t : t[k].folder = order[a]}
  <2>1. L!In(t, order[a]) = L!At(t, I) BY DEF L!In
  <2>2. I = {k \in DOMAIN t : f[k][1] = a} BY <1>2, <1>3, <1>4
  <2> HIDE DEF I
  <2>3. L!At(t, I) = lists[a] BY <1>1, <2>2, PartOfFlat
  <2>4. QED BY <2>1, <2>3
<1>7. ASSUME NEW k \in DOMAIN t, f[k][2] = 1, NEW j \in 1..(k - 1) PROVE t[j].folder # t[k].folder
  <2>1. k \in 1..Len(t) /\ j \in 1..Len(t) /\ j < k BY <1>2
  <2>2. L!Before(f[j], f[k]) BY <1>1, <2>1, FlatNumbers
  <2>3. f[j][1] # f[k][1] BY <1>3, <1>7, <2>1, <2>2 DEF L!Before
  <2>4. QED BY <1>3, <1>4, <2>1, <2>3
<1>8. ASSUME NEW k \in DOMAIN t, f[k][2] # 1 PROVE \E j \in 1..(k - 1) : t[j].folder = t[k].folder
  <2> DEFINE a == f[k][1]
  <2>1. k \in 1..Len(t) /\ a \in DOMAIN order /\ t[k].folder = order[a] /\ a \in Int BY <1>2, <1>3
  <2>2. <<a, 1>> \in L!Places(lists) BY <1>1, <1>5, <2>1, PlacesOfLists
  <2>3. PICK j \in 1..Len(t) : f[j] = <<a, 1>> BY <1>1, <2>2, FlatNumbers
  <2>4. f[j][1] = a /\ f[j][2] = 1 BY <2>3
  <2>5. L!Before(f[j], f[k])
    <3>1. f[k][2] \in Int /\ f[k][2] >= 1 BY <1>3, <2>1
    <3>2. f[j][1] = f[k][1] /\ f[j][2] < f[k][2] BY <1>8, <2>4, <3>1
    <3>3. QED BY <3>2 DEF L!Before
  <2>6. j < k BY <1>1, <2>1, <2>5, FlatNumbers
  <2>7. t[j].folder = t[k].folder BY <1>3, <2>1, <2>4
  <2>8. QED BY <2>1, <2>6, <2>7
<1>9. K = {k \in DOMAIN t : f[k][2] = 1} BY <1>7, <1>8
<1>10. L!FolderOrder(t) = [k \in DOMAIN L!At(t, K) |-> L!At(t, K)[k].folder] BY DEF L!FolderOrder
<1> HIDE DEF K
<1>11. L!At(t, K) = [a \in DOMAIN lists |-> lists[a][1]] BY <1>1, <1>5, <1>9, HeadsOfFlat
<1>12. L!FolderOrder(t) = [a \in DOMAIN order |-> lists[a][1].folder] BY <1>1, <1>10, <1>11
<1>13. \A a \in DOMAIN order : lists[a][1].folder = order[a] BY DEF ByFolder
<1>14. order = [a \in DOMAIN order |-> order[a]]
  <2>1. DOMAIN order = 1..Len(order) /\ order = [a \in 1..Len(order) |-> order[a]] BY LenIsDomain DEF ByFolder, IsSeq
  <2>2. QED BY <2>1
<1>15. L!FolderOrder(t) = order BY <1>12, <1>13, <1>14
<1>16. QED BY <1>6, <1>15

LEMMA FlatIsShort ==
    ASSUME NEW lists, NEW order, ByFolder(lists, order), AreApart(lists),
           NEW ps, IsShort(ps), AreOf(lists, ps), NEW t, NEW f, IsFlat(t, lists, f)
    PROVE  IsShort(t)
<1>1. AreSeqs(lists) /\ DOMAIN lists = DOMAIN order BY DEF ByFolder
<1>2. IsSeq(t) /\ DOMAIN t = 1..Len(t) /\ Len(t) \in Nat BY LenIsDomain DEF IsFlat
<1>3. ASSUME NEW k \in 1..Len(t)
      PROVE  /\ f[k][1] \in DOMAIN lists /\ f[k][2] \in DOMAIN lists[f[k][1]]
             /\ t[k] = lists[f[k][1]][f[k][2]] /\ f[k] = <<f[k][1], f[k][2]>>
  <2>1. f[k] \in L!Places(lists) /\ t[k] = lists[f[k][1]][f[k][2]] BY <1>1, FlatNumbers
  <2>2. QED BY <1>1, <2>1, PlacesOfLists
<1>4. \A k \in DOMAIN t : IsPreset(t[k]) BY <1>1, <1>2, <1>3 DEF ByFolder
<1>5. OncePerName(t)
  <2> SUFFICES ASSUME NEW j \in DOMAIN t, NEW k \in DOMAIN t, t[j].name = t[k].name PROVE j = k
    BY DEF OncePerName
  <2>1. f[j][1] = f[k][1] /\ f[j][2] = f[k][2] BY <1>2, <1>3 DEF AreApart
  <2>2. f[j] = f[k] BY <1>2, <1>3, <2>1
  <2>3. QED BY <1>1, <1>2, <2>2, FlatNumbers
<1>6. IsPresets(t) BY <1>2, <1>4 DEF IsPresets
<1>7. ASSUME NEW k \in DOMAIN t PROVE \E i \in DOMAIN ps : t[k] = ps[i]
  <2>1. t[k] \in Elements(lists[f[k][1]]) BY <1>2, <1>3 DEF Elements
  <2>2. t[k] \in Elements(ps) BY <1>2, <1>3, <2>1 DEF AreOf
  <2>3. QED BY <2>2 DEF Elements
<1>8. L!NamesOf(t) \subseteq L!NamesOf(ps) BY <1>7 DEF L!NamesOf
<1>9. IsPresets(ps) /\ OncePerName(ps) /\ Len(ps) <= MaxPresets BY DEF IsShort
<1>10. Cardinality(L!NamesOf(t)) = Len(t) /\ Cardinality(L!NamesOf(ps)) = Len(ps) BY <1>5, <1>6, <1>9, NamesAreCounted
<1>11. Cardinality(L!NamesOf(t)) <= Cardinality(L!NamesOf(ps))
  <2>1. L!NamesOf(ps) = {ps[k].name : k \in DOMAIN ps} BY DEF L!NamesOf
  <2>2. IsFiniteSet(DOMAIN ps) BY <1>9, LenIsDomain, UpTo DEF IsPresets
  <2>3. IsFiniteSet({ps[k].name : k \in DOMAIN ps})
    <3> DEFINE D1 == DOMAIN ps
               N1 == {ps[k].name : k \in D1}
               h == [k \in D1 |-> ps[k].name]
    <3>1. h \in [D1 -> N1] /\ \A x \in N1 : \E k \in D1 : h[k] = x OBVIOUS
    <3>2. IsFiniteSet(D1) BY <2>2
    <3> HIDE DEF D1, N1, h
    <3>3. h \in Surjection(D1, N1) BY <3>1, Fun_IsSurj
    <3>4. IsFiniteSet(N1) BY <3>2, <3>3, FS_Surjection
    <3>5. QED BY <3>4 DEF N1, D1
  <2>4. IsFiniteSet(L!NamesOf(ps)) BY <2>1, <2>3
  <2>5. QED BY <1>8, <2>4, FS_Subset
<1>12. Len(t) <= MaxPresets
  <2>1. Len(ps) \in Nat BY <1>9, LenIsDomain DEF IsPresets
  <2> DEFINE n == Len(t)
             m == Len(ps)
  <2>2. n \in Nat /\ m \in Nat /\ n <= m /\ m <= MaxPresets BY <1>2, <1>9, <1>10, <1>11, <2>1
  <2> HIDE DEF n, m
  <2>3. n <= MaxPresets BY <2>2, DesktopAssumption DEF DesktopAssumption
  <2>4. QED BY <2>3 DEF n
<1>13. QED BY <1>5, <1>6, <1>12 DEF IsShort

\* Lists put together again: the folders are in the order given, each with its list.
IsTogether(qs, order, lists) ==
    /\ IsShort(qs) /\ L!FolderOrder(qs) = order
    /\ \A a \in DOMAIN order : L!In(qs, order[a]) = lists[a]

LEMMA PutTogether ==
    ASSUME NEW order, NEW grouped, NEW lists, lists = [k \in DOMAIN order |-> grouped[order[k]]],
           ByFolder(lists, order), AreApart(lists), NEW ps, IsShort(ps), AreOf(lists, ps)
    PROVE  IsTogether(L!Flatten(order, grouped), order, lists)
<1> DEFINE t == L!Flat(lists)
<1>1. L!Flatten(order, grouped) = L!Normalize(t) BY DEF L!Flatten
<1>2. PICK f : IsFlat(t, lists, f) BY FlatInOrder DEF ByFolder, AreSeqs
<1> HIDE DEF t
<1>3. IsShort(t) BY <1>2, FlatIsShort
<1>4. L!Normalize(t) = t BY <1>3, ShortIsNormal
<1>5. L!FolderOrder(t) = order /\ \A a \in DOMAIN order : L!In(t, order[a]) = lists[a] BY <1>2, FlatByFolder
<1>6. QED BY <1>1, <1>3, <1>4, <1>5 DEF IsTogether

\* An element put in at a place counted from 0: what was there follows in its order.
IsPutIn(t, s, i, x) ==
    /\ IsSeq(t) /\ Len(t) = Len(s) + 1 /\ t[i + 1] = x
    /\ \A k \in 1..i : t[k] = s[k]
    /\ \A k \in (i + 1)..Len(s) : t[k + 1] = s[k]

LEMMA InsertPutsIn ==
    ASSUME NEW s, IsSeq(s), NEW i \in 0..Len(s), NEW x
    PROVE  IsPutIn(L!Insert(s, i, x), s, i, x)
<1> DEFINE S1 == Elements(s)
           left == SubSeq(s, 1, i)
           right == SubSeq(s, i + 1, Len(s))
           last == <<x>> \o right
<1>1. s \in Seq(S1) /\ Len(s) \in Nat /\ DOMAIN s = 1..Len(s) BY IsSeqOfElements
<1>2. (IF i < Len(s) THEN i ELSE Len(s)) = i
  <2> DEFINE n == Len(s)
  <2>1. n \in Nat /\ i \in 0..n BY <1>1
  <2> HIDE DEF n
  <2>2. (IF i < n THEN i ELSE n) = i BY <2>1
  <2>3. QED BY <2>2 DEF n
<1>3. L!Insert(s, i, x) = left \o <<x>> \o right BY <1>2 DEF L!Insert
<1>4. PICK n \in Nat : n = Len(s) BY <1>1
<1>5. i \in 0..n /\ s \in Seq(S1) /\ DOMAIN s = 1..n BY <1>1, <1>4
<1>6. IsSeq(left) /\ Len(left) = i /\ \A k \in 1..i : left[k] = s[k] BY Beginning
<1>7. IsSeq(right) /\ Len(right) = n - i /\ \A k \in 1..(n - i) : right[k] = s[i + k]
  <2>1. right = SubSeq(s, i + 1, n) BY <1>4
  <2>2. \A k \in (i + 1)..n : s[k] \in S1 BY <1>5 DEF Elements
  <2> HIDE DEF right, S1
  <2>3. right \in Seq(S1)
    <3> DEFINE from == i + 1
    <3>1. from \in Int /\ n \in Int /\ \A k \in from..n : s[k] \in S1 BY <1>5, <2>2
    <3> HIDE DEF from
    <3>2. SubSeq(s, from, n) \in Seq(S1) BY <3>1, SubSeqProperties
    <3>3. QED BY <2>1, <3>2 DEF from
  <2>4. Len(right) = n - i
    <3>1. Len(SubSeq(s, i + 1, n)) = IF i + 1 <= n THEN n - (i + 1) + 1 ELSE 0 BY <1>5
    <3>2. QED BY <1>5, <2>1, <3>1
  <2>5. \A k \in 1..(n - i) : right[k] = s[i + k]
    <3> TAKE k \in 1..(n - i)
    <3>1. SubSeq(s, i + 1, n)[k] = s[i + 1 + k - 1] BY <1>5
    <3>2. i + 1 + k - 1 = i + k BY <1>5
    <3>3. QED BY <2>1, <3>1, <3>2
  <2>6. QED BY <2>3, <2>4, <2>5, SeqIsIsSeq
<1> HIDE DEF left, right, S1
<1>8. IsSeq(<<x>>) /\ Len(<<x>>) = 1 /\ <<x>>[1] = x BY Single
<1> DEFINE one == <<x>>
           front == left \o one
           t == front \o right
<1>9. IsSeq(one) /\ Len(one) = 1 /\ one[1] = x BY <1>8
<1> HIDE DEF one
<1>10. /\ IsSeq(front) /\ Len(front) = i + 1
       /\ \A k \in 1..(i + 1) : front[k] = IF k <= i THEN left[k] ELSE one[k - i]
  <2>1. /\ IsSeq(front) /\ Len(front) = Len(left) + Len(one)
        /\ \A k \in 1..(Len(left) + Len(one)) : front[k] = IF k <= Len(left) THEN left[k] ELSE one[k - Len(left)]
    BY <1>6, <1>9, Joined
  <2>2. Len(left) = i /\ Len(one) = 1 BY <1>6, <1>9
  <2>3. QED BY <2>1, <2>2
<1>11. (\A k \in 1..i : front[k] = s[k]) /\ front[i + 1] = x BY <1>5, <1>6, <1>9, <1>10
<1> HIDE DEF front
<1>12. /\ IsSeq(t) /\ Len(t) = n + 1
       /\ \A k \in 1..(n + 1) : t[k] = IF k <= i + 1 THEN front[k] ELSE right[k - (i + 1)]
  <2>1. /\ IsSeq(t) /\ Len(t) = Len(front) + Len(right)
        /\ \A k \in 1..(Len(front) + Len(right)) :
              t[k] = IF k <= Len(front) THEN front[k] ELSE right[k - Len(front)]
    BY <1>7, <1>10, Joined
  <2>2. Len(front) = i + 1 /\ Len(right) = n - i /\ (i + 1) + (n - i) = n + 1 BY <1>5, <1>7, <1>10
  <2>3. QED BY <2>1, <2>2
<1> HIDE DEF t
<1>13. t[i + 1] = x /\ \A k \in 1..i : t[k] = s[k] BY <1>5, <1>11, <1>12
<1>14. ASSUME NEW k \in (i + 1)..n PROVE t[k + 1] = s[k]
  <2>1. k + 1 \in 1..(n + 1) /\ ~(k + 1 <= i + 1) /\ k + 1 - (i + 1) = k - i /\ k - i \in 1..(n - i) /\ i + (k - i) = k
    BY <1>5
  <2>2. t[k + 1] = right[k - i] BY <1>12, <2>1
  <2>3. QED BY <1>7, <2>1, <2>2
<1>15. IsPutIn(t, s, i, x) BY <1>4, <1>12, <1>13, <1>14 DEF IsPutIn
<1>16. QED BY <1>3, <1>15 DEF t, front, one

\* Every place but one.
LEMMA AllButOne ==
    ASSUME NEW s, IsSeq(s), NEW i \in 0..Len(s), NEW x, NEW t, IsPutIn(t, s, i, x), NEW K, K = DOMAIN t \ {i + 1}
    PROVE  L!At(t, K) = s
<1> DEFINE g == [k \in 1..Len(s) |-> IF k <= i THEN k ELSE k + 1]
<1>1. PICK n \in Nat : n = Len(s) BY LenIsDomain
<1>2. DOMAIN s = 1..n /\ i \in 0..n BY <1>1, LenIsDomain
<1>3. IsSeq(t) /\ DOMAIN t = 1..(n + 1) BY <1>1, LenIsDomain DEF IsPutIn
<1>4. g = [k \in 1..n |-> g[k]] /\ \A k \in 1..n : g[k] = IF k <= i THEN k ELSE k + 1 BY <1>1
<1> HIDE DEF g
<1>5. Rises(g, n, K)
  <2>1. \A k \in 1..n : g[k] \in K BY <1>2, <1>3, <1>4
  <2>2. \A j, k \in 1..n : j < k => g[j] < g[k] BY <1>2, <1>4
  <2>3. ASSUME NEW m \in K PROVE \E k \in 1..n : g[k] = m
    <3>1. m \in 1..(n + 1) /\ m # i + 1 BY <1>3
    <3>2. CASE m <= i
      <4>1. m \in 1..n /\ g[m] = m BY <1>2, <1>4, <3>1, <3>2
      <4>2. QED BY <4>1
    <3>3. CASE ~(m <= i)
      <4>1. m - 1 \in 1..n /\ ~(m - 1 <= i) /\ (m - 1) + 1 = m BY <1>2, <3>1, <3>3
      <4>2. g[m - 1] = m BY <1>4, <4>1
      <4>3. QED BY <4>1, <4>2
    <3>4. QED BY <3>2, <3>3
  <2>4. QED BY <1>4, <2>1, <2>2, <2>3 DEF Rises
<1>6. \A k \in DOMAIN s : s[k] = t[g[k]]
  <2> TAKE k \in DOMAIN s
  <2>1. CASE k <= i BY <1>2, <1>4, <2>1 DEF IsPutIn
  <2>2. CASE ~(k <= i)
    <3>1. g[k] = k + 1 /\ k \in (i + 1)..Len(s) BY <1>1, <1>2, <1>4, <2>2
    <3>2. QED BY <3>1 DEF IsPutIn
  <2>3. QED BY <2>1, <2>2
<1>7. K \in SUBSET DOMAIN t OBVIOUS
<1>8. QED BY <1>1, <1>3, <1>5, <1>6, <1>7, TakenInOrder

\* An order of folders that has each of them once.
IsOrder(order, fs) ==
    /\ IsSeq(order) /\ Elements(order) = fs
    /\ \A a, b \in DOMAIN order : order[a] = order[b] => a = b

\* The folders appear in the order of their first presets.
LEMMA FoldersAppearOnce ==
    ASSUME NEW ps, IsPresets(ps)
    PROVE  IsOrder(L!FolderOrder(ps), L!FoldersOf(ps))
<1> DEFINE K == {k \in DOMAIN ps : \A j \in 1..(k - 1) : ps[j].folder # ps[k].folder}
           first == L!At(ps, K)
           order == L!FolderOrder(ps)
<1>1. IsSeq(ps) /\ DOMAIN ps = 1..Len(ps) /\ Len(ps) \in Nat BY LenIsDomain DEF IsPresets
<1>2. order = [k \in DOMAIN first |-> first[k].folder] BY DEF L!FolderOrder
<1>3. K \in SUBSET DOMAIN ps OBVIOUS
<1>4. ASSUME NEW i \in K, NEW j \in K, ps[i].folder = ps[j].folder PROVE i = j
  <2>1. i \in Int /\ j \in Int /\ i >= 1 /\ j >= 1 BY <1>1
  <2>2. ~(i < j) BY <1>4, <2>1
  <2>3. ~(j < i) BY <1>4, <2>1
  <2>4. QED BY <2>1, <2>2, <2>3
<1>5. \A fo \in L!FoldersOf(ps) : \E k \in K : ps[k].folder = fo
  <2> TAKE fo \in L!FoldersOf(ps)
  <2> DEFINE M == {k \in DOMAIN ps : ps[k].folder = fo}
  <2>1. M # {} BY DEF L!FoldersOf
  <2>2. M \in SUBSET Int /\ IsFiniteSet(M)
    <3>1. M \in SUBSET DOMAIN ps OBVIOUS
    <3> HIDE DEF M
    <3>2. QED BY <1>1, <3>1, PlacesAreFinite
  <2>3. PICK k \in M : \A j \in M : k <= j
    <3> HIDE DEF M
    <3>1. QED BY <2>1, <2>2, Extremes
  <2>4. \A j \in 1..(k - 1) : j \in DOMAIN ps /\ ~(k <= j) BY <1>1
  <2>5. k \in K BY <2>3, <2>4
  <2>6. QED BY <2>5
<1> HIDE DEF K
<1>6. IsAt(first, ps, K) BY <1>1, <1>3, LayoutAt
<1> HIDE DEF first
<1>7. PICK f \in [1..Len(first) -> K] :
        /\ \A k \in 1..Len(first) : first[k] = ps[f[k]]
        /\ \A j, k \in 1..Len(first) : j < k => f[j] < f[k]
        /\ \A i \in K : \E k \in 1..Len(first) : f[k] = i
  BY <1>6 DEF IsAt
<1>8. IsSeq(first) /\ Len(first) \in Nat /\ DOMAIN first = 1..Len(first) BY <1>6, LenIsDomain DEF IsAt
<1>9. IsSeq(order) /\ DOMAIN order = DOMAIN first BY <1>2, <1>8 DEF IsSeq
<1>10. \A k \in DOMAIN order : f[k] \in K /\ order[k] = ps[f[k]].folder BY <1>2, <1>7, <1>8, <1>9
<1> HIDE DEF order
<1>11. ASSUME NEW a \in DOMAIN order, NEW b \in DOMAIN order, order[a] = order[b] PROVE a = b
  <2>1. f[a] = f[b] BY <1>4, <1>10, <1>11
  <2>2. f[a] \in Int /\ a \in 1..Len(first) /\ b \in 1..Len(first) BY <1>1, <1>3, <1>8, <1>9, <1>10
  <2>3. ~(a < b) /\ ~(b < a) BY <1>7, <2>1, <2>2
  <2>4. QED BY <1>8, <2>2, <2>3
<1>12. Elements(order) \subseteq L!FoldersOf(ps) BY <1>3, <1>10 DEF Elements, L!FoldersOf
<1>13. \A fo \in L!FoldersOf(ps) : \E k \in DOMAIN order : order[k] = fo
  <2> TAKE fo \in L!FoldersOf(ps)
  <2>1. PICK i \in K : ps[i].folder = fo BY <1>5
  <2>2. PICK k \in 1..Len(first) : f[k] = i BY <1>7
  <2>3. QED BY <1>8, <1>9, <1>10, <2>1, <2>2
<1>14. L!FoldersOf(ps) \subseteq Elements(order) BY <1>13 DEF Elements
<1>15. QED BY <1>9, <1>11, <1>12, <1>14 DEF IsOrder, order

\* The presets of a folder are some, of that folder.
LEMMA InAFolder ==
    ASSUME NEW ps, IsPresets(ps), OncePerName(ps), NEW fo, NEW own, own = L!In(ps, fo)
    PROVE  /\ IsPresets(own) /\ OncePerName(own) /\ Elements(own) = {p \in Elements(ps) : p.folder = fo}
           /\ fo \in L!FoldersOf(ps) => 1 \in DOMAIN own
<1> DEFINE K == {k \in DOMAIN ps : ps[k].folder = fo}
<1>1. own = L!At(ps, K) BY DEF L!In
<1>2. K \in SUBSET DOMAIN ps OBVIOUS
<1>3. IsSeq(ps) BY DEF IsPresets
<1>4. \A k \in K : k \in DOMAIN ps /\ ps[k].folder = fo OBVIOUS
<1>5. \A k \in DOMAIN ps : ps[k].folder = fo => k \in K OBVIOUS
<1> HIDE DEF K
<1>6. IsPresets(own) /\ OncePerName(own) BY <1>1, <1>2, SomeOf
<1>7. IsAt(own, ps, K) BY <1>1, <1>2, <1>3, LayoutAt
<1>8. PICK f \in [1..Len(own) -> K] :
        /\ \A k \in 1..Len(own) : own[k] = ps[f[k]]
        /\ \A i \in K : \E k \in 1..Len(own) : f[k] = i
  BY <1>7 DEF IsAt
<1>9. DOMAIN own = 1..Len(own) /\ Len(own) \in Nat BY <1>6, LenIsDomain DEF IsPresets
<1>10. Elements(own) = {p \in Elements(ps) : p.folder = fo}
  <2>1. \A k \in DOMAIN own : \E i \in DOMAIN ps : own[k] = ps[i] /\ ps[i].folder = fo BY <1>4, <1>8, <1>9
  <2>2. \A i \in DOMAIN ps : ps[i].folder = fo => \E k \in DOMAIN own : own[k] = ps[i] BY <1>5, <1>8, <1>9
  <2>3. QED BY <2>1, <2>2 DEF Elements
<1>11. ASSUME fo \in L!FoldersOf(ps) PROVE 1 \in DOMAIN own
  <2>1. PICK i \in DOMAIN ps : ps[i].folder = fo BY <1>11 DEF L!FoldersOf
  <2>2. i \in K BY <1>5, <2>1
  <2>3. PICK k \in 1..Len(own) : f[k] = i BY <1>8, <2>2
  <2>4. QED BY <1>9, <2>3
<1>12. QED BY <1>6, <1>10, <1>11

\* A list without the preset of a name.
LEMMA WithoutOne ==
    ASSUME NEW s, IsPresets(s), OncePerName(s), NEW i \in DOMAIN s, NEW rest, rest = L!Without(s, {s[i].name})
    PROVE  /\ IsPresets(rest) /\ OncePerName(rest) /\ Len(rest) = Len(s) - 1
           /\ Elements(rest) = Elements(s) \ {s[i]} /\ \A k \in DOMAIN rest : rest[k].name # s[i].name
<1> DEFINE K == {k \in DOMAIN s : s[k].name \notin {s[i].name}}
<1>1. rest = L!At(s, K) BY DEF L!Without
<1>2. K = DOMAIN s \ {i} BY DEF OncePerName
<1>3. IsSeq(s) /\ DOMAIN s = 1..Len(s) /\ Len(s) \in Nat BY LenIsDomain DEF IsPresets
<1>4. \A k \in K : k \in DOMAIN s /\ s[k].name # s[i].name OBVIOUS
<1> HIDE DEF K
<1>5. K \in SUBSET DOMAIN s BY <1>2
<1>6. IsPresets(rest) /\ OncePerName(rest) BY <1>1, <1>5, SomeOf
<1>7. IsAt(rest, s, K) BY <1>1, <1>3, <1>5, LayoutAt
<1>8. PICK f \in [1..Len(rest) -> K] :
        /\ \A k \in 1..Len(rest) : rest[k] = s[f[k]]
        /\ \A j \in K : \E k \in 1..Len(rest) : f[k] = j
  BY <1>7 DEF IsAt
<1>9. DOMAIN rest = 1..Len(rest) BY <1>6, LenIsDomain DEF IsPresets
<1>10. Len(rest) = Len(s) - 1
  <2>1. IsFiniteSet(DOMAIN s) /\ Cardinality(DOMAIN s) = Len(s) BY <1>3, UpTo
  <2> DEFINE allOf == DOMAIN s
  <2>2. i \in allOf /\ IsFiniteSet(allOf) BY <2>1
  <2> HIDE DEF allOf
  <2>3. Cardinality(allOf \ {i}) = Cardinality(allOf) - 1 BY <2>2, FS_RemoveElement
  <2>4. Len(rest) = Cardinality(K) BY <1>7 DEF IsAt
  <2>5. QED BY <1>2, <2>1, <2>3, <2>4 DEF allOf
<1>11. \A k \in DOMAIN rest : f[k] \in K /\ rest[k] = s[f[k]] /\ f[k] \in DOMAIN s /\ rest[k].name # s[i].name
  <2> TAKE k \in DOMAIN rest
  <2>1. k \in 1..Len(rest) BY <1>9
  <2>2. f[k] \in K /\ rest[k] = s[f[k]] BY <1>8, <2>1
  <2>3. s[f[k]].name # s[i].name BY <1>4, <2>2
  <2>4. QED BY <1>4, <2>2, <2>3
<1>12. Elements(rest) = Elements(s) \ {s[i]}
  <2>1. \A k \in DOMAIN rest : (\E j \in DOMAIN s : rest[k] = s[j]) /\ rest[k] # s[i]
    BY <1>11
  <2>2. ASSUME NEW j \in DOMAIN s, s[j] # s[i] PROVE \E k \in DOMAIN rest : rest[k] = s[j]
    <3>1. j \in K BY <1>2, <2>2
    <3>2. PICK k \in 1..Len(rest) : f[k] = j BY <1>8, <3>1
    <3>3. k \in DOMAIN rest BY <1>9
    <3>4. rest[k] = s[j] BY <1>8, <3>2
    <3>5. QED BY <3>3, <3>4
  <2>3. ASSUME NEW p \in Elements(rest) PROVE p \in Elements(s) /\ p # s[i] BY <2>1, <2>3 DEF Elements
  <2>4. ASSUME NEW p \in Elements(s), p # s[i] PROVE p \in Elements(rest)
    <3>1. PICK j \in DOMAIN s : s[j] = p BY DEF Elements
    <3>2. PICK k \in DOMAIN rest : rest[k] = s[j] BY <2>2, <2>4, <3>1
    <3>3. QED BY <3>1, <3>2 DEF Elements
  <2>5. QED BY <2>3, <2>4
<1>13. QED BY <1>6, <1>10, <1>11, <1>12

LEMMA PutInElements ==
    ASSUME NEW s, IsSeq(s), NEW i \in 0..Len(s), NEW x, NEW t, IsPutIn(t, s, i, x)
    PROVE  /\ IsSeq(t) /\ i + 1 \in DOMAIN t /\ Elements(t) = Elements(s) \cup {x}
           /\ \A k \in DOMAIN t : k = i + 1 \/ \E m \in DOMAIN s : t[k] = s[m] /\ k = IF m <= i THEN m ELSE m + 1
<1>1. PICK n \in Nat : n = Len(s) BY LenIsDomain
<1>2. DOMAIN s = 1..n /\ i \in 0..n BY <1>1, LenIsDomain
<1>3. IsSeq(t) /\ DOMAIN t = 1..(n + 1) BY <1>1, LenIsDomain DEF IsPutIn
<1>4. /\ t[i + 1] = x
      /\ \A k \in 1..i : t[k] = s[k]
      /\ \A k \in (i + 1)..n : t[k + 1] = s[k]
  BY <1>1 DEF IsPutIn
<1>5. ASSUME NEW k \in DOMAIN t, k # i + 1
      PROVE  \E m \in DOMAIN s : t[k] = s[m] /\ k = IF m <= i THEN m ELSE m + 1
  <2>1. CASE k <= i
    <3>1. k \in 1..i /\ k \in DOMAIN s BY <1>2, <1>3, <2>1
    <3>2. QED BY <1>4, <2>1, <3>1
  <2>2. CASE ~(k <= i)
    <3> DEFINE m == k - 1
    <3>1. m \in (i + 1)..n /\ m \in DOMAIN s /\ m + 1 = k /\ ~(m <= i) BY <1>2, <1>3, <1>5, <2>2
    <3> HIDE DEF m
    <3>2. t[k] = s[m] BY <1>4, <3>1
    <3>3. QED BY <3>1, <3>2
  <2>3. QED BY <2>1, <2>2
<1>6. i + 1 \in DOMAIN t BY <1>2, <1>3
<1>7. \A m \in DOMAIN s : \E k \in DOMAIN t : t[k] = s[m]
  <2> TAKE m \in DOMAIN s
  <2>1. CASE m <= i
    <3>1. m \in 1..i /\ m \in DOMAIN t BY <1>2, <1>3, <2>1
    <3>2. QED BY <1>4, <3>1
  <2>2. CASE ~(m <= i)
    <3>1. m \in (i + 1)..n /\ m + 1 \in DOMAIN t BY <1>2, <1>3, <2>2
    <3>2. QED BY <1>4, <3>1
  <2>3. QED BY <2>1, <2>2
<1>8. Elements(t) = Elements(s) \cup {x} BY <1>4, <1>5, <1>6, <1>7 DEF Elements
<1>9. QED BY <1>3, <1>5, <1>6, <1>8

\* A folder taken out of the order and put in again.
LEMMA OrderWithoutOne ==
    ASSUME NEW order, NEW fs, IsOrder(order, fs), NEW fo \in fs, NEW rest,
           rest = L!At(order, {k \in DOMAIN order : order[k] # fo})
    PROVE  IsOrder(rest, fs \ {fo}) /\ Len(rest) + 1 = Cardinality(fs)
<1> DEFINE K == {k \in DOMAIN order : order[k] # fo}
<1>1. IsSeq(order) /\ DOMAIN order = 1..Len(order) /\ Len(order) \in Nat BY LenIsDomain DEF IsOrder
<1>2. PICK a \in DOMAIN order : order[a] = fo BY DEF IsOrder, Elements
<1>3. K = DOMAIN order \ {a} BY <1>2 DEF IsOrder
<1>4. \A k \in K : k \in DOMAIN order /\ order[k] # fo OBVIOUS
<1> HIDE DEF K
<1>5. K \in SUBSET DOMAIN order /\ rest = L!At(order, K) BY <1>3 DEF K
<1>6. IsAt(rest, order, K) BY <1>1, <1>5, LayoutAt
<1>7. PICK f \in [1..Len(rest) -> K] :
        /\ \A k \in 1..Len(rest) : rest[k] = order[f[k]]
        /\ \A j, k \in 1..Len(rest) : j < k => f[j] < f[k]
        /\ \A j \in K : \E k \in 1..Len(rest) : f[k] = j
  BY <1>6 DEF IsAt
<1>8. IsSeq(rest) /\ Len(rest) \in Nat /\ DOMAIN rest = 1..Len(rest) BY <1>6, LenIsDomain DEF IsAt
<1>9. \A k \in DOMAIN rest : f[k] \in K /\ rest[k] = order[f[k]] /\ f[k] \in Int
  <2> TAKE k \in DOMAIN rest
  <2>1. k \in 1..Len(rest) BY <1>8
  <2>2. f[k] \in K /\ rest[k] = order[f[k]] BY <1>7, <2>1
  <2>3. f[k] \in Int BY <1>1, <1>5, <2>2
  <2>4. QED BY <2>2, <2>3
<1>10. ASSUME NEW j \in DOMAIN rest, NEW k \in DOMAIN rest, rest[j] = rest[k] PROVE j = k
  <2>1. f[j] = f[k] BY <1>4, <1>9, <1>10 DEF IsOrder
  <2>2. ~(j < k) /\ ~(k < j) BY <1>7, <1>8, <1>9, <2>1
  <2>3. QED BY <1>8, <2>2
<1>11. Elements(rest) = fs \ {fo}
  <2>1. \A x \in Elements(rest) : x \in fs \ {fo} BY <1>4, <1>9 DEF Elements, IsOrder
  <2>2. ASSUME NEW x \in fs \ {fo} PROVE x \in Elements(rest)
    <3>1. PICK j \in DOMAIN order : order[j] = x BY DEF IsOrder, Elements
    <3>2. j \in K BY <1>2, <1>3, <3>1
    <3>3. PICK k \in 1..Len(rest) : f[k] = j BY <1>7, <3>2
    <3>4. k \in DOMAIN rest /\ rest[k] = x BY <1>7, <1>8, <3>1, <3>3
    <3>5. QED BY <3>4 DEF Elements
  <2>3. QED BY <2>1, <2>2
<1>12. Len(rest) + 1 = Cardinality(fs)
  <2> DEFINE every == DOMAIN order
             n == Len(order)
  <2>1. n \in Nat /\ IsFiniteSet(every) /\ Cardinality(every) = n /\ a \in every BY <1>1, UpTo
  <2>2. order \in [every -> fs] /\ (\A x \in fs : \E k \in every : order[k] = x)
        /\ \A j, k \in every : order[j] = order[k] => j = k
    <3>1. order = [k \in every |-> order[k]] BY <1>1 DEF IsSeq
    <3>2. QED BY <3>1 DEF IsOrder, Elements
  <2>3. Len(rest) = Cardinality(every \ {a}) BY <1>3, <1>6 DEF IsAt
  <2> HIDE DEF every, n
  <2>4. order \in Surjection(every, fs) /\ order \in Injection(every, fs) BY <2>2, Fun_IsSurj, Fun_IsInj
  <2>5. Cardinality(fs) = n BY <2>1, <2>4, FS_Surjection
  <2>6. Cardinality(every \ {a}) = n - 1 BY <2>1, FS_RemoveElement
  <2>7. QED BY <2>1, <2>3, <2>5, <2>6
<1>13. QED BY <1>8, <1>10, <1>11, <1>12 DEF IsOrder

LEMMA OrderWithOne ==
    ASSUME NEW rest, NEW fs, NEW fo \in fs, IsOrder(rest, fs \ {fo}), NEW i \in 0..Len(rest), NEW t, IsPutIn(t, rest, i, fo)
    PROVE  IsOrder(t, fs)
<1>1. IsSeq(rest) BY DEF IsOrder
<1>2. /\ IsSeq(t) /\ Elements(t) = Elements(rest) \cup {fo} /\ t[i + 1] = fo
      /\ \A k \in DOMAIN t : k = i + 1 \/ \E m \in DOMAIN rest : t[k] = rest[m] /\ k = IF m <= i THEN m ELSE m + 1
  <2>1. IsPutIn(t, rest, i, fo) OBVIOUS
  <2>2. t[i + 1] = fo BY <2>1 DEF IsPutIn
  <2>3. QED BY <1>1, <2>1, <2>2, PutInElements
<1>3. \A m \in DOMAIN rest : rest[m] # fo BY DEF IsOrder, Elements
<1>4. \A j, k \in DOMAIN rest : rest[j] = rest[k] => j = k BY DEF IsOrder
<1>5. ASSUME NEW j \in DOMAIN t, NEW k \in DOMAIN t, t[j] = t[k] PROVE j = k
  <2>1. CASE j = i + 1 \/ k = i + 1 BY <1>2, <1>3, <1>5, <2>1
  <2>2. CASE j # i + 1 /\ k # i + 1
    <3>1. PICK m \in DOMAIN rest : t[j] = rest[m] /\ j = IF m <= i THEN m ELSE m + 1 BY <1>2, <2>2
    <3>2. PICK q \in DOMAIN rest : t[k] = rest[q] /\ k = IF q <= i THEN q ELSE q + 1 BY <1>2, <2>2
    <3>3. m = q BY <1>4, <1>5, <3>1, <3>2
    <3>4. QED BY <3>1, <3>2, <3>3
  <2>3. QED BY <2>1, <2>2
<1>6. Elements(t) = fs BY <1>2 DEF IsOrder
<1>7. QED BY <1>2, <1>5, <1>6 DEF IsOrder

\* The preset is another one than those of the list it is put into.
LEMMA PresetPutIn ==
    ASSUME NEW s, IsPresets(s), OncePerName(s), NEW i \in 0..Len(s), NEW p, IsPreset(p),
           \A k \in DOMAIN s : s[k].name # p.name, NEW t, IsPutIn(t, s, i, p)
    PROVE  IsPresets(t) /\ OncePerName(t)
<1>1. IsSeq(s) BY DEF IsPresets
<1>2. /\ IsSeq(t) /\ t[i + 1] = p
      /\ \A k \in DOMAIN t : k = i + 1 \/ \E m \in DOMAIN s : t[k] = s[m] /\ k = IF m <= i THEN m ELSE m + 1
  <2>1. IsPutIn(t, s, i, p) OBVIOUS
  <2>2. t[i + 1] = p BY <2>1 DEF IsPutIn
  <2>3. QED BY <1>1, <2>1, <2>2, PutInElements
<1>3. \A k \in DOMAIN t : IsPreset(t[k]) BY <1>2 DEF IsPresets
<1>4. ASSUME NEW j \in DOMAIN t, NEW k \in DOMAIN t, t[j].name = t[k].name PROVE j = k
  <2>1. CASE j = i + 1 \/ k = i + 1 BY <1>2, <1>4, <2>1
  <2>2. CASE j # i + 1 /\ k # i + 1
    <3>1. PICK m \in DOMAIN s : t[j] = s[m] /\ j = IF m <= i THEN m ELSE m + 1 BY <1>2, <2>2
    <3>2. PICK q \in DOMAIN s : t[k] = s[q] /\ k = IF q <= i THEN q ELSE q + 1 BY <1>2, <2>2
    <3>3. m = q BY <1>4, <3>1, <3>2 DEF OncePerName
    <3>4. QED BY <3>1, <3>2, <3>3
  <2>3. QED BY <2>1, <2>2
<1>5. QED BY <1>2, <1>3, <1>4 DEF IsPresets, OncePerName

AreGroups(lists, order, ps) ==
    /\ IsSeq(lists) /\ DOMAIN lists = DOMAIN order
    /\ \A a \in DOMAIN lists :
         /\ IsPresets(lists[a]) /\ OncePerName(lists[a])
         /\ Elements(lists[a]) = {p \in Elements(ps) : p.folder = order[a]}

LEMMA GroupsAreApart ==
    ASSUME NEW ps, IsShort(ps), NEW order, IsOrder(order, L!FoldersOf(ps)), NEW lists, AreGroups(lists, order, ps)
    PROVE  ByFolder(lists, order) /\ AreApart(lists) /\ AreOf(lists, ps)
<1>1. IsSeq(lists) /\ DOMAIN lists = DOMAIN order BY DEF AreGroups
<1>2. IsSeq(order) /\ Elements(order) = L!FoldersOf(ps) /\ \A a, b \in DOMAIN order : order[a] = order[b] => a = b
  BY DEF IsOrder
<1>3. ASSUME NEW a \in DOMAIN lists
      PROVE  /\ IsSeq(lists[a]) /\ OncePerName(lists[a])
             /\ \A i \in DOMAIN lists[a] : IsPreset(lists[a][i]) /\ lists[a][i] \in Elements(ps) /\ lists[a][i].folder = order[a]
  <2> DEFINE s == lists[a]
  <2>1. IsPresets(s) /\ OncePerName(s) /\ Elements(s) = {p \in Elements(ps) : p.folder = order[a]} BY DEF AreGroups
  <2> HIDE DEF s
  <2>2. \A i \in DOMAIN s : s[i] \in Elements(s) BY DEF Elements
  <2>3. \A i \in DOMAIN s : IsPreset(s[i]) /\ s[i] \in Elements(ps) /\ s[i].folder = order[a] BY <2>1, <2>2 DEF IsPresets
  <2>4. QED BY <2>1, <2>3 DEF s, IsPresets
<1>4. ASSUME NEW a \in DOMAIN lists PROVE 1 \in DOMAIN lists[a]
  <2> DEFINE s == lists[a]
  <2>1. IsSeq(s) /\ Elements(s) = {p \in Elements(ps) : p.folder = order[a]} BY <1>3 DEF AreGroups
  <2>2. order[a] \in L!FoldersOf(ps) BY <1>1, <1>2 DEF Elements
  <2> HIDE DEF s
  <2>3. PICK k \in DOMAIN ps : ps[k].folder = order[a] BY <2>2 DEF L!FoldersOf
  <2>4. ps[k] \in Elements(s) BY <2>1, <2>3 DEF Elements
  <2>5. PICK i \in DOMAIN s : s[i] = ps[k] BY <2>4 DEF Elements
  <2>6. 1 \in DOMAIN s BY <2>1, <2>5, LenIsDomain
  <2>7. QED BY <2>6 DEF s
<1>5. ByFolder(lists, order) BY <1>1, <1>2, <1>3, <1>4 DEF ByFolder, AreSeqs
<1>6. \A p, q \in Elements(ps) : p.name = q.name => p = q BY DEF IsShort, OncePerName, Elements
<1>7. ASSUME NEW a \in DOMAIN lists, NEW b \in DOMAIN lists, NEW i \in DOMAIN lists[a], NEW j \in DOMAIN lists[b],
             lists[a][i].name = lists[b][j].name
      PROVE  a = b /\ i = j
  <2>1. lists[a][i] = lists[b][j] BY <1>3, <1>6, <1>7
  <2>2. order[a] = order[b] BY <1>3, <2>1
  <2>3. a = b BY <1>1, <1>2, <2>2
  <2>4. i = j BY <1>3, <1>7, <2>3 DEF OncePerName
  <2>5. QED BY <2>3, <2>4
<1>8. AreApart(lists) BY <1>7 DEF AreApart
<1>9. AreOf(lists, ps) BY <1>3 DEF AreOf, Elements
<1>10. QED BY <1>5, <1>8, <1>9

\* A folder at another place: each folder has the presets it had.
FolderIsAt(qs, ps, fo, i) ==
    /\ L!FolderOrder(qs)[i + 1] = fo
    /\ \A g \in L!FoldersOf(ps) : L!In(qs, g) = L!In(ps, g)

LEMMA FolderMoves ==
    ASSUME NEW ps, IsShort(ps), NEW fo \in L!FoldersOf(ps), NEW i \in Nat, i < Cardinality(L!FoldersOf(ps))
    PROVE  FolderIsAt(L!FolderToIndex(ps, fo, i), ps, fo, i)
<1> DEFINE old == L!FolderOrder(ps)
           rest == L!OtherFolders(ps, fo)
           order == L!Insert(rest, i, fo)
           grouped == L!Grouped(ps)
           lists == [k \in DOMAIN order |-> grouped[order[k]]]
           qs == L!FolderToIndex(ps, fo, i)
           fs == L!FoldersOf(ps)
<1>1. IsPresets(ps) /\ OncePerName(ps) BY DEF IsShort
<1>2. IsOrder(old, fs) BY <1>1, FoldersAppearOnce
<1>3. rest = L!At(old, {k \in DOMAIN old : old[k] # fo}) BY DEF L!OtherFolders
<1>4. qs = L!Flatten(order, grouped) BY DEF L!FolderToIndex
<1>5. i < Cardinality(fs) /\ fo \in fs OBVIOUS
<1>6. grouped = [g \in fs |-> L!In(ps, g)] BY DEF L!Grouped
<1> HIDE DEF old, rest, fs, qs, grouped
<1>7. IsOrder(rest, fs \ {fo}) /\ Len(rest) + 1 = Cardinality(fs) BY <1>2, <1>3, <1>5, OrderWithoutOne
<1>8. IsSeq(rest) BY <1>7 DEF IsOrder
<1>9. i \in 0..Len(rest)
  <2>1. PICK n \in Nat : n = Len(rest) BY <1>8, LenIsDomain
  <2>2. i < n + 1 BY <1>5, <1>7, <2>1
  <2>3. i \in 0..n BY <2>2
  <2>4. QED BY <2>1, <2>3
<1>10. IsPutIn(order, rest, i, fo) BY <1>8, <1>9, InsertPutsIn
<1> HIDE DEF order
<1>11. IsOrder(order, fs) BY <1>5, <1>7, <1>9, <1>10, OrderWithOne
<1>12. \A k \in DOMAIN order : order[k] \in fs BY <1>11 DEF IsOrder, Elements
<1>13. \A k \in DOMAIN order : lists[k] = L!In(ps, order[k]) BY <1>6, <1>12
<1>14. AreGroups(lists, order, ps)
  <2>1. DOMAIN order = 1..Len(order) /\ Len(order) \in Nat BY <1>11, LenIsDomain DEF IsOrder
  <2>2. IsSeq(lists) /\ DOMAIN lists = DOMAIN order BY <2>1 DEF IsSeq
  <2> HIDE DEF lists
  <2>3. ASSUME NEW a \in DOMAIN lists
        PROVE  /\ IsPresets(lists[a]) /\ OncePerName(lists[a])
               /\ Elements(lists[a]) = {p \in Elements(ps) : p.folder = order[a]}
    BY <1>1, <1>13, <2>2, InAFolder
  <2>4. QED BY <2>2, <2>3 DEF AreGroups
<1>15. IsOrder(order, L!FoldersOf(ps)) BY <1>11 DEF fs
<1>16. lists = [k \in DOMAIN order |-> grouped[order[k]]] OBVIOUS
<1> HIDE DEF lists
<1>17. ByFolder(lists, order) /\ AreApart(lists) /\ AreOf(lists, ps) BY <1>14, <1>15, GroupsAreApart
<1>18. IsTogether(qs, order, lists) BY <1>4, <1>16, <1>17, PutTogether
<1>19. L!FolderOrder(qs) = order /\ \A a \in DOMAIN order : L!In(qs, order[a]) = lists[a] BY <1>18 DEF IsTogether
<1>20. order[i + 1] = fo BY <1>10 DEF IsPutIn
<1>21. \A g \in fs : L!In(qs, g) = L!In(ps, g)
  <2> TAKE g \in fs
  <2>1. PICK a \in DOMAIN order : order[a] = g BY <1>11 DEF IsOrder, Elements
  <2>2. QED BY <1>13, <1>19, <2>1
<1>22. QED BY <1>19, <1>20, <1>21 DEF FolderIsAt, qs, fs

\* A preset at another place of its folder: the others of the folder keep their order, and the other
\* folders their presets.
PresetIsAt(qs, ps, p, i) ==
    /\ L!In(qs, p.folder)[i + 1] = p
    /\ L!Without(L!In(qs, p.folder), {p.name}) = L!Without(L!In(ps, p.folder), {p.name})
    /\ \A g \in L!FoldersOf(ps) \ {p.folder} : L!In(qs, g) = L!In(ps, g)

LEMMA PresetMoves ==
    ASSUME NEW ps, IsShort(ps), NEW n \in L!NamesOf(ps), NEW p, p = ps[L!Index(ps, n)],
           NEW i \in Nat, i < Len(L!In(ps, p.folder))
    PROVE  PresetIsAt(L!PresetToIndex(ps, n, i), ps, p, i)
<1> DEFINE order == L!FolderOrder(ps)
           fs == L!FoldersOf(ps)
           own == L!In(ps, p.folder)
           rest == L!Without(own, {n})
           moved == L!Insert(rest, i, p)
           groups == L!Grouped(ps)
           grouped == [groups EXCEPT ![p.folder] = moved]
           lists == [k \in DOMAIN order |-> grouped[order[k]]]
           qs == L!PresetToIndex(ps, n, i)
<1>1. IsPresets(ps) /\ OncePerName(ps) BY DEF IsShort
<1>2. L!Index(ps, n) \in DOMAIN ps /\ p.name = n BY IndexIsThere
<1>3. p \in Elements(ps) /\ p.folder \in fs /\ IsPreset(p)
  BY <1>1, <1>2 DEF Elements, L!FoldersOf, IsPresets
<1>4. groups = [g \in fs |-> L!In(ps, g)] BY DEF L!Grouped
<1>5. qs = L!Flatten(order, [groups EXCEPT ![p.folder] = L!Insert(L!Without(groups[p.folder], {n}), i, p)])
  BY DEF L!PresetToIndex
<1>6. groups[p.folder] = own BY <1>3, <1>4
<1>7. qs = L!Flatten(order, grouped) BY <1>5, <1>6
<1>8. i < Len(own) OBVIOUS
<1>9. IsOrder(order, fs) BY <1>1, FoldersAppearOnce
<1>10. /\ IsPresets(own) /\ OncePerName(own) /\ Elements(own) = {q \in Elements(ps) : q.folder = p.folder}
  BY <1>1, InAFolder
<1> HIDE DEF qs, own
<1>11. PICK k \in DOMAIN own : own[k] = p
  <2>1. p \in Elements(own) BY <1>3, <1>10
  <2>2. QED BY <2>1 DEF Elements
<1>12. /\ IsPresets(rest) /\ OncePerName(rest) /\ Len(rest) = Len(own) - 1
       /\ Elements(rest) = Elements(own) \ {p} /\ \A m \in DOMAIN rest : rest[m].name # p.name
  <2>1. rest = L!Without(own, {own[k].name}) BY <1>2, <1>11
  <2> HIDE DEF rest
  <2>2. /\ IsPresets(rest) /\ OncePerName(rest) /\ Len(rest) = Len(own) - 1
        /\ Elements(rest) = Elements(own) \ {own[k]} /\ \A m \in DOMAIN rest : rest[m].name # own[k].name
    BY <1>10, <2>1, WithoutOne
  <2>3. QED BY <1>11, <2>2
<1> HIDE DEF rest
<1>13. IsSeq(rest) /\ i \in 0..Len(rest)
  <2>1. IsSeq(rest) BY <1>12 DEF IsPresets
  <2>2. PICK c \in Nat : c = Len(rest) BY <2>1, LenIsDomain
  <2>3. PICK d \in Nat : d = Len(own) BY <1>10, LenIsDomain DEF IsPresets
  <2>4. i < d /\ c = d - 1 BY <1>8, <1>12, <2>2, <2>3
  <2>5. i \in 0..c BY <2>4
  <2>6. QED BY <2>1, <2>2, <2>5
<1>14. IsPutIn(moved, rest, i, p) BY <1>13, InsertPutsIn
<1> HIDE DEF moved
<1>15. IsPresets(moved) /\ OncePerName(moved) BY <1>3, <1>12, <1>13, <1>14, PresetPutIn
<1>16. Elements(moved) = Elements(own) /\ i + 1 \in DOMAIN moved /\ IsSeq(moved)
  <2>1. IsSeq(moved) /\ i + 1 \in DOMAIN moved /\ Elements(moved) = Elements(rest) \cup {p}
    BY <1>13, <1>14, PutInElements
  <2>2. p \in Elements(own) BY <1>3, <1>10
  <2>3. QED BY <1>12, <2>1, <2>2
<1>17. L!Without(moved, {n}) = rest
  <2> DEFINE K == {m \in DOMAIN moved : moved[m].name \notin {n}}
  <2>1. L!Without(moved, {n}) = L!At(moved, K) BY DEF L!Without
  <2>2. moved[i + 1] = p BY <1>14 DEF IsPutIn
  <2>3. K = DOMAIN moved \ {i + 1} BY <1>2, <1>15, <1>16, <2>2 DEF OncePerName
  <2> HIDE DEF K
  <2>4. L!At(moved, K) = rest BY <1>13, <1>14, <2>3, AllButOne
  <2>5. QED BY <2>1, <2>4
<1>18. \A g \in fs : grouped[g] = IF g = p.folder THEN moved ELSE L!In(ps, g) BY <1>3, <1>4
<1> HIDE DEF grouped, groups, order
<1>19. \A a \in DOMAIN order : order[a] \in fs BY <1>9 DEF IsOrder, Elements
<1>20. \A a \in DOMAIN order : lists[a] = IF order[a] = p.folder THEN moved ELSE L!In(ps, order[a]) BY <1>18, <1>19
<1>21. AreGroups(lists, order, ps)
  <2>1. DOMAIN order = 1..Len(order) /\ Len(order) \in Nat BY <1>9, LenIsDomain DEF IsOrder
  <2>2. IsSeq(lists) /\ DOMAIN lists = DOMAIN order BY <2>1 DEF IsSeq
  <2> HIDE DEF lists
  <2>3. ASSUME NEW a \in DOMAIN lists
        PROVE  /\ IsPresets(lists[a]) /\ OncePerName(lists[a])
               /\ Elements(lists[a]) = {q \in Elements(ps) : q.folder = order[a]}
    <3>1. CASE order[a] = p.folder
      <4>1. lists[a] = moved BY <1>20, <2>2, <3>1
      <4>2. QED BY <1>10, <1>15, <1>16, <3>1, <4>1
    <3>2. CASE order[a] # p.folder
      <4>1. lists[a] = L!In(ps, order[a]) BY <1>20, <2>2, <3>2
      <4>2. QED BY <1>1, <4>1, InAFolder
    <3>3. QED BY <3>1, <3>2
  <2>4. QED BY <2>2, <2>3 DEF AreGroups
<1>22. lists = [k2 \in DOMAIN order |-> grouped[order[k2]]] OBVIOUS
<1> HIDE DEF lists
<1>23. ByFolder(lists, order) /\ AreApart(lists) /\ AreOf(lists, ps) BY <1>9, <1>21, GroupsAreApart
<1>24. IsTogether(qs, order, lists) BY <1>7, <1>22, <1>23, PutTogether
<1>25. \A a \in DOMAIN order : L!In(qs, order[a]) = lists[a] BY <1>24 DEF IsTogether
<1>26. \A g \in fs : \E a \in DOMAIN order : order[a] = g BY <1>9 DEF IsOrder, Elements
<1> HIDE DEF fs
<1>27. L!In(qs, p.folder) = moved BY <1>3, <1>20, <1>25, <1>26
<1>28. \A g \in fs \ {p.folder} : L!In(qs, g) = L!In(ps, g)
  <2> TAKE g \in fs \ {p.folder}
  <2>1. PICK a \in DOMAIN order : order[a] = g BY <1>26
  <2>2. QED BY <1>20, <1>25, <2>1
<1>29. moved[i + 1] = p BY <1>14 DEF IsPutIn
<1>30. L!Without(moved, {p.name}) = L!Without(own, {p.name}) BY <1>2, <1>17 DEF rest
<1>31. QED BY <1>27, <1>28, <1>29, <1>30 DEF PresetIsAt, qs, fs, own

----------------------------------------------------------------------------
(* What is shown of the presets *)

\* What the panel keeps, before the effects drop what is gone.
Fields == {"picked", "confirm", "announced", "collapsed", "rename", "folderRename", "filter", "query", "active"}

IsShown(u) ==
    /\ DOMAIN u = Fields /\ u = [x \in Fields |-> u[x]]
    /\ u.confirm \in BOOLEAN /\ u.query \in Names \cup Folders \cup {NoName}

LEMMA ShownFoldersAreThere ==
    ASSUME NEW ps, IsPresets(ps), NEW u
    PROVE  L!Range(L!ShownFolders(ps, u)) \subseteq L!FoldersOf(ps)
<1> DEFINE visible == L!Visible(ps, u)
           order == L!FolderOrder(visible)
<1>1. IsPresets(visible) /\ Elements(visible) \subseteq Elements(ps) BY PartsOfAList
<1>2. L!FoldersOf(visible) \subseteq L!FoldersOf(ps)
  <2> HIDE DEF visible
  <2> SUFFICES ASSUME NEW k \in DOMAIN visible PROVE visible[k].folder \in L!FoldersOf(ps)
    BY DEF L!FoldersOf
  <2>1. \E j \in DOMAIN ps : visible[k] = ps[j] BY <1>1 DEF Elements
  <2>2. QED BY <2>1 DEF L!FoldersOf
<1> HIDE DEF visible
<1>3. IsSeq(order) /\ Elements(order) \subseteq L!FoldersOf(ps) BY <1>1, <1>2, FoldersInOrder
<1>4. L!ShownFolders(ps, u) = IF u.filter \in L!FoldersOf(ps) \ L!Range(order) THEN <<u.filter>> \o order ELSE order
  BY DEF L!ShownFolders, visible
<1> HIDE DEF order
<1>5. CASE u.filter \in L!FoldersOf(ps) \ L!Range(order)
  <2> DEFINE f == <<u.filter>> t == f \o order
  <2>1. IsSeq(f) /\ Elements(f) = {u.filter} BY Single
  <2> HIDE DEF f
  <2>2. \A k \in DOMAIN t : t[k] \in Elements(f) \cup Elements(order) BY <1>3, <2>1, Joined
  <2>3. L!ShownFolders(ps, u) = t BY <1>4, <1>5 DEF f
  <2> HIDE DEF t
  <2>4. L!Range(t) \subseteq L!FoldersOf(ps) BY <1>3, <1>5, <2>1, <2>2 DEF L!Range
  <2>5. QED BY <2>3, <2>4
<1>6. CASE ~(u.filter \in L!FoldersOf(ps) \ L!Range(order))
  BY <1>3, <1>4, <1>6 DEF L!Range, Elements
<1>7. QED BY <1>5, <1>6

\* The effects after a render leave nothing that refers to a preset or a folder that is gone.
LEMMA SettledIsUI ==
    ASSUME NEW ps, IsPresets(ps), NEW u, IsShown(u)
    PROVE  L!Settled(ps, u) \in
             [picked : SUBSET L!NamesOf(ps), confirm : BOOLEAN, announced : SUBSET L!NamesOf(ps), collapsed : SUBSET L!FoldersOf(ps),
              rename : L!NamesOf(ps) \cup {NoName}, folderRename : L!FoldersOf(ps) \cup {NoName},
              filter : L!FoldersOf(ps) \cup {NoName}, query : Names \cup Folders \cup {NoName},
              active : L!FoldersOf(ps) \cup {NoName}]
<1> DEFINE N == L!NamesOf(ps) F == L!FoldersOf(ps) S == L!Range(L!ShownFolders(ps, u))
           picked1 == u.picked \cap N
           confirm1 == u.confirm /\ picked1 # {}
           announced1 == IF u.confirm THEN u.announced \cap picked1 ELSE {}
           rename1 == IF u.rename \in N THEN u.rename ELSE NoName
           folder1 == IF u.folderRename \in F THEN u.folderRename ELSE NoName
           filter1 == IF u.filter \in F THEN u.filter ELSE NoName
           active1 == IF u.active \in S THEN u.active ELSE NoName
<1>1. S \subseteq F BY ShownFoldersAreThere
<1>2. L!Settled(ps, u) =
        [u EXCEPT !.picked = picked1, !.confirm = @ /\ picked1 # {},
                  !.announced = IF u.confirm THEN @ \cap picked1 ELSE {}, !.collapsed = @ \cap F,
                  !.rename = IF @ \in N THEN @ ELSE NoName, !.folderRename = IF @ \in F THEN @ ELSE NoName,
                  !.filter = IF @ \in F THEN @ ELSE NoName, !.active = IF @ \in S THEN @ ELSE NoName]
  BY DEF L!Settled
<1>3. L!Settled(ps, u) =
        [picked |-> picked1, confirm |-> confirm1, announced |-> announced1, collapsed |-> u.collapsed \cap F,
         rename |-> rename1, folderRename |-> folder1, filter |-> filter1, query |-> u.query, active |-> active1]
  BY <1>2 DEF IsShown, Fields
<1>4. /\ picked1 \in SUBSET N /\ confirm1 \in BOOLEAN /\ announced1 \in SUBSET N /\ rename1 \in N \cup {NoName}
      /\ folder1 \in F \cup {NoName} /\ filter1 \in F \cup {NoName} /\ active1 \in F \cup {NoName}
      /\ u.collapsed \cap F \in SUBSET F
  BY <1>1 DEF IsShown
<1>5. u.query \in Names \cup Folders \cup {NoName} BY DEF IsShown
<1> HIDE DEF N, F, S, picked1, confirm1, announced1, rename1, folder1, filter1, active1
<1>6. L!Settled(ps, u) \in
        [picked : SUBSET N, confirm : BOOLEAN, announced : SUBSET N, collapsed : SUBSET F, rename : N \cup {NoName},
         folderRename : F \cup {NoName}, filter : F \cup {NoName}, query : Names \cup Folders \cup {NoName},
         active : F \cup {NoName}]
  BY <1>3, <1>4, <1>5
<1>7. QED BY <1>6 DEF N, F

----------------------------------------------------------------------------
(* The saved layouts: their inductive invariant *)

\* Every item of the file is counted, and the conflicts that are resolved.
IsReport(c) ==
    /\ c = [imported |-> c.imported, updated |-> c.updated, skipped |-> c.skipped, invalid |-> c.invalid,
            initial |-> c.initial, resolved |-> c.resolved, items |-> c.items, open |-> c.open]
    /\ IsPresets(c.open)
    /\ c.imported \in Int /\ c.updated \in Int /\ c.skipped \in Int /\ c.invalid \in Int /\ c.resolved \in Int
    /\ c.imported + c.updated + c.skipped + c.invalid + Len(c.open) = c.items
    /\ c.resolved + Len(c.open) = c.initial

PresetsKept == IsShort(presets) /\ ui \in L!UI /\ IsPresets(stored.presets)

\* The file that is read, and the list that its handler saw.
FileKept == file # <<>> => IsPresets(file[1].items) /\ IsPresets(file[1].saw)

ConflictsCounted == conflicts # <<>> => IsReport(conflicts[1])

LayoutsInv == PresetsKept /\ FileKept /\ ConflictsCounted

LEMMA LayoutsInvImplies == LayoutsInv => L!NothingRefersToTheGone /\ L!EveryItemIsCounted
<1> SUFFICES ASSUME LayoutsInv PROVE L!NothingRefersToTheGone /\ L!EveryItemIsCounted
  OBVIOUS
<1>1. IsPresets(presets) /\ OncePerName(presets) /\ Len(presets) <= MaxPresets /\ ui \in L!UI
  BY DEF LayoutsInv, PresetsKept, IsShort
<1>2. Len(presets) \in Nat BY <1>1, LenIsDomain DEF IsPresets
<1>3. L!Cardinality(L!NamesOf(presets)) = Len(presets) BY <1>1, NamesAreCounted, LayoutCardinality
<1>4. L!NothingRefersToTheGone
  BY <1>1, <1>2, <1>3, DesktopAssumption DEF L!NothingRefersToTheGone, DesktopAssumption
<1>5. L!EveryItemIsCounted BY DEF LayoutsInv, ConflictsCounted, IsReport, L!EveryItemIsCounted
<1>6. QED BY <1>4, <1>5

LEMMA UIIsShown == ASSUME ui \in L!UI PROVE IsShown(ui)
  BY DEF L!UI, IsShown, Fields

LEMMA NothingIsShown == ASSUME NEW C PROVE IsShown(L!NoUI(C))
  BY DEF L!NoUI, IsShown, Fields

LEMMA UnconfirmedIsShown == ASSUME NEW u, IsShown(u) PROVE IsShown(L!Unconfirmed(u))
  BY DEF L!Unconfirmed, IsShown, Fields

LEMMA NotRenamingIsShown == ASSUME NEW u, IsShown(u) PROVE IsShown(L!NotRenaming(u))
  BY DEF L!NotRenaming, IsShown, Fields

LEMMA ChangedIsShown ==
    ASSUME NEW u, IsShown(u), NEW x
    PROVE  /\ IsShown([u EXCEPT !.collapsed = x]) /\ IsShown([u EXCEPT !.filter = x]) /\ IsShown([u EXCEPT !.active = x])
           /\ IsShown([u EXCEPT !.rename = x]) /\ IsShown([u EXCEPT !.folderRename = x]) /\ IsShown([u EXCEPT !.picked = x])
           /\ x \in Names \cup Folders \cup {NoName} => IsShown([u EXCEPT !.query = x])
  BY DEF IsShown, Fields

LEMMA ShowStep ==
    ASSUME NEW u, IsShown(u), IsShort(presets'), L!Show(u)
    PROVE  PresetsKept'
<1>1. IsPresets(presets') BY DEF IsShort
<1>2. ui' = L!Settled(presets', u) /\ stored'.presets = presets' BY DEF L!Show
<1>3. ui' \in L!UI' BY <1>1, <1>2, SettledIsUI DEF L!UI
<1>4. IsPresets(stored.presets)' BY <1>1, <1>2 DEF IsPresets, IsSeq, IsPreset
<1>5. IsShort(presets)' BY DEF IsShort, IsPresets, IsSeq, IsPreset, OncePerName
<1>6. QED BY <1>3, <1>4, <1>5 DEF PresetsKept

LEMMA ReplaceStep ==
    ASSUME NEW ps, IsShort(ps), NEW u, IsShown(u), L!Replace(ps, u)
    PROVE  PresetsKept'
<1>1. presets' = ps /\ L!Show(u) BY DEF L!Replace
<1>2. IsShort(presets') BY <1>1
<1>3. QED BY <1>1, <1>2, ShowStep

LEMMA FileStays == ASSUME FileKept, file' = file PROVE FileKept'
  BY DEF FileKept, IsPresets, IsSeq, IsPreset

LEMMA ConflictsStay == ASSUME ConflictsCounted, conflicts' = conflicts PROVE ConflictsCounted'
  BY DEF ConflictsCounted, IsReport, IsPresets, IsSeq, IsPreset

LEMMA EditStep ==
    ASSUME LayoutsInv, NEW ps, IsShort(ps), NEW u, IsShown(u), L!Edit(ps, u)
    PROVE  LayoutsInv'
<1>1. L!Replace(ps, L!Unconfirmed(u)) /\ conflicts' = <<>> /\ file' = file BY DEF L!Edit
<1>2. PresetsKept' BY <1>1, UnconfirmedIsShown, ReplaceStep
<1>3. FileKept' BY <1>1, FileStays DEF LayoutsInv
<1>4. ConflictsCounted' BY <1>1 DEF ConflictsCounted
<1>5. QED BY <1>2, <1>3, <1>4 DEF LayoutsInv

LEMMA LookedStep ==
    ASSUME LayoutsInv, NEW u, IsShown(u), L!Look(u)
    PROVE  LayoutsInv'
<1>1. presets' = presets /\ L!Show(u) /\ file' = file /\ conflicts' = conflicts BY DEF L!Look
<1>2. IsShort(presets') BY <1>1 DEF LayoutsInv, PresetsKept
<1>3. PresetsKept' BY <1>1, <1>2, ShowStep
<1>4. QED BY <1>1, <1>3, FileStays, ConflictsStay DEF LayoutsInv

----------------------------------------------------------------------------
(* The handlers of the layouts *)

LEMMA OwnPresets ==
    ASSUME LayoutsInv
    PROVE  /\ IsShort(presets) /\ IsPresets(presets) /\ IsShown(ui)
           /\ L!FoldersOf(presets) \subseteq Folders
<1>1. IsShort(presets) /\ IsPresets(presets) /\ ui \in L!UI BY DEF LayoutsInv, PresetsKept, IsShort
<1>2. \A k \in DOMAIN presets : presets[k].folder \in Folders BY <1>1 DEF IsPresets, IsPreset
<1>3. QED BY <1>1, <1>2, UIIsShown DEF L!FoldersOf

\* Presets with another name or in another folder.
LEMMA RenamedIsPreset ==
    ASSUME NEW p, IsPreset(p), NEW n
    PROVE  IsPreset([p EXCEPT !.name = n]) /\ [p EXCEPT !.name = n].folder = p.folder
<1>1. [p EXCEPT !.name = n] = [name |-> n, folder |-> p.folder, layout |-> p.layout] BY DEF IsPreset
<1>2. QED BY <1>1 DEF IsPreset

LEMMA MovedIsPreset ==
    ASSUME NEW p, IsPreset(p), NEW f \in Folders
    PROVE  IsPreset([p EXCEPT !.folder = f])
<1>1. [p EXCEPT !.folder = f] = [name |-> p.name, folder |-> f, layout |-> p.layout] BY DEF IsPreset
<1>2. QED BY <1>1 DEF IsPreset

LEMMA MappedIsPresets ==
    ASSUME NEW ps, IsPresets(ps), NEW qs, qs = [k \in DOMAIN ps |-> qs[k]], \A k \in DOMAIN ps : IsPreset(qs[k])
    PROVE  IsPresets(qs) /\ Len(qs) = Len(ps)
<1>1. Len(ps) \in Nat /\ DOMAIN ps = 1..Len(ps) BY LenIsDomain DEF IsPresets
<1>2. qs = [k \in 1..Len(ps) |-> qs[k]] BY <1>1
<1>3. IsSeq(qs) /\ DOMAIN qs = DOMAIN ps /\ Len(qs) = Len(ps) BY <1>1, <1>2 DEF IsSeq
<1>4. QED BY <1>3 DEF IsPresets

LEMMA JoinedIsPresets ==
    ASSUME NEW ps, IsPresets(ps), NEW qs, IsPresets(qs)
    PROVE  IsPresets(ps \o qs)
<1> DEFINE t == ps \o qs
<1>1. IsSeq(t) /\ \A k \in DOMAIN t : t[k] \in Elements(ps) \cup Elements(qs) BY Joined DEF IsPresets
<1> HIDE DEF t
<1>2. \A k \in DOMAIN t : IsPreset(t[k]) BY <1>1 DEF IsPresets, Elements
<1>3. QED BY <1>1, <1>2 DEF IsPresets, t

LEMMA PutFirstIsPresets ==
    ASSUME NEW p, IsPreset(p), NEW qs, IsPresets(qs)
    PROVE  IsPresets(<<p>> \o qs)
<1>1. IsPresets(<<p>>) BY Single DEF IsPresets
<1> DEFINE s == <<p>>
<1> HIDE DEF s
<1>2. IsPresets(s) BY <1>1 DEF s
<1>3. IsPresets(s \o qs) BY <1>2, JoinedIsPresets
<1>4. QED BY <1>3 DEF s

LEMMA InFolderIsShort ==
    ASSUME LayoutsInv, NEW N, NEW f \in Folders
    PROVE  IsShort(L!InFolder(N, f))
<1> DEFINE qs == [k \in DOMAIN presets |-> IF presets[k].name \in N THEN [presets[k] EXCEPT !.folder = f] ELSE presets[k]]
<1>1. IsPresets(presets) BY OwnPresets
<1>2. \A k \in DOMAIN presets : IsPreset(qs[k])
  <2> TAKE k \in DOMAIN presets
  <2>1. IsPreset(presets[k]) BY <1>1 DEF IsPresets
  <2>2. IsPreset([presets[k] EXCEPT !.folder = f]) BY <2>1, MovedIsPreset
  <2>3. QED BY <2>1, <2>2
<1>3. qs = [k \in DOMAIN presets |-> qs[k]] OBVIOUS
<1>4. L!InFolder(N, f) = L!Normalize(qs) BY DEF L!InFolder
<1> HIDE DEF qs
<1>5. IsPresets(qs) BY <1>1, <1>2, <1>3, MappedIsPresets
<1>6. QED BY <1>4, <1>5, NormalizeIsShort

LEMMA SaveStep ==
    ASSUME LayoutsInv, NEW n, NEW f \in Folders, NEW l, L!Save(n, f, l)
    PROVE  LayoutsInv'
<1> DEFINE p == [name |-> n, folder |-> f, layout |-> L!Prune(l)]
           qs == <<p>> \o L!Without(presets, {n})
<1>1. L!Edit(L!Normalize(qs), L!NotRenaming(ui)) BY DEF L!Save
<1>2. IsPreset(p) BY DEF IsPreset
<1> HIDE DEF p
<1>3. IsPresets(L!Without(presets, {n})) BY OwnPresets, PartsOfAList
<1>4. IsPresets(qs) BY <1>2, <1>3, PutFirstIsPresets
<1> HIDE DEF qs
<1>5. QED BY <1>1, <1>4, OwnPresets, NormalizeIsShort, NotRenamingIsShown, EditStep

LEMMA RenameToStep ==
    ASSUME LayoutsInv, NEW n, L!RenameTo(n)
    PROVE  LayoutsInv'
<1>1. IsPresets(presets) /\ IsShown(ui) BY OwnPresets
<1>2. IsShown(L!NotRenaming(ui)) BY <1>1, NotRenamingIsShown
<1>3. CASE n = ui.rename
  <2>1. L!Look(L!NotRenaming(ui)) BY <1>3 DEF L!RenameTo
  <2>2. QED BY <1>2, <2>1, LookedStep
<1>4. CASE n # ui.rename
  <2> DEFINE qs == [k \in DOMAIN presets |-> [presets[k] EXCEPT !.name = IF @ = ui.rename THEN n ELSE @]]
  <2>1. L!Edit(L!Normalize(qs), L!NotRenaming(ui)) BY <1>4 DEF L!RenameTo
  <2>2. \A k \in DOMAIN presets : IsPreset(qs[k])
    <3> TAKE k \in DOMAIN presets
    <3>1. IsPreset(presets[k]) BY <1>1 DEF IsPresets
    <3>2. \E m : qs[k] = [presets[k] EXCEPT !.name = m] OBVIOUS
    <3>3. QED BY <3>1, <3>2, RenamedIsPreset
  <2>3. qs = [k \in DOMAIN presets |-> qs[k]] OBVIOUS
  <2> HIDE DEF qs
  <2>4. IsPresets(qs) BY <1>1, <2>2, <2>3, MappedIsPresets
  <2>5. QED BY <1>2, <2>1, <2>4, NormalizeIsShort, EditStep
<1>5. QED BY <1>3, <1>4

LEMMA RenameFolderStep ==
    ASSUME LayoutsInv, NEW g \in Folders, L!RenameFolder(g)
    PROVE  LayoutsInv'
<1>1. IsPresets(presets) /\ IsShown(ui) BY OwnPresets
<1> DEFINE f == ui.folderRename
<1>2. CASE f = g
  <2> DEFINE u == [ui EXCEPT !.folderRename = NoName]
  <2>1. L!Look(u) BY <1>2 DEF L!RenameFolder
  <2>2. IsShown(u) BY <1>1 DEF IsShown, Fields
  <2> HIDE DEF u
  <2>3. QED BY <2>1, <2>2, LookedStep
<1>3. CASE f # g
  <2> DEFINE qs == [k \in DOMAIN presets |-> [presets[k] EXCEPT !.folder = IF @ = f THEN g ELSE @]]
             open == {IF x = f THEN g ELSE x : x \in ui.collapsed}
             at == IF ui.filter = f THEN g ELSE ui.filter
             u == [ui EXCEPT !.collapsed = open, !.filter = at, !.active = g, !.folderRename = NoName]
  <2>1. L!Edit(L!Normalize(qs), u) BY <1>3 DEF L!RenameFolder
  <2>2. \A k \in DOMAIN presets : IsPreset(qs[k])
    <3> TAKE k \in DOMAIN presets
    <3>1. IsPreset(presets[k]) /\ presets[k].folder \in Folders BY <1>1 DEF IsPresets, IsPreset
    <3>2. \E h \in Folders : qs[k] = [presets[k] EXCEPT !.folder = h] BY <3>1
    <3>3. QED BY <3>1, <3>2, MovedIsPreset
  <2>3. qs = [k \in DOMAIN presets |-> qs[k]] OBVIOUS
  <2> HIDE DEF qs
  <2>4. IsPresets(qs) BY <1>1, <2>2, <2>3, MappedIsPresets
  <2>5. IsShown(u)
    <3> HIDE DEF open, at
    <3> DEFINE u1 == [ui EXCEPT !.collapsed = open]
               u2 == [u1 EXCEPT !.filter = at]
               u3 == [u2 EXCEPT !.active = g]
    <3>1. u = [u3 EXCEPT !.folderRename = NoName] OBVIOUS
    <3>2. IsShown(u1) BY <1>1, ChangedIsShown
    <3> HIDE DEF u1
    <3>3. IsShown(u2) BY <3>2, ChangedIsShown
    <3> HIDE DEF u2
    <3>4. IsShown(u3) BY <3>3, ChangedIsShown
    <3> HIDE DEF u3
    <3>5. QED BY <3>1, <3>4, ChangedIsShown
  <2> HIDE DEF u
  <2>6. QED BY <2>1, <2>4, <2>5, NormalizeIsShort, EditStep
<1>4. QED BY <1>2, <1>3

LEMMA DeletionStep ==
    ASSUME LayoutsInv, NEW N, NEW u, IsShown(u), L!Edit(L!Without(presets, N), u)
    PROVE  LayoutsInv'
<1>1. IsPresets(presets) /\ OncePerName(presets) /\ Len(presets) <= MaxPresets BY OwnPresets DEF IsShort
<1>2. IsPresets(L!Without(presets, N)) /\ OncePerName(L!Without(presets, N)) /\ Len(L!Without(presets, N)) <= Len(presets)
  BY <1>1, PartsOfAList
<1>3. Len(presets) \in Nat /\ Len(L!Without(presets, N)) \in Nat BY <1>1, <1>2, LenIsDomain DEF IsPresets
<1>4. IsShort(L!Without(presets, N)) BY <1>1, <1>2, <1>3, DesktopAssumption DEF IsShort, DesktopAssumption
<1>5. QED BY <1>4, EditStep

LEMMA PresetChipStep ==
    ASSUME LayoutsInv, NEW n \in L!Own, L!PresetChip(n)
    PROVE  LayoutsInv'
<1>1. IsShort(presets) /\ IsPresets(presets) /\ IsShown(ui) /\ n \in L!NamesOf(presets) BY OwnPresets DEF L!Own
<1>2. IsShown(L!NotRenaming(ui)) BY <1>1, NotRenamingIsShown
<1>3. CASE L!CancelRename BY <1>2, <1>3, LookedStep DEF L!CancelRename
<1>4. CASE \E m \in Names : L!RenameTo(<<m>>) BY <1>4, RenameToStep
<1>5. CASE L!StartRename(n)
  <2> DEFINE u == [ui EXCEPT !.rename = n]
  <2>1. presets' = presets /\ L!Show(L!Unconfirmed(u)) /\ conflicts' = <<>> /\ file' = file BY <1>5 DEF L!StartRename
  <2>2. IsShown(u) BY <1>1, ChangedIsShown
  <2> HIDE DEF u
  <2>3. IsShown(L!Unconfirmed(u)) BY <2>2, UnconfirmedIsShown
  <2>4. IsShort(presets') BY <1>1, <2>1
  <2>5. PresetsKept' BY <2>1, <2>3, <2>4, ShowStep
  <2>6. FileKept' /\ ConflictsCounted' BY <2>1, FileStays DEF LayoutsInv, ConflictsCounted
  <2>7. QED BY <2>5, <2>6 DEF LayoutsInv
<1>6. CASE L!Duplicate(n)
  <2> DEFINE m == L!Available(n, "copy", L!NamesOf(presets))
             p == [presets[L!Index(presets, n)] EXCEPT !.name = m]
             qs == <<p>> \o presets
  <2>1. L!Edit(L!Normalize(qs), L!NotRenaming(ui)) BY <1>6 DEF L!Duplicate
  <2> HIDE DEF m
  <2>2. IsPreset(presets[L!Index(presets, n)]) BY <1>1, IndexIsThere DEF IsPresets
  <2>3. IsPreset(p) BY <2>2, RenamedIsPreset
  <2> HIDE DEF p
  <2>4. IsPresets(qs) BY <1>1, <2>3, PutFirstIsPresets
  <2> HIDE DEF qs
  <2>5. QED BY <1>2, <2>1, <2>4, NormalizeIsShort, EditStep
<1>7. CASE L!Apply(n) BY <1>1, <1>2, <1>7, EditStep DEF L!Apply
<1>8. CASE L!Delete(n)
  <2> DEFINE u1 == [ui EXCEPT !.rename = IF @ = n THEN NoName ELSE @]
             u == [u1 EXCEPT !.picked = @ \ {n}]
  <2>1. L!Edit(L!Without(presets, {n}), u) BY <1>8 DEF L!Delete
  <2>2. IsShown(u1) BY <1>1, ChangedIsShown
  <2> HIDE DEF u1
  <2>3. IsShown(u) BY <2>2, ChangedIsShown
  <2> HIDE DEF u
  <2>4. QED BY <2>1, <2>3, DeletionStep
<1>9. CASE L!PickOne(n)
  <2> DEFINE u == [ui EXCEPT !.picked = IF n \in @ THEN @ \ {n} ELSE @ \cup {n}]
  <2>1. L!Look(L!Unconfirmed(u)) BY <1>9 DEF L!PickOne
  <2>2. IsShown(u) BY <1>1, ChangedIsShown
  <2> HIDE DEF u
  <2>3. QED BY <2>1, <2>2, UnconfirmedIsShown, LookedStep
<1>10. CASE \E f \in Folders : L!SetFolder(n, f)
  BY <1>1, <1>10, InFolderIsShort, EditStep DEF L!SetFolder
<1>11. CASE \E i \in L!Slots : L!MovePreset(n, i)
  <2>1. PICK i \in L!Slots : L!Edit(L!PresetToIndex(presets, n, i), ui) BY <1>11 DEF L!MovePreset
  <2>2. i \in Nat BY <2>1, DesktopAssumption DEF L!Slots, DesktopAssumption
  <2>3. IsShort(L!PresetToIndex(presets, n, i)) BY <1>1, <2>2, ReorderedIsShort
  <2>4. QED BY <1>1, <2>1, <2>3, EditStep
<1>12. CASE \E m \in L!Own : L!DropPreset(n, m)
  <2>1. PICK m \in L!Own : L!Edit(L!PresetBefore(presets, n, m), ui) BY <1>12 DEF L!DropPreset
  <2>2. IsShort(L!PresetBefore(presets, n, m)) BY <1>1, ReorderedIsShort
  <2>3. QED BY <1>1, <2>1, <2>2, EditStep
<1>13. QED
  BY <1>3, <1>4, <1>5, <1>6, <1>7, <1>8, <1>9, <1>10, <1>11, <1>12 DEF L!PresetChip

LEMMA PickFolderStep ==
    ASSUME LayoutsInv, NEW F, L!PickFolder(F)
    PROVE  LayoutsInv'
<1> DEFINE more == {p.name : p \in {q \in L!Range(L!Visible(presets, ui)) : q.folder \in F}}
           u == [ui EXCEPT !.picked = @ \cup more]
<1>1. L!Look(L!Unconfirmed(u)) BY DEF L!PickFolder
<1> HIDE DEF more
<1>2. IsShown(u) BY OwnPresets, ChangedIsShown
<1> HIDE DEF u
<1>3. QED BY <1>1, <1>2, UnconfirmedIsShown, LookedStep

LEMMA FolderRowStep ==
    ASSUME LayoutsInv, NEW f \in L!Range(L!ShownFolders(presets, ui)), L!FolderRow(f)
    PROVE  LayoutsInv'
<1>1. IsPresets(presets) /\ IsShown(ui) BY OwnPresets
<1>2. f \in L!FoldersOf(presets) BY <1>1, ShownFoldersAreThere
<1>3. CASE L!ToggleFolder(f)
  <2> DEFINE u == [ui EXCEPT !.collapsed = IF f \in @ THEN @ \ {f} ELSE @ \cup {f}]
  <2>1. L!Look(u) BY <1>3 DEF L!ToggleFolder
  <2>2. IsShown(u) BY <1>1, ChangedIsShown
  <2> HIDE DEF u
  <2>3. QED BY <2>1, <2>2, LookedStep
<1> DEFINE a == [ui EXCEPT !.active = f]
<1>4. IsShown(a) BY <1>1, ChangedIsShown
<1>5. CASE \E i \in L!Slots : L!MoveFolder(f, i)
  <2>1. PICK i \in L!Slots : L!Edit(L!FolderToIndex(presets, f, i), a) BY <1>5 DEF L!MoveFolder
  <2>2. i \in Nat BY <2>1, DesktopAssumption DEF L!Slots, DesktopAssumption
  <2>3. IsShort(L!FolderToIndex(presets, f, i)) BY <1>1, <1>2, <2>2, ReorderedIsShort
  <2> HIDE DEF a
  <2>4. QED BY <1>4, <2>1, <2>3, EditStep
<1>6. CASE \E g \in L!OwnFolder : L!DropFolder(f, g)
  <2>1. PICK g \in L!OwnFolder : L!Edit(L!FolderBefore(presets, f, g), a) BY <1>6 DEF L!DropFolder
  <2>2. IsShort(L!FolderBefore(presets, f, g)) BY <1>1, <1>2, ReorderedIsShort
  <2> HIDE DEF a
  <2>3. QED BY <1>4, <2>1, <2>2, EditStep
<1>7. CASE L!CancelFolderRename
  <2> DEFINE u == [ui EXCEPT !.folderRename = NoName]
  <2>1. L!Look(u) BY <1>7 DEF L!CancelFolderRename
  <2>2. IsShown(u) BY <1>1, ChangedIsShown
  <2> HIDE DEF u
  <2>3. QED BY <2>1, <2>2, LookedStep
<1>8. CASE L!StartFolderRename(f)
  <2> DEFINE u == [a EXCEPT !.folderRename = f]
  <2>1. L!Look(L!Unconfirmed(u)) BY <1>8 DEF L!StartFolderRename
  <2> HIDE DEF a
  <2>2. IsShown(u) BY <1>4, ChangedIsShown
  <2> HIDE DEF u
  <2>3. QED BY <2>1, <2>2, UnconfirmedIsShown, LookedStep
<1>9. QED BY <1>3, <1>5, <1>6, <1>7, <1>8, RenameFolderStep, PickFolderStep DEF L!FolderRow

LEMMA FolderKeysStep ==
    ASSUME LayoutsInv, NEW f, L!SetActive(f)
    PROVE  LayoutsInv'
<1> DEFINE u == [ui EXCEPT !.active = f]
<1>1. L!Look(u) BY DEF L!SetActive
<1>2. IsShown(u) BY OwnPresets, ChangedIsShown
<1> HIDE DEF u
<1>3. QED BY <1>1, <1>2, LookedStep

LEMMA DeletePickedStep ==
    ASSUME LayoutsInv, L!DeletePicked
    PROVE  LayoutsInv'
<1>1. IsShown(ui) BY OwnPresets
<1>2. CASE ui.confirm
  <2> DEFINE u1 == [ui EXCEPT !.picked = {}]
             u == [u1 EXCEPT !.rename = IF @ \in ui.picked THEN NoName ELSE @]
  <2>1. L!Edit(L!Without(presets, ui.picked), u) BY <1>2 DEF L!DeletePicked
  <2>2. IsShown(u1) BY <1>1, ChangedIsShown
  <2> HIDE DEF u1
  <2>3. IsShown(u) BY <2>2, ChangedIsShown
  <2> HIDE DEF u
  <2>4. QED BY <2>1, <2>3, DeletionStep
<1>3. CASE ~ui.confirm
  <2> DEFINE u == [ui EXCEPT !.confirm = TRUE, !.announced = ui.picked]
  <2>1. L!Look(u) BY <1>3 DEF L!DeletePicked
  <2>2. IsShown(u) BY <1>1 DEF IsShown, Fields
  <2> HIDE DEF u
  <2>3. QED BY <2>1, <2>2, LookedStep
<1>4. QED BY <1>2, <1>3

LEMMA ChooseFileStep ==
    ASSUME LayoutsInv, NEW items \in Files, L!ChooseFile(items)
    PROVE  LayoutsInv'
<1>1. /\ presets' = presets /\ L!Show(L!Unconfirmed(L!NotRenaming(ui)))
      /\ file' = <<[items |-> items, saw |-> presets]>> /\ conflicts' = <<>>
  BY DEF L!ChooseFile
<1>2. IsShown(L!Unconfirmed(L!NotRenaming(ui)))
  <2>1. IsShown(L!NotRenaming(ui)) BY OwnPresets, NotRenamingIsShown
  <2>2. QED BY <2>1, UnconfirmedIsShown
<1>3. IsShort(presets') BY <1>1, OwnPresets
<1>4. PresetsKept' BY <1>1, <1>2, <1>3, ShowStep
<1>5. IsPresets(items) BY DesktopAssumption DEF DesktopAssumption, IsPresets
<1>6. file'[1].items = items /\ file'[1].saw = presets BY <1>1
<1>7. FileKept' BY <1>5, <1>6, OwnPresets DEF FileKept, IsPresets, IsSeq, IsPreset
<1>8. ConflictsCounted' BY <1>1 DEF ConflictsCounted
<1>9. QED BY <1>4, <1>7, <1>8 DEF LayoutsInv

LEMMA ToolbarStep ==
    ASSUME LayoutsInv, L!Toolbar
    PROVE  LayoutsInv'
<1>1. IsShown(ui) /\ L!FoldersOf(presets) \subseteq Folders BY OwnPresets
<1>2. CASE \E n \in Names, f \in Folders, l \in Layouts : L!Save(<<n>>, f, l) BY <1>2, SaveStep
<1>3. CASE \E f \in L!OwnFolder \cup {NoName} : L!SetFilter(f)
  <2>1. PICK f : L!SetFilter(f) BY <1>3
  <2> DEFINE u == [ui EXCEPT !.filter = f]
  <2>2. L!Look(L!Unconfirmed(u)) BY <2>1 DEF L!SetFilter
  <2>3. IsShown(u) BY <1>1, ChangedIsShown
  <2> HIDE DEF u
  <2>4. QED BY <2>2, <2>3, UnconfirmedIsShown, LookedStep
<1>4. CASE \E q \in Names \cup L!OwnFolder \cup {NoName} : L!SetQuery(q)
  <2>1. PICK q \in Names \cup L!OwnFolder \cup {NoName} : L!SetQuery(q) BY <1>4
  <2> DEFINE u == [ui EXCEPT !.query = q]
  <2>2. L!Look(u) BY <2>1 DEF L!SetQuery
  <2>3. q \in Names \cup Folders \cup {NoName} BY <1>1, <2>1 DEF L!OwnFolder
  <2>4. IsShown(u) BY <1>1, <2>3, ChangedIsShown
  <2> HIDE DEF u
  <2>5. QED BY <2>2, <2>4, LookedStep
<1>5. CASE \E items \in Files : L!ChooseFile(items) BY <1>5, ChooseFileStep
<1>6. CASE L!PickNone
  <2> DEFINE u == [ui EXCEPT !.picked = {}]
  <2>1. L!Look(L!Unconfirmed(u)) BY <1>6 DEF L!PickNone
  <2>2. IsShown(u) BY <1>1, ChangedIsShown
  <2> HIDE DEF u
  <2>3. QED BY <2>1, <2>2, UnconfirmedIsShown, LookedStep
<1>7. CASE L!TypeBulkFolder BY <1>1, <1>7, UnconfirmedIsShown, LookedStep DEF L!TypeBulkFolder
<1>8. CASE \E f \in Folders : L!MovePicked(f) BY <1>1, <1>8, InFolderIsShort, EditStep DEF L!MovePicked
<1>9. QED BY <1>2, <1>3, <1>4, <1>5, <1>6, <1>7, <1>8, PickFolderStep, DeletePickedStep DEF L!Toolbar

----------------------------------------------------------------------------
(* The import of layouts *)

\* What is read of a file: every item is accepted, skipped or invalid.
LEMMA ParsedCounts ==
    ASSUME NEW items, IsPresets(items)
    PROVE  LET p == L!Parsed(items) IN
           /\ IsPresets(p.items) /\ p.skipped \in Int /\ p.invalid \in Int
           /\ Len(p.items) + p.skipped + p.invalid = Len(items)
<1> DEFINE s == L!Taken(items)
           n == IF Len(items) < MaxPresets THEN Len(items) ELSE MaxPresets
           K == L!Accepted(s)
           t == L!At(s, K)
           qs == [k \in DOMAIN t |-> [t[k] EXCEPT !.layout = L!Prune(@)]]
           again == {k \in DOMAIN s : L!Again(s, k)}
           bad == {k \in DOMAIN s : ~L!Good(s[k]) /\ ~L!Again(s, k)}
<1>1. IsSeq(items) /\ Len(items) \in Nat BY LenIsDomain DEF IsPresets
<1>2. IsPresets(s) /\ Len(s) \in Nat /\ DOMAIN s = 1..Len(s)
  <2>1. s = SubSeq(items, 1, n) BY DEF L!Taken
  <2>2. n \in 0..Len(items) BY <1>1, DesktopAssumption DEF DesktopAssumption
  <2> HIDE DEF s, n
  <2>3. IsSeq(s) /\ Len(s) = n /\ \A k \in 1..n : k \in DOMAIN items /\ s[k] = items[k] BY <1>1, <2>1, <2>2, Beginning
  <2>4. Len(s) \in Nat /\ DOMAIN s = 1..Len(s) BY <2>3, LenIsDomain
  <2>5. QED BY <2>3, <2>4 DEF IsPresets
<1> HIDE DEF s
<1>3. K = {k \in DOMAIN s : L!Good(s[k]) /\ ~L!Again(s, k)} BY DEF L!Accepted
<1>4. AreParts(Len(s), K, again, bad) BY <1>2, <1>3 DEF AreParts
<1> HIDE DEF K, again, bad
<1>5. /\ Cardinality(K) \in Nat /\ Cardinality(again) \in Nat /\ Cardinality(bad) \in Nat
      /\ Cardinality(K) + Cardinality(again) + Cardinality(bad) = Len(s)
  BY <1>2, <1>4, ThreeParts
<1>6. K \in SUBSET DOMAIN s BY <1>2, <1>4 DEF AreParts
<1>7. IsPresets(t) /\ Len(t) = Cardinality(K) BY <1>2, <1>6, SomeOf
<1> HIDE DEF t
<1>8. \A k \in DOMAIN t : IsPreset(qs[k])
  <2> TAKE k \in DOMAIN t
  <2>1. IsPreset(t[k]) BY <1>7 DEF IsPresets
  <2>2. qs[k] = [name |-> t[k].name, folder |-> t[k].folder, layout |-> L!Prune(t[k].layout)] BY <2>1 DEF IsPreset
  <2>3. QED BY <2>1, <2>2 DEF IsPreset
<1>9. qs = [k \in DOMAIN t |-> qs[k]] OBVIOUS
<1>10. L!Parsed(items) = [items |-> qs, skipped |-> (Len(items) - Len(s)) + Cardinality(again), invalid |-> Cardinality(bad)]
  BY LayoutCardinality DEF L!Parsed, s, t, K, again, bad
<1> HIDE DEF qs
<1>11. IsPresets(qs) /\ Len(qs) = Cardinality(K) BY <1>7, <1>8, <1>9, MappedIsPresets
<1> DEFINE p == L!Parsed(items)
<1>12. /\ p.items = qs /\ p.skipped = (Len(items) - Len(s)) + Cardinality(again) /\ p.invalid = Cardinality(bad)
  BY <1>10
<1> HIDE DEF p
<1>13. IsPresets(p.items) /\ Len(p.items) = Cardinality(K) BY <1>11, <1>12
<1>14. p.skipped \in Int /\ p.invalid \in Int BY <1>1, <1>2, <1>5, <1>12
<1>15. Len(p.items) + p.skipped + p.invalid = Len(items)
  <2> DEFINE a == Cardinality(K) b == Cardinality(again) c == Cardinality(bad) l == Len(s) m == Len(items)
  <2>1. a \in Int /\ b \in Int /\ c \in Int /\ l \in Int /\ m \in Int /\ a + b + c = l BY <1>1, <1>2, <1>5
  <2>2. Len(p.items) = a /\ p.skipped = (m - l) + b /\ p.invalid = c BY <1>12, <1>13
  <2> HIDE DEF a, b, c, l, m
  <2>3. a + ((m - l) + b) + c = m BY <2>1
  <2>4. QED BY <2>2, <2>3 DEF m
<1>16. QED BY <1>13, <1>14, <1>15 DEF p

LEMMA FileReadStep ==
    ASSUME LayoutsInv, L!FileRead
    PROVE  LayoutsInv'
<1> DEFINE saw == file[1].saw
           p == L!Parsed(file[1].items)
           new == L!Without(p.items, L!NamesOf(saw))
           differs(i) == i.name \in L!NamesOf(saw) /\ saw[L!Index(saw, i.name)].layout # i.layout
           K == {k \in DOMAIN p.items : differs(p.items[k])}
           open == L!At(p.items, K)
           c == [imported |-> Len(new), updated |-> 0, skipped |-> p.skipped + (Len(p.items) - Len(new) - Len(open)),
                 invalid |-> p.invalid, initial |-> Len(open), resolved |-> 0, items |-> Len(file[1].items), open |-> open]
<1>1. file # <<>> /\ file' = <<>> BY Zenon DEF L!FileRead
<1>2. /\ IF new = <<>> THEN L!Replace(presets, ui) ELSE L!Replace(L!Normalize(new \o saw), ui)
      /\ conflicts' = IF open = <<>> THEN <<>> ELSE <<c>>
  BY Zenon DEF L!FileRead
<1>3. IsPresets(file[1].items) /\ IsPresets(saw) BY <1>1 DEF LayoutsInv, FileKept
<1>4. /\ IsPresets(p.items) /\ p.skipped \in Int /\ p.invalid \in Int
      /\ Len(p.items) + p.skipped + p.invalid = Len(file[1].items)
  BY <1>3, ParsedCounts
<1>5. K \in SUBSET DOMAIN p.items OBVIOUS
<1> HIDE DEF p, saw, K
<1>6. IsPresets(open) BY <1>4, <1>5, SomeOf
<1>7. IsPresets(new) BY <1>4, PartsOfAList
<1>8. Len(open) \in Nat /\ Len(new) \in Nat /\ Len(p.items) \in Nat BY <1>4, <1>6, <1>7, LenIsDomain DEF IsPresets
<1> HIDE DEF open, new
<1>9. PresetsKept'
  <2>1. CASE new = <<>> BY <1>2, <2>1, OwnPresets, ReplaceStep
  <2>2. CASE new # <<>>
    <3>1. IsPresets(new \o saw) BY <1>3, <1>7, JoinedIsPresets
    <3>2. IsShort(L!Normalize(new \o saw)) BY <3>1, NormalizeIsShort
    <3>3. QED BY <1>2, <2>2, <3>2, OwnPresets, ReplaceStep
  <2>3. QED BY <2>1, <2>2
<1>10. IsReport(c)
  <2> DEFINE a == Len(new) b == Len(open) m == Len(p.items) k == Len(file[1].items)
  <2>1. a \in Int /\ b \in Int /\ m \in Int /\ p.skipped \in Int /\ p.invalid \in Int /\ m + p.skipped + p.invalid = k
    BY <1>4, <1>8
  <2> HIDE DEF a, b, m, k
  <2>2. /\ a + 0 + (p.skipped + (m - a - b)) + p.invalid + b = k /\ p.skipped + (m - a - b) \in Int
        /\ 0 \in Int /\ 0 + b = b
    BY <2>1
  <2>3. /\ c.imported = a /\ c.updated = 0 /\ c.skipped = p.skipped + (m - a - b) /\ c.invalid = p.invalid
        /\ c.initial = b /\ c.resolved = 0 /\ c.items = k /\ c.open = open
        /\ c = [imported |-> c.imported, updated |-> c.updated, skipped |-> c.skipped, invalid |-> c.invalid,
                initial |-> c.initial, resolved |-> c.resolved, items |-> c.items, open |-> c.open]
    BY DEF a, b, m, k
  <2> HIDE DEF c
  <2>4. Len(c.open) = b BY <2>3 DEF b
  <2>5. QED BY <1>6, <2>1, <2>2, <2>3, <2>4 DEF IsReport
<1> HIDE DEF c
<1>11. ConflictsCounted'
  <2>1. conflicts' # <<>> => IsReport(conflicts'[1]) BY <1>2, <1>10
  <2>2. QED BY <2>1 DEF ConflictsCounted, IsReport, IsPresets, IsSeq, IsPreset
<1>12. FileKept' BY <1>1 DEF FileKept
<1>13. QED BY <1>9, <1>11, <1>12 DEF LayoutsInv

\* The open conflicts are those that are chosen and the rest.
LEMMA ChosenAndRest ==
    ASSUME NEW ps, IsPresets(ps), NEW N
    PROVE  Len(L!Named(ps, N)) + Len(L!Without(ps, N)) = Len(ps)
<1> DEFINE K == {k \in DOMAIN ps : ps[k].name \in N}
           R == {k \in DOMAIN ps : ps[k].name \notin N}
<1>1. Len(ps) \in Nat /\ DOMAIN ps = 1..Len(ps) BY LenIsDomain DEF IsPresets
<1>2. L!Named(ps, N) = L!At(ps, K) /\ L!Without(ps, N) = L!At(ps, R) BY DEF L!Named, L!Without
<1>3. K \in SUBSET DOMAIN ps /\ R \in SUBSET DOMAIN ps OBVIOUS
<1>4. AreParts(Len(ps), K, R, {}) BY <1>1 DEF AreParts
<1> HIDE DEF K, R
<1>5. Len(L!At(ps, K)) = Cardinality(K) /\ Len(L!At(ps, R)) = Cardinality(R) BY <1>3, SomeOf
<1>6. Cardinality(K) \in Nat /\ Cardinality(R) \in Nat /\ Cardinality(K) + Cardinality(R) + Cardinality({}) = Len(ps)
  BY <1>1, <1>4, ThreeParts
<1>7. Cardinality({}) = 0 BY FS_EmptySet
<1>8. QED BY <1>1, <1>2, <1>5, <1>6, <1>7

LEMMA RenamedIsPresets ==
    ASSUME NEW chosen, IsPresets(chosen)
    PROVE  IsPresets(L!Renamed(chosen))
<1> DEFINE qs == L!Renamed(chosen)
<1>1. \E name : qs = [k \in DOMAIN chosen |-> [chosen[k] EXCEPT !.name = name[k]]] BY Zenon DEF L!Renamed
<1>2. PICK name : qs = [k \in DOMAIN chosen |-> [chosen[k] EXCEPT !.name = name[k]]] BY <1>1
<1> HIDE DEF qs
<1>3. \A k \in DOMAIN chosen : IsPreset(qs[k])
  <2> TAKE k \in DOMAIN chosen
  <2>1. IsPreset(chosen[k]) /\ qs[k] = [chosen[k] EXCEPT !.name = name[k]] BY <1>2 DEF IsPresets
  <2>2. QED BY <2>1, RenamedIsPreset
<1>4. qs = [k \in DOMAIN chosen |-> qs[k]] BY <1>2
<1>5. IsPresets(qs) BY <1>3, <1>4, MappedIsPresets
<1>6. QED BY <1>5 DEF qs

LEMMA ResolveStep ==
    ASSUME LayoutsInv, NEW mode \in L!Modes, NEW N, L!Resolve(mode, N)
    PROVE  LayoutsInv'
<1> DEFINE c == conflicts[1]
           chosen == L!Named(c.open, N)
           k == Len(chosen)
           rest == L!Without(c.open, N)
           d == [c EXCEPT !.open = rest, !.resolved = @ + k,
                          !.skipped = @ + (IF mode = "current" THEN k ELSE 0),
                          !.updated = @ + (IF mode = "incoming" THEN k ELSE 0),
                          !.imported = @ + (IF mode = "rename" THEN k ELSE 0)]
<1>1. conflicts # <<>> /\ file' = file BY DEF L!Resolve
<1>2. /\ mode = "current" => L!Replace(presets, ui)
      /\ mode = "incoming" => L!Replace(L!Normalize(chosen \o L!Without(presets, N)), ui)
      /\ mode = "rename" => L!Replace(L!Normalize(L!Renamed(chosen) \o presets), ui)
  BY DEF L!Resolve
<1>3. conflicts' = IF rest = <<>> THEN <<>> ELSE <<d>> BY DEF L!Resolve
<1>4. mode \in {"incoming", "current", "rename"} BY DEF L!Modes
<1>5. IsReport(c) BY <1>1 DEF LayoutsInv, ConflictsCounted
<1> HIDE DEF c
<1>6. IsPresets(c.open) BY <1>5 DEF IsReport
<1>7. IsPresets(chosen) /\ IsPresets(rest) BY <1>6, PartsOfAList
<1>8. k \in Nat /\ Len(rest) \in Nat /\ Len(c.open) \in Nat BY <1>6, <1>7, LenIsDomain DEF IsPresets
<1>9. k + Len(rest) = Len(c.open) BY <1>6, ChosenAndRest
<1> HIDE DEF chosen, rest
<1>10. IsShort(presets) /\ IsPresets(presets) /\ IsShown(ui) BY OwnPresets
<1>11. PresetsKept'
  <2>1. CASE mode = "current" BY <1>2, <1>10, <2>1, ReplaceStep
  <2>2. CASE mode = "incoming"
    <3> DEFINE qs == chosen \o L!Without(presets, N)
    <3>1. L!Replace(L!Normalize(qs), ui) BY <1>2, <2>2
    <3>2. IsPresets(L!Without(presets, N)) BY <1>10, PartsOfAList
    <3>3. IsPresets(qs) BY <1>7, <3>2, JoinedIsPresets
    <3> HIDE DEF qs
    <3>4. QED BY <1>10, <3>1, <3>3, NormalizeIsShort, ReplaceStep
  <2>3. CASE mode = "rename"
    <3> DEFINE qs == L!Renamed(chosen) \o presets
    <3>1. L!Replace(L!Normalize(qs), ui) BY <1>2, <2>3
    <3>2. IsPresets(L!Renamed(chosen)) BY <1>7, RenamedIsPresets
    <3>3. IsPresets(qs) BY <1>10, <3>2, JoinedIsPresets
    <3> HIDE DEF qs
    <3>4. QED BY <1>10, <3>1, <3>3, NormalizeIsShort, ReplaceStep
  <2>4. QED BY <1>4, <2>1, <2>2, <2>3
<1>12. IsReport(d)
  <2> DEFINE resolved == c.resolved + k
             skipped == c.skipped + (IF mode = "current" THEN k ELSE 0)
             updated == c.updated + (IF mode = "incoming" THEN k ELSE 0)
             imported == c.imported + (IF mode = "rename" THEN k ELSE 0)
  <2>1. /\ c.imported \in Int /\ c.updated \in Int /\ c.skipped \in Int /\ c.invalid \in Int /\ c.resolved \in Int
        /\ c.imported + c.updated + c.skipped + c.invalid + Len(c.open) = c.items /\ c.resolved + Len(c.open) = c.initial
    BY <1>5 DEF IsReport
  <2>2. /\ imported \in Int /\ updated \in Int /\ skipped \in Int /\ resolved \in Int
        /\ imported + updated + skipped + c.invalid + Len(rest) = c.items /\ resolved + Len(rest) = c.initial
    <3> DEFINE a == c.imported b == c.updated e == c.skipped f == c.invalid g == c.resolved n == Len(c.open) r == Len(rest)
               items == c.items initial == c.initial
    <3>1. /\ a \in Int /\ b \in Int /\ e \in Int /\ f \in Int /\ g \in Int /\ k \in Int /\ r \in Int /\ n = k + r
          /\ a + b + e + f + n = items /\ g + n = initial
      BY <1>8, <1>9, <2>1
    <3> HIDE DEF a, b, e, f, g, n, r, k, items, initial
    <3>2. /\ g + k \in Int /\ g + k + r = initial /\ a + k \in Int /\ b + k \in Int /\ e + k \in Int
          /\ a + b + (e + k) + f + r = items /\ a + (b + k) + e + f + r = items /\ (a + k) + b + e + f + r = items
          /\ a + 0 = a /\ b + 0 = b /\ e + 0 = e
      BY <3>1
    <3>3. CASE mode = "current"
      <4>1. imported = a /\ updated = b /\ skipped = e + k /\ resolved = g + k BY <3>2, <3>3 DEF a, b, e, g
      <4>2. QED BY <3>1, <3>2, <4>1 DEF f, r, items, initial
    <3>4. CASE mode = "incoming"
      <4>1. imported = a /\ updated = b + k /\ skipped = e /\ resolved = g + k BY <3>2, <3>4 DEF a, b, e, g
      <4>2. QED BY <3>1, <3>2, <4>1 DEF f, r, items, initial
    <3>5. CASE mode = "rename"
      <4>1. imported = a + k /\ updated = b /\ skipped = e /\ resolved = g + k BY <3>2, <3>5 DEF a, b, e, g
      <4>2. QED BY <3>1, <3>2, <4>1 DEF f, r, items, initial
    <3>6. QED BY <1>4, <3>3, <3>4, <3>5
  <2>3. d = [c EXCEPT !.open = rest, !.resolved = resolved, !.skipped = skipped, !.updated = updated, !.imported = imported]
    OBVIOUS
  <2> HIDE DEF resolved, skipped, updated, imported, d
  <2>4. d = [imported |-> imported, updated |-> updated, skipped |-> skipped, invalid |-> c.invalid, initial |-> c.initial,
             resolved |-> resolved, items |-> c.items, open |-> rest]
    BY <1>5, <2>3 DEF IsReport
  <2>5. QED BY <1>7, <2>1, <2>2, <2>4 DEF IsReport
<1> HIDE DEF d
<1>13. ConflictsCounted'
  <2>1. conflicts' # <<>> => IsReport(conflicts'[1]) BY <1>3, <1>12
  <2>2. QED BY <2>1 DEF ConflictsCounted, IsReport, IsPresets, IsSeq, IsPreset
<1>14. FileKept' BY <1>1, FileStays DEF LayoutsInv
<1>15. QED BY <1>11, <1>13, <1>14 DEF LayoutsInv

LEMMA LayoutsInit == L!Init => LayoutsInv
<1> SUFFICES ASSUME L!Init PROVE LayoutsInv
  OBVIOUS
<1>1. PICK ps \in Starts, C \in SUBSET Folders : presets = L!Normalize(ps) /\ ui = L!Settled(presets, L!NoUI(C))
  BY DEF L!Init
<1>2. stored.presets = presets /\ file = <<>> /\ conflicts = <<>> BY DEF L!Init
<1>3. IsPresets(ps) BY DesktopAssumption DEF DesktopAssumption, IsPresets
<1>4. IsShort(presets) /\ IsPresets(presets) BY <1>1, <1>3, NormalizeIsShort DEF IsShort
<1>5. ui \in L!UI BY <1>1, <1>4, NothingIsShown, SettledIsUI DEF L!UI
<1>6. QED BY <1>2, <1>4, <1>5 DEF LayoutsInv, PresetsKept, FileKept, ConflictsCounted

LEMMA LayoutsStep ==
    ASSUME LayoutsInv, L!Next
    PROVE  LayoutsInv'
<1>1. CASE L!Reload
  <2>1. /\ presets' = L!Normalize(stored.presets) /\ ui' = L!Settled(presets', L!NoUI(stored.collapsed))
        /\ file' = <<>> /\ conflicts' = <<>> /\ stored' = stored
    BY <1>1 DEF L!Reload
  <2>2. IsPresets(stored.presets) BY DEF LayoutsInv, PresetsKept
  <2>3. IsShort(presets') /\ IsPresets(presets') BY <2>1, <2>2, NormalizeIsShort DEF IsShort
  <2>4. ui' \in L!UI' BY <2>1, <2>3, NothingIsShown, SettledIsUI DEF L!UI
  <2>5. IsPresets(stored.presets)' BY <2>1, <2>2 DEF IsPresets, IsSeq, IsPreset
  <2>6. IsShort(presets)' BY <2>3 DEF IsShort, IsPresets, IsSeq, IsPreset, OncePerName
  <2>7. QED BY <2>1, <2>4, <2>5, <2>6 DEF LayoutsInv, PresetsKept, FileKept, ConflictsCounted
<1>2. CASE L!FileRead BY <1>2, FileReadStep
<1>3. CASE L!FileFails
  <2>1. file' = <<>> /\ UNCHANGED <<presets, stored, ui, conflicts>> BY <1>3 DEF L!FileFails
  <2>2. PresetsKept'
    BY <2>1 DEF LayoutsInv, PresetsKept, IsShort, IsPresets, IsSeq, IsPreset, OncePerName, L!UI, L!NamesOf, L!FoldersOf
  <2>3. QED BY <2>1, <2>2, ConflictsStay DEF LayoutsInv, FileKept
<1>4. CASE L!FolderKeys BY <1>4, FolderKeysStep DEF L!FolderKeys
<1>5. CASE L!Toolbar BY <1>5, ToolbarStep
<1>6. CASE L!ConflictPanel BY <1>6, ResolveStep DEF L!ConflictPanel
<1>7. CASE \E n \in L!Own : L!PresetChip(n) BY <1>7, PresetChipStep
<1>8. CASE \E f \in L!Range(L!ShownFolders(presets, ui)) : L!FolderRow(f) BY <1>8, FolderRowStep
<1>9. QED BY <1>1, <1>2, <1>3, <1>4, <1>5, <1>6, <1>7, <1>8 DEF L!Next

----------------------------------------------------------------------------
(* The theorems about the layouts, and about both *)

\* The layouts' inductive invariant: the list is short and no name is there twice, nothing kept
\* refers to a preset or a folder that is gone, and an import with open conflicts accounts for every
\* item of its file (useDesktopCmSessionLayouts.ts, desktopCmSessionLayouts.ts).
THEOREM LayoutsInductive == DesktopSpec => [](part = "layouts" => LayoutsInv)
<1>1. DesktopInit => (part = "layouts" => LayoutsInv)
  BY LayoutsInit DEF DesktopInit
<1>2. (part = "layouts" => LayoutsInv) /\ [DesktopNext]_everything => (part = "layouts" => LayoutsInv)'
  <2> SUFFICES ASSUME part = "layouts" => LayoutsInv, [DesktopNext]_everything, part' = "layouts"
               PROVE  LayoutsInv'
    OBVIOUS
  <2>1. part = "layouts" BY DEF DesktopNext, everything
  <2>2. CASE L!Next BY <2>1, <2>2, LayoutsStep
  <2>3. CASE UNCHANGED layoutsOnly
    <3>1. UNCHANGED <<presets, stored, ui, file, conflicts>> BY <2>3 DEF layoutsOnly
    <3>2. PresetsKept'
      BY <2>1, <3>1 DEF LayoutsInv, PresetsKept, IsShort, IsPresets, IsSeq, IsPreset, OncePerName, L!UI, L!NamesOf, L!FoldersOf
    <3>3. QED BY <2>1, <3>1, <3>2, FileStays, ConflictsStay DEF LayoutsInv
  <2>4. QED BY <2>1, <2>2, <2>3 DEF DesktopNext, everything
<1>3. QED BY <1>1, <1>2, PTL DEF DesktopSpec

\* Whatever is deleted, renamed, moved, imported or answered late, the panel refers to no session,
\* preset or folder that is gone, and each import counts every item of its file once.
THEOREM NothingStale == DesktopSpec => []NothingStaleNothingLost
<1>1. (part = "layouts" => LayoutsInv) /\ (part = "view" => ViewInv) => NothingStaleNothingLost
  BY LayoutsInvImplies, ViewInvImplies, ViewCounts DEF NothingStaleNothingLost
<1>2. QED BY <1>1, LayoutsInductive, ViewInductive, PTL

LEMMA LayoutMoves ==
    ASSUME LayoutsInv
    PROVE  L!MovesKeepTheRest
<1>1. IsShort(presets) BY DEF LayoutsInv, PresetsKept
<1>2. ASSUME NEW f \in L!OwnFolder, NEW i \in 0..MaxPresets, L!MoveFolder(f, i)
      PROVE  /\ L!FolderOrder(presets')[i + 1] = f
             /\ \A g \in L!OwnFolder : L!In(presets', g) = L!In(presets, g)
  <2>1. i \in Nat /\ f \in L!FoldersOf(presets) BY DesktopAssumption DEF DesktopAssumption, L!OwnFolder
  <2>2. i < Cardinality(L!FoldersOf(presets))
    <3> DEFINE count == L!Cardinality(L!FoldersOf(presets))
    <3>1. \A at : i \in L!Targets(at, count) => i < count BY DEF L!Targets
    <3>2. count = Cardinality(L!FoldersOf(presets)) BY LayoutCardinality
    <3> HIDE DEF count
    <3>3. QED BY <1>2, <3>1, <3>2 DEF L!MoveFolder, count
  <2>3. presets' = L!FolderToIndex(presets, f, i) BY <1>2 DEF L!MoveFolder, L!Edit, L!Replace
  <2>4. FolderIsAt(presets', presets, f, i) BY <1>1, <2>1, <2>2, <2>3, FolderMoves
  <2>5. QED BY <2>4 DEF FolderIsAt, L!OwnFolder
<1>3. ASSUME NEW n \in L!Own, NEW i \in 0..MaxPresets, L!MovePreset(n, i)
      PROVE  LET f == presets[L!Index(presets, n)].folder IN
             /\ L!In(presets', f)[i + 1] = presets[L!Index(presets, n)]
             /\ L!Without(L!In(presets', f), {n}) = L!Without(L!In(presets, f), {n})
             /\ \A g \in L!OwnFolder \ {f} : L!In(presets', g) = L!In(presets, g)
  <2> DEFINE p == presets[L!Index(presets, n)]
  <2>1. i \in Nat /\ n \in L!NamesOf(presets) BY DesktopAssumption DEF DesktopAssumption, L!Own
  <2>2. p.name = n BY <2>1, IndexIsThere
  <2>3. i < Len(L!In(presets, p.folder))
    <3> DEFINE count == Len(L!In(presets, p.folder))
    <3>1. \A at : i \in L!Targets(at, count) => i < count BY DEF L!Targets
    <3> HIDE DEF count
    <3>2. QED BY <1>3, <3>1 DEF L!MovePreset, count
  <2>4. presets' = L!PresetToIndex(presets, n, i) BY <1>3 DEF L!MovePreset, L!Edit, L!Replace
  <2> HIDE DEF p
  <2>5. PresetIsAt(presets', presets, p, i) BY <1>1, <2>1, <2>3, <2>4, PresetMoves DEF p
  <2>6. QED BY <2>2, <2>5 DEF PresetIsAt, L!OwnFolder, p
<1>4. QED BY <1>2, <1>3 DEF L!MovesKeepTheRest

\* A folder or a preset that is moved comes to the announced place and everything else stays as it
\* was; a save or an imported item changes or adds one session
\* (handleMoveSessionLayoutFolder, handleMoveSessionLayoutPreset, handleSave, handleImportSessions).
THEOREM MovesAreMoves == DesktopSpec => MovesKeepTheRest
<1>1. (part = "view" => ViewInv) /\ (part = "layouts" => LayoutsInv) /\ [DesktopNext]_everything
      => [(part = "layouts" => L!MovesKeepTheRest) /\ (part = "view" => V!SavesTouchOne)]_everything
  BY LayoutMoves, SaveReturnsStep, ImportReturnsStep DEF V!SavesTouchOne
<1>2. QED BY <1>1, ViewInductive, LayoutsInductive, PTL DEF DesktopSpec, MovesKeepTheRest
=============================================================================
