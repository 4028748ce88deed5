-------------------------- MODULE LinkedList_proofs --------------------------
(***************************************************************************)
(* What the operations on lists do, for lists of any length: the facts     *)
(* that the proofs about the components cite.                              *)
(***************************************************************************)
EXTENDS LinkedList, SequencesExt, SequenceTheorems, FiniteSetTheorems, WellFoundedInduction, TLAPS

-----------------------------------------------------------------------------
(* Induction over the naturals, with a set for the property.                *)

\* Every inhabited set of naturals has a least member.
LEMMA LeastNatural ==
    ASSUME NEW T \in SUBSET Nat, T # {}
    PROVE  \E x \in T : \A y \in T : x <= y
  <1> DEFINE R == {ss \in Nat \X Nat : ss[1] < ss[2]}
  <1>1. IsWellFoundedOn(R, Nat)
    <2>1. OpToRel(<, Nat) = R
      BY DEF OpToRel
    <2> QED
      BY <2>1, NatLessThanWellFounded
  <1>2. \E x \in T : \A y \in T : ~ (<<y, x>> \in R)
    BY <1>1, WFMin
  <1>3. \A x, y \in Nat : <<y, x>> \in R <=> y < x
    OBVIOUS
  <1> HIDE DEF R
  <1>4. PICK x \in T : \A y \in T : ~ (<<y, x>> \in R)
    BY <1>2, Zenon
  <1>5. ASSUME NEW y \in T
        PROVE  x <= y
    <2>1. x \in Nat /\ y \in Nat /\ ~ (<<y, x>> \in R)
      BY <1>4
    <2>2. ~ (y < x)
      BY <2>1, <1>3, Zenon
    <2> QED
      BY <2>1, <2>2
  <1> QED
    BY <1>5

\* The operator Min of FiniteSetsExt on an inhabited set of naturals.
LEMMA MinProperties ==
    ASSUME NEW T \in SUBSET Nat, T # {}
    PROVE  Min(T) \in T /\ \A y \in T : Min(T) <= y
  <1>1. \E x \in T : \A y \in T : x <= y
    BY LeastNatural
  <1> QED
    BY <1>1 DEF Min

LEMMA SetInduction ==
    ASSUME NEW S \in SUBSET Nat, 0 \in S, \A n \in S : n + 1 \in S
    PROVE  S = Nat
  <1> SUFFICES ASSUME S # Nat PROVE FALSE
    OBVIOUS
  <1>1. PICK x \in Nat \ S : \A y \in Nat \ S : x <= y
    BY LeastNatural
  <1>2. x # 0 /\ x - 1 \in Nat
    BY <1>1
  <1>3. x - 1 \in S
    BY <1>1, <1>2
  <1> QED
    BY <1>1, <1>2, <1>3

-----------------------------------------------------------------------------
(* Sequences as functions, and removal of one node.                         *)

LEMMA FunctionIsSeq ==
    ASSUME NEW S, NEW n \in Nat, NEW f \in [1..n -> S]
    PROVE  f \in Seq(S) /\ Len(f) = n /\ DOMAIN f = 1..n
  <1>1. f \in Seq(S)
    BY SeqDef
  <1> QED
    BY <1>1, LenProperties, SMT

LEMMA RemoveAtProperties ==
    ASSUME NEW S, NEW s \in Seq(S), NEW i \in 1..Len(s)
    PROVE  /\ RemoveAt(s, i) \in Seq(S)
           /\ Len(RemoveAt(s, i)) = Len(s) - 1
           /\ \A j \in 1..Len(s) - 1 : RemoveAt(s, i)[j] = IF j < i THEN s[j] ELSE s[j + 1]
  <1> DEFINE a == SubSeq(s, 1, i - 1)
             b == SubSeq(s, i + 1, Len(s))
  <1>1. Len(s) \in Nat /\ \A k \in 1..Len(s) : s[k] \in S
    BY LenProperties, ElementOfSeq
  <1>2. a \in Seq(S) /\ Len(a) = i - 1 /\ \A k \in 1..i - 1 : a[k] = s[k]
    BY <1>1, SubSeqProperties
  <1>3. /\ b \in Seq(S) /\ Len(b) = Len(s) - i
        /\ \A k \in 1..Len(s) - i : b[k] = s[i + k]
    BY <1>1, SubSeqProperties
  <1> HIDE DEF a, b
  <1>4. /\ a \o b \in Seq(S)
        /\ Len(a \o b) = Len(s) - 1
        /\ \A j \in 1..Len(s) - 1 : (a \o b)[j] = IF j < i THEN s[j] ELSE s[j + 1]
    <2>1. /\ a \o b \in Seq(S)
          /\ Len(a \o b) = Len(a) + Len(b)
          /\ \A k \in 1..Len(a) + Len(b) :
                (a \o b)[k] = IF k <= Len(a) THEN a[k] ELSE b[k - Len(a)]
      BY <1>2, <1>3, ConcatProperties
    <2>2. Len(a \o b) = Len(s) - 1
      BY <1>1, <1>2, <1>3, <2>1
    <2>3. ASSUME NEW j \in 1..Len(s) - 1
          PROVE  (a \o b)[j] = IF j < i THEN s[j] ELSE s[j + 1]
      <3>1. CASE j < i
        BY <3>1, <1>1, <1>2, <1>3, <2>1
      <3>2. CASE ~(j < i)
        <4>1. j - (i - 1) \in 1..Len(s) - i /\ i + (j - (i - 1)) = j + 1
          BY <3>2, <1>1
        <4>2. (a \o b)[j] = b[j - (i - 1)]
          BY <3>2, <1>1, <1>2, <1>3, <2>1, SMTT(30)
        <4> QED
          BY <3>2, <4>1, <4>2, <1>3
      <3> QED
        BY <3>1, <3>2
    <2> QED
      BY <2>1, <2>2, <2>3
  <1> QED
    BY <1>4 DEF RemoveAt, a, b

\* RemoveAt keeps every other node, each once: f tells where a node was.
LEMMA RemoveAtMap ==
    ASSUME NEW S, NEW s \in Seq(S), NEW i \in DOMAIN s
    PROVE  /\ RemoveAt(s, i) \in Seq(S) /\ Len(RemoveAt(s, i)) < Len(s)
           /\ \E f \in [DOMAIN RemoveAt(s, i) -> DOMAIN s] :
                /\ \A j \in DOMAIN RemoveAt(s, i) : RemoveAt(s, i)[j] = s[f[j]] /\ f[j] # i
                /\ \A j, k \in DOMAIN RemoveAt(s, i) : f[j] = f[k] => j = k
  <1> DEFINE r == RemoveAt(s, i)
             f == [j \in 1..(Len(s) - 1) |-> IF j < i THEN j ELSE j + 1]
  <1>1. Len(s) \in Nat /\ DOMAIN s = 1..Len(s) /\ i \in 1..Len(s)
    BY LenProperties
  <1>2. /\ r \in Seq(S) /\ Len(r) = Len(s) - 1
        /\ \A j \in 1..Len(s) - 1 : r[j] = IF j < i THEN s[j] ELSE s[j + 1]
    BY <1>1, RemoveAtProperties
  <1> HIDE DEF r
  <1>3. DOMAIN r = 1..(Len(s) - 1)
    BY <1>2, LenProperties
  <1>4. /\ f \in [1..(Len(s) - 1) -> 1..Len(s)]
        /\ \A j \in 1..(Len(s) - 1) : f[j] = IF j < i THEN j ELSE j + 1
    BY <1>1
  <1> HIDE DEF f
  <1>5. \A j \in 1..(Len(s) - 1) : r[j] = s[f[j]] /\ f[j] # i
    BY <1>1, <1>2, <1>4
  <1>6. \A j, k \in 1..(Len(s) - 1) : f[j] = f[k] => j = k
    BY <1>1, <1>4
  <1>7. Len(r) < Len(s)
    BY <1>1, <1>2
  <1>8. \E g \in [DOMAIN r -> DOMAIN s] :
          /\ \A j \in DOMAIN r : r[j] = s[g[j]] /\ g[j] # i
          /\ \A j, k \in DOMAIN r : g[j] = g[k] => j = k
    <2>1. /\ f \in [DOMAIN r -> DOMAIN s]
          /\ \A j \in DOMAIN r : r[j] = s[f[j]] /\ f[j] # i
          /\ \A j, k \in DOMAIN r : f[j] = f[k] => j = k
      BY <1>1, <1>3, <1>4, <1>5, <1>6, Zenon
    <2> QED
      BY <2>1, Zenon
  <1> QED
    BY <1>2, <1>7, <1>8, Zenon DEF r

\* The same for the removal of the head.
LEMMA TailFacts ==
    ASSUME NEW T, NEW s \in Seq(T), s # << >>
    PROVE  /\ Tail(s) \in Seq(T) /\ Head(s) = s[1] /\ s[1] \in T /\ 1 \in DOMAIN s
           /\ \E f \in [DOMAIN Tail(s) -> DOMAIN s] :
                /\ \A i \in DOMAIN Tail(s) : Tail(s)[i] = s[f[i]] /\ f[i] # 1
                /\ \A i, j \in DOMAIN Tail(s) : f[i] = f[j] => i = j
  <1>1. /\ Tail(s) \in Seq(T) /\ Head(s) = s[1] /\ Len(s) \in Nat \ {0}
        /\ DOMAIN s = 1..Len(s) /\ DOMAIN Tail(s) = 1..(Len(s) - 1)
        /\ \A i \in 1..(Len(s) - 1) : Tail(s)[i] = s[i + 1]
    OBVIOUS
  <1>2. s[1] \in T
    BY <1>1
  <1> DEFINE f == [i \in 1..(Len(s) - 1) |-> i + 1]
  <1>3. f \in [1..(Len(s) - 1) -> 1..Len(s)] /\ \A i \in 1..(Len(s) - 1) : f[i] = i + 1
    BY <1>1
  <1> HIDE DEF f
  <1>4. /\ \A i \in 1..(Len(s) - 1) : Tail(s)[i] = s[f[i]] /\ f[i] # 1
        /\ \A i, j \in 1..(Len(s) - 1) : f[i] = f[j] => i = j
    BY <1>1, <1>3
  <1> QED
    BY <1>1, <1>2, <1>3, <1>4, SMTT(30)

-----------------------------------------------------------------------------
(* Removal by a condition.                                                  *)

IsAscending(f, m, I) ==
    /\ f \in [1..m -> I]
    /\ \A j, k \in 1..m : j < k => f[j] < f[k]
    /\ \A i \in I : \E k \in 1..m : f[k] = i

LEMMA AscendingStep ==
    ASSUME NEW n \in Nat, NEW I \in SUBSET (1..(n + 1)), n + 1 \in I,
           NEW m \in 0..n, NEW f, IsAscending(f, m, I \ {n + 1})
    PROVE  \E g : IsAscending(g, m + 1, I)
  <1> DEFINE g == [k \in 1..(m + 1) |-> IF k = m + 1 THEN n + 1 ELSE f[k]]
  <1>1. \A k \in 1..m : f[k] \in I /\ f[k] \in 1..n
    <2>1. \A k \in 1..m : f[k] \in I \ {n + 1}
      BY DEF IsAscending
    <2>2. \A x \in I \ {n + 1} : x \in 1..n
      OBVIOUS
    <2> QED
      BY <2>1, <2>2
  <1>2. g[m + 1] = n + 1 /\ \A k \in 1..m : g[k] = f[k]
    OBVIOUS
  <1>3. \A k \in 1..(m + 1) : k = m + 1 \/ k \in 1..m
    OBVIOUS
  <1>4. g \in [1..(m + 1) -> I]
    BY <1>1, <1>3
  <1> HIDE DEF g
  <1>5. ASSUME NEW j \in 1..(m + 1), NEW k \in 1..(m + 1), j < k
        PROVE  g[j] < g[k]
    <2>1. j \in 1..m /\ g[j] = f[j] /\ f[j] \in 1..n
      BY <1>1, <1>2, <1>5
    <2>2. CASE k = m + 1
      BY <1>2, <2>1, <2>2
    <2>3. CASE k \in 1..m
      BY <1>2, <1>5, <2>1, <2>3 DEF IsAscending
    <2> QED
      BY <1>3, <2>2, <2>3
  <1>6. ASSUME NEW i \in I
        PROVE  \E k \in 1..(m + 1) : g[k] = i
    <2>1. CASE i = n + 1
      BY <1>2, <2>1
    <2>2. CASE i # n + 1
      <3>1. PICK k \in 1..m : f[k] = i
        BY <2>2 DEF IsAscending
      <3> QED
        BY <1>2, <3>1
    <2> QED
      BY <2>1, <2>2
  <1> QED
    BY <1>4, <1>5, <1>6 DEF IsAscending

LEMMA AscendingExists ==
    \A n \in Nat : \A I \in SUBSET (1..n) : \E m \in 0..n : \E f : IsAscending(f, m, I)
  <1> DEFINE P(n) == \A I \in SUBSET (1..n) : \E m \in 0..n : \E f : IsAscending(f, m, I)
             S == {n \in Nat : P(n)}
  <1>1. P(0)
    <2> SUFFICES ASSUME NEW I \in SUBSET (1..0)
                 PROVE  \E m \in 0..0 : \E f : IsAscending(f, m, I)
      OBVIOUS
    <2>1. IsAscending([k \in 1..0 |-> 0], 0, I)
      BY DEF IsAscending
    <2> QED
      BY <2>1
  <1>2. ASSUME NEW n \in Nat, P(n)
        PROVE  P(n + 1)
    <2> SUFFICES ASSUME NEW I \in SUBSET (1..(n + 1))
                 PROVE  \E m \in 0..(n + 1) : \E f : IsAscending(f, m, I)
      OBVIOUS
    <2>1. CASE n + 1 \notin I
      <3>1. I \in SUBSET (1..n)
        BY <2>1
      <3> QED
        BY <1>2, <3>1
    <2>2. CASE n + 1 \in I
      <3>1. I \ {n + 1} \in SUBSET (1..n)
        OBVIOUS
      <3>2. PICK m \in 0..n : \E f : IsAscending(f, m, I \ {n + 1})
        BY <1>2, <3>1
      <3>3. \E g : IsAscending(g, m + 1, I)
        BY <2>2, <3>2, AscendingStep
      <3> QED
        BY <3>3
    <2> QED
      BY <2>1, <2>2
  <1> HIDE DEF P
  <1>3. S = Nat
    <2>1. S \in SUBSET Nat /\ 0 \in S /\ \A n \in S : n + 1 \in S
      BY <1>1, <1>2
    <2> HIDE DEF S
    <2> QED
      BY <2>1, SetInduction
  <1> QED
    BY <1>3 DEF P

LEMMA AscendingProperties ==
    ASSUME NEW n \in Nat, NEW I \in SUBSET (1..n)
    PROVE  /\ Cardinality(I) \in 0..n
           /\ IsAscending(Ascending(I), Cardinality(I), I)
  <1>0. PICK m \in 0..n : \E f : IsAscending(f, m, I)
    BY AscendingExists
  <1>1. PICK f : IsAscending(f, m, I)
    BY <1>0
  <1>2. Cardinality(I) = m
    <2>1. f \in [1..m -> I] /\ \A i \in I : \E k \in 1..m : f[k] = i
      BY <1>1 DEF IsAscending
    <2>2. ASSUME NEW j \in 1..m, NEW k \in 1..m, f[j] = f[k]
          PROVE  j = k
      <3>1. f[j] \in Nat /\ f[k] \in Nat
        <4>1. f[j] \in I /\ f[k] \in I
          BY <2>1
        <4>2. \A i \in I : i \in Nat
          OBVIOUS
        <4> QED
          BY <4>1, <4>2
      <3>2. (j < k => f[j] < f[k]) /\ (k < j => f[k] < f[j])
        BY <1>1 DEF IsAscending
      <3>3. ~(j < k) /\ ~(k < j)
        BY <2>2, <3>1, <3>2
      <3> QED
        BY <3>3
    <2>3. f \in Bijection(1..m, I)
      BY <2>1, <2>2 DEF Bijection, Injection, Surjection, IsInjective
    <2> QED
      BY <2>3, FS_CountingElements DEF ExistsBijection
  <1>3. \E g \in [1..Cardinality(I) -> I] :
           /\ \A j, k \in 1..Cardinality(I) : j < k => g[j] < g[k]
           /\ \A i \in I : \E k \in 1..Cardinality(I) : g[k] = i
    BY <1>1, <1>2 DEF IsAscending
  <1> QED
    BY <1>2, <1>3 DEF Ascending, IsAscending

\* Without keeps exactly the nodes that are not removed, each once and in their order.
LEMMA WithoutProperties ==
    ASSUME NEW T, NEW s \in Seq(T), NEW S
    PROVE  /\ Without(s, S) \in Seq(T)
           /\ Len(Without(s, S)) \in 0..Len(s)
           /\ \E f \in [1..Len(Without(s, S)) -> 1..Len(s)] :
                /\ \A j, k \in 1..Len(Without(s, S)) : j < k => f[j] < f[k]
                /\ \A k \in 1..Len(Without(s, S)) : Without(s, S)[k] = s[f[k]] /\ s[f[k]] \notin S
                /\ \A i \in 1..Len(s) : s[i] \notin S =>
                      \E k \in 1..Len(Without(s, S)) : f[k] = i
  <1> DEFINE I == {i \in DOMAIN s : s[i] \notin S}
             m == Cardinality(I)
             f == Ascending(I)
             r == Without(s, S)
  <1>1. Len(s) \in Nat /\ DOMAIN s = 1..Len(s) /\ \A i \in 1..Len(s) : s[i] \in T
    BY LenProperties, ElementOfSeq
  <1>2. I \in SUBSET (1..Len(s)) /\ \A i \in 1..Len(s) : i \in I <=> s[i] \notin S
    BY <1>1
  <1>3. r = [k \in 1..m |-> s[f[k]]]
    BY DEF Without
  <1> HIDE DEF I, r
  <1>4. m \in 0..Len(s) /\ IsAscending(f, m, I)
    BY <1>1, <1>2, AscendingProperties
  <1> HIDE DEF m, f
  <1>5. f \in [1..m -> I] /\ f \in [1..m -> 1..Len(s)]
    BY <1>2, <1>4 DEF IsAscending
  <1>6. r \in [1..m -> T] /\ \A k \in 1..m : r[k] = s[f[k]]
    BY <1>1, <1>3, <1>5
  <1>7. r \in Seq(T)
    BY <1>4, <1>6, SeqDef
  <1>8. Len(r) = m
    BY <1>4, <1>6, <1>7, LenProperties
  <1>9. /\ \A j, k \in 1..m : j < k => f[j] < f[k]
        /\ \A k \in 1..m : s[f[k]] \notin S
        /\ \A i \in 1..Len(s) : s[i] \notin S => \E k \in 1..m : f[k] = i
    BY <1>2, <1>4, <1>5 DEF IsAscending
  <1>10. \E g \in [1..Len(r) -> 1..Len(s)] :
           /\ \A j, k \in 1..Len(r) : j < k => g[j] < g[k]
           /\ \A k \in 1..Len(r) : r[k] = s[g[k]] /\ s[g[k]] \notin S
           /\ \A i \in 1..Len(s) : s[i] \notin S => \E k \in 1..Len(r) : g[k] = i
    <2>1. /\ f \in [1..Len(r) -> 1..Len(s)]
          /\ \A j, k \in 1..Len(r) : j < k => f[j] < f[k]
          /\ \A k \in 1..Len(r) : r[k] = s[f[k]] /\ s[f[k]] \notin S
          /\ \A i \in 1..Len(s) : s[i] \notin S => \E k \in 1..Len(r) : f[k] = i
      BY <1>5, <1>6, <1>8, <1>9, Zenon
    <2> QED
      BY <2>1, Zenon
  <1> QED
    BY <1>4, <1>7, <1>8, <1>10 DEF r

\* The members of a list from which nodes were removed.
LEMMA WithoutMembers ==
    ASSUME NEW T, NEW s \in Seq(T), NEW S
    PROVE  ToSet(Without(s, S)) = ToSet(s) \ S
  <1> DEFINE r == Without(s, S)
  <1>1. r \in Seq(T) /\ Len(r) \in Nat /\ Len(s) \in Nat
        /\ DOMAIN r = 1..Len(r) /\ DOMAIN s = 1..Len(s)
    BY WithoutProperties, LenProperties
  <1>2. PICK f \in [1..Len(r) -> 1..Len(s)] :
          /\ \A k \in 1..Len(r) : r[k] = s[f[k]] /\ s[f[k]] \notin S
          /\ \A i \in 1..Len(s) : s[i] \notin S => \E k \in 1..Len(r) : f[k] = i
    BY WithoutProperties, SMTT(30)
  <1> HIDE DEF r
  <1>3. ASSUME NEW x \in ToSet(r)
        PROVE  x \in ToSet(s) \ S
    BY <1>1, <1>2 DEF ToSet
  <1>4. ASSUME NEW x \in ToSet(s) \ S
        PROVE  x \in ToSet(r)
    <2>1. PICK i \in 1..Len(s) : s[i] = x /\ x \notin S
      BY <1>1 DEF ToSet
    <2>2. PICK k \in 1..Len(r) : f[k] = i
      BY <1>2, <2>1
    <2> QED
      BY <1>1, <1>2, <2>1, <2>2 DEF ToSet
  <1> QED
    BY <1>3, <1>4 DEF r

\* Where the nodes were that Without keeps.
LEMMA WithoutMap ==
    ASSUME NEW T, NEW s \in Seq(T), NEW S
    PROVE  \E f \in [DOMAIN Without(s, S) -> DOMAIN s] :
              /\ \A j \in DOMAIN Without(s, S) : Without(s, S)[j] = s[f[j]] /\ s[f[j]] \notin S
              /\ \A j, k \in DOMAIN Without(s, S) : f[j] = f[k] => j = k
  <1> DEFINE r == Without(s, S)
  <1>1. r \in Seq(T) /\ Len(r) \in Nat /\ Len(s) \in Nat
        /\ DOMAIN r = 1..Len(r) /\ DOMAIN s = 1..Len(s)
    BY WithoutProperties, LenProperties
  <1>2. PICK f \in [1..Len(r) -> 1..Len(s)] :
          /\ \A j, k \in 1..Len(r) : j < k => f[j] < f[k]
          /\ \A k \in 1..Len(r) : r[k] = s[f[k]] /\ s[f[k]] \notin S
    BY WithoutProperties
  <1> HIDE DEF r
  <1>3. ASSUME NEW i \in 1..Len(r), NEW j \in 1..Len(r), f[i] = f[j]
        PROVE  i = j
    <2>1. f[i] \in 1..Len(s) /\ f[j] \in 1..Len(s) /\ i \in Nat /\ j \in Nat
      BY <1>1, <1>2
    <2>2. ~(f[i] < f[j]) /\ ~(f[j] < f[i])
      BY <1>1, <1>3, <2>1
    <2>3. ~(i < j) /\ ~(j < i)
      BY <1>2, <2>2
    <2> QED
      BY <2>1, <2>3
  <1> QED
    BY <1>1, <1>2, <1>3 DEF r

=============================================================================
