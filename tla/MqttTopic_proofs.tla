-------------------------- MODULE MqttTopic_proofs --------------------------
(***************************************************************************)
(* Proofs about MqttTopic, for every text: validation accepts what is well *)
(* formed and refuses what its tokens show, and the character loop of the  *)
(* matching decides what the definition by levels says.                    *)
(***************************************************************************)
EXTENDS MCMqttTopic, LinkedList_proofs

----------------------------------------------------------------------------
(* Induction and recursion over an interval.                                *)

\* Induction up to a bound.
LEMMA UpTo ==
    ASSUME NEW m \in Nat, NEW S, 0 \in S, \A i \in 0..(m - 1) : i \in S => i + 1 \in S
    PROVE  \A i \in 0..m : i \in S
  <1> DEFINE T == {i \in Nat : i <= m => i \in S}
  <1>1. 0 \in T
    OBVIOUS
  <1>2. ASSUME NEW i \in T PROVE i + 1 \in T
    <2>1. i \in Nat /\ (i <= m => i \in S)
      OBVIOUS
    <2>2. ASSUME i + 1 <= m PROVE i + 1 \in S
      BY <2>1, <2>2
    <2> QED
      BY <2>1, <2>2
  <1>3. T \in SUBSET Nat
    OBVIOUS
  <1> HIDE DEF T
  <1>4. T = Nat
    BY <1>1, <1>2, <1>3, SetInduction
  <1> QED
    BY <1>4 DEF T

\* The functions that give each step its next value, and k steps from v on.
StepFunctions(V) == [Nat -> [V -> V]]
Iterates(g, k, V, v, F) ==
    g \in [0..k -> V] /\ g[0] = v /\ \A i \in 1..k : g[i] = F[i - 1][g[i - 1]]

\* A step function can be iterated any number of times.
LEMMA Iteration ==
    ASSUME NEW m \in Nat, NEW V, NEW v \in V, NEW F \in StepFunctions(V)
    PROVE  \E g : Iterates(g, m, V, v, F)
  <1> USE DEF StepFunctions, Iterates
  <1> DEFINE Iter(g, k) == Iterates(g, k, V, v, F)
             T == {k \in Nat : \E g : Iter(g, k)}
  <1>1. 0 \in T
    <2>1. Iter([i \in 0..0 |-> v], 0)
      OBVIOUS
    <2> QED
      BY <2>1
  <1>2. ASSUME NEW k \in T PROVE k + 1 \in T
    <2>1. PICK g : Iter(g, k)
      OBVIOUS
    <2>2. k \in Nat
      OBVIOUS
    <2> DEFINE h == [i \in 0..(k + 1) |-> IF i = k + 1 THEN F[k][g[k]] ELSE g[i]]
    <2>3. F[k][g[k]] \in V
      <3>1. g[k] \in V /\ F[k] \in [V -> V]
        BY <2>1, <2>2
      <3> QED
        BY <3>1
    <2>4. h \in [0..(k + 1) -> V]
      <3>1. ASSUME NEW i \in 0..(k + 1) PROVE (IF i = k + 1 THEN F[k][g[k]] ELSE g[i]) \in V
        <4>1. CASE i = k + 1
          BY <4>1, <2>3
        <4>2. CASE i # k + 1
          <5>1. i \in 0..k
            BY <2>2, <4>2
          <5> QED
            BY <2>1, <4>2, <5>1
        <4> QED
          BY <4>1, <4>2
      <3> QED
        BY <3>1
    <2>5. h[0] = v /\ \A i \in 0..k : h[i] = g[i]
      BY <2>1, <2>2
    <2>6. h[k + 1] = F[k][g[k]]
      BY <2>2
    <2> HIDE DEF h
    <2>7. ASSUME NEW i \in 1..(k + 1) PROVE h[i] = F[i - 1][h[i - 1]]
      <3>1. i - 1 \in 0..k /\ h[i - 1] = g[i - 1]
        BY <2>2, <2>5
      <3>2. CASE i = k + 1
        BY <2>2, <2>6, <3>1, <3>2
      <3>3. CASE i # k + 1
        <4>1. i \in 1..k /\ i \in 0..k
          BY <2>2, <3>3
        <4>2. g[i] = F[i - 1][g[i - 1]]
          BY <2>1, <4>1
        <4> QED
          BY <2>5, <3>1, <4>1, <4>2
      <3> QED
        BY <3>2, <3>3
    <2>8. Iter(h, k + 1)
      BY <2>4, <2>5, <2>7
    <2> QED
      BY <2>2, <2>8
  <1>3. T \in SUBSET Nat
    OBVIOUS
  <1> HIDE DEF T
  <1>4. m \in T
    BY <1>1, <1>2, <1>3, SetInduction
  <1> QED
    BY <1>4 DEF T

----------------------------------------------------------------------------
(* Slashes and levels.                                                      *)

\* The first slash from a place on.
LEMMA NextSlashProperties ==
    ASSUME NEW C, NEW s \in Seq(C), NEW j \in 1..(Len(s) + 1)
    PROVE  /\ Len(s) \in Nat
           /\ NextSlash(s, j) \in j..(Len(s) + 1)
           /\ NextSlash(s, j) <= Len(s) => s[NextSlash(s, j)] = "/"
           /\ \A k \in j..(NextSlash(s, j) - 1) : s[k] # "/"
  <1> DEFINE T == {k \in Slashes(s) : k >= j} \cup {Len(s) + 1}
  <1>1. Len(s) \in Nat
    BY LenProperties
  <1>2. T \in SUBSET Nat /\ T # {} /\ Len(s) + 1 \in T
    BY <1>1 DEF Slashes
  <1>3. \A k \in T : k \in j..(Len(s) + 1) /\ (k <= Len(s) => s[k] = "/")
    BY <1>1 DEF Slashes
  <1>4. \A k \in j..Len(s) : s[k] = "/" => k \in T
    BY <1>1 DEF Slashes
  <1>5. NextSlash(s, j) = Min(T)
    BY DEF NextSlash
  <1> HIDE DEF T
  <1>6. Min(T) \in T /\ \A k \in T : Min(T) <= k
    BY <1>2, MinProperties
  <1>7. ASSUME NEW k \in j..(Min(T) - 1) PROVE s[k] # "/"
    <2>1. Min(T) \in j..(Len(s) + 1)
      BY <1>3, <1>6
    <2>2. k \in j..Len(s) /\ k < Min(T)
      BY <1>1, <2>1
    <2> QED
      BY <1>4, <1>6, <2>1, <2>2
  <1> QED
    BY <1>1, <1>3, <1>5, <1>6, <1>7

\* The first character from a place on that is no slash.
LEMMA FirstOtherProperties ==
    ASSUME NEW C, NEW s \in Seq(C), NEW j \in 1..(Len(s) + 1)
    PROVE  /\ FirstOther(s, j) \in j..(Len(s) + 1)
           /\ FirstOther(s, j) <= Len(s) => s[FirstOther(s, j)] # "/"
           /\ \A k \in j..(FirstOther(s, j) - 1) : s[k] = "/"
  <1> DEFINE T == (j..(Len(s) + 1)) \ Slashes(s)
  <1>1. Len(s) \in Nat
    BY LenProperties
  <1>2. T \in SUBSET Nat /\ T # {} /\ Len(s) + 1 \in T
    BY <1>1 DEF Slashes
  <1>3. \A k \in T : k \in j..(Len(s) + 1) /\ (k <= Len(s) => s[k] # "/")
    BY <1>1 DEF Slashes
  <1>4. \A k \in j..Len(s) : s[k] # "/" => k \in T
    BY <1>1 DEF Slashes
  <1>5. FirstOther(s, j) = Min(T)
    BY DEF FirstOther
  <1> HIDE DEF T
  <1>6. Min(T) \in T /\ \A k \in T : Min(T) <= k
    BY <1>2, MinProperties
  <1>7. ASSUME NEW k \in j..(Min(T) - 1) PROVE s[k] = "/"
    <2>1. Min(T) \in j..(Len(s) + 1)
      BY <1>3, <1>6
    <2>2. k \in j..Len(s) /\ k < Min(T)
      BY <1>1, <2>1
    <2> QED
      BY <1>4, <1>6, <2>1, <2>2
  <1> QED
    BY <1>3, <1>5, <1>6, <1>7

\* The characters of a level.
LEMMA LevelProperties ==
    ASSUME NEW C, NEW s \in Seq(C), NEW k \in Slashes(s)
    PROVE  LET e == NextSlash(s, k + 1) IN
           /\ k \in 1..Len(s) /\ s[k] = "/" /\ k + 1 \in 1..(Len(s) + 1) /\ e \in (k + 1)..(Len(s) + 1)
           /\ Level(s, k) \in Seq(C) /\ Len(Level(s, k)) = e - (k + 1)
           /\ \A i \in 1..(e - (k + 1)) : Level(s, k)[i] = s[k + i] /\ k + i \in 1..Len(s) /\ s[k + i] # "/"
  <1> DEFINE e == NextSlash(s, k + 1)
  <1>1. Len(s) \in Nat /\ k \in 1..Len(s) /\ s[k] = "/" /\ k + 1 \in 1..(Len(s) + 1)
    BY LenProperties DEF Slashes
  <1>2. /\ e \in (k + 1)..(Len(s) + 1)
        /\ \A j \in (k + 1)..(e - 1) : s[j] # "/"
    BY <1>1, NextSlashProperties
  <1> HIDE DEF e
  <1>3. \A j \in (k + 1)..(e - 1) : s[j] \in C
    BY <1>1, <1>2, ElementOfSeq
  <1>4. /\ SubSeq(s, k + 1, e - 1) \in Seq(C)
        /\ Len(SubSeq(s, k + 1, e - 1)) = IF k + 1 <= e - 1 THEN (e - 1) - (k + 1) + 1 ELSE 0
        /\ \A i \in 1..((e - 1) - (k + 1) + 1) : SubSeq(s, k + 1, e - 1)[i] = s[(k + 1) + i - 1]
    BY <1>1, <1>2, <1>3, SubSeqProperties
  <1>5. Level(s, k) = SubSeq(s, k + 1, e - 1)
    BY DEF Level, e
  <1>6. Len(Level(s, k)) = e - (k + 1)
    BY <1>1, <1>2, <1>4, <1>5
  <1>7. ASSUME NEW i \in 1..(e - (k + 1))
        PROVE  Level(s, k)[i] = s[k + i] /\ k + i \in 1..Len(s) /\ s[k + i] # "/"
    <2>1. i \in 1..((e - 1) - (k + 1) + 1) /\ (k + 1) + i - 1 = k + i /\ k + i \in (k + 1)..(e - 1)
          /\ k + i \in 1..Len(s)
      BY <1>1, <1>2
    <2> QED
      BY <1>2, <1>4, <1>5, <2>1
  <1> QED
    BY <1>1, <1>2, <1>4, <1>5, <1>6, <1>7 DEF e

----------------------------------------------------------------------------
(* infra_strtok.                                                            *)

\* One call of infra_strtok: the token is what lies between the next character that is
\* no slash and the slash after it, and pos moves behind that slash.
LEMMA StrtokProperties ==
    ASSUME NEW C, NEW s \in Seq(C), NEW pos \in 1..(Len(s) + 1)
    PROVE  LET r == infra_strtok(s, pos)
               b == FirstOther(s, pos)
               e == NextSlash(s, b)
           IN  /\ r \in [tok : Seq(C), pos : 1..(Len(s) + 1)]
               /\ r.pos >= pos
               /\ r.tok # NoToken <=> pos < Len(s) /\ b <= Len(s)
               /\ r.tok # NoToken => /\ b \in pos..Len(s) /\ e \in (b + 1)..(Len(s) + 1)
                                     /\ r.tok = SubSeq(s, b, e - 1)
                                     /\ r.pos = IF e <= Len(s) THEN e + 1 ELSE e
  <1> DEFINE r == infra_strtok(s, pos)
             b == FirstOther(s, pos)
             e == NextSlash(s, b)
             t == SubSeq(s, b, e - 1)
  <1>1. Len(s) \in Nat /\ pos \in Nat /\ b \in pos..(Len(s) + 1) /\ b \in 1..(Len(s) + 1)
        /\ (b <= Len(s) => s[b] # "/")
    BY LenProperties, FirstOtherProperties
  <1> HIDE DEF b
  <1>2. e \in b..(Len(s) + 1) /\ (e <= Len(s) => s[e] = "/")
    BY <1>1, NextSlashProperties
  <1> HIDE DEF e
  <1>3. \A j \in b..(e - 1) : s[j] \in C
    BY <1>1, <1>2, ElementOfSeq
  <1>4. t \in Seq(C) /\ Len(t) = IF b <= e - 1 THEN e - 1 - b + 1 ELSE 0
    BY <1>1, <1>2, <1>3, SubSeqProperties
  <1>5. t # << >> <=> b < e
    BY <1>1, <1>2, <1>4, EmptySeq
  <1>6. b < e <=> b <= Len(s)
    BY <1>1, <1>2
  <1>7. r = IF pos >= Len(s) THEN [tok |-> NoToken, pos |-> pos]
                             ELSE [tok |-> t, pos |-> IF e <= Len(s) THEN e + 1 ELSE e]
    BY DEF infra_strtok, b, e
  <1> HIDE DEF r, t
  <1>8. CASE pos >= Len(s)
    <2>1. NoToken \in Seq(C)
      BY EmptySeq DEF NoToken
    <2>2. r = [tok |-> NoToken, pos |-> pos]
      BY <1>7, <1>8
    <2>3. r \in [tok : Seq(C), pos : 1..(Len(s) + 1)] /\ r.tok = NoToken /\ r.pos = pos
      BY <2>1, <2>2
    <2> QED
      BY <1>1, <1>8, <2>3 DEF r, b, e
  <1>9. CASE pos < Len(s)
    <2>1. r = [tok |-> t, pos |-> IF e <= Len(s) THEN e + 1 ELSE e]
      BY <1>1, <1>7, <1>9
    <2>2. (IF e <= Len(s) THEN e + 1 ELSE e) \in 1..(Len(s) + 1)
      BY <1>1, <1>2
    <2>3. r.tok = t /\ r.pos = (IF e <= Len(s) THEN e + 1 ELSE e)
      BY <2>1
    <2>4. r \in [tok : Seq(C), pos : 1..(Len(s) + 1)]
      BY <1>4, <2>1, <2>2
    <2>5. r.pos >= pos
      BY <1>1, <1>2, <2>3
    <2>6. r.tok # NoToken <=> pos < Len(s) /\ b <= Len(s)
      BY <1>5, <1>6, <1>9, <2>3 DEF NoToken
    <2>7. r.tok # NoToken => b \in pos..Len(s) /\ e \in (b + 1)..(Len(s) + 1)
      BY <1>1, <1>2, <1>6, <2>6
    <2> QED
      BY <2>3, <2>4, <2>5, <2>6, <2>7 DEF r, b, e, t
  <1> QED
    BY <1>1, <1>8, <1>9

\* The recursion of Calls defines a function: what follows is its value.
LEMMA CallsProperties ==
    ASSUME NEW C, NEW s \in Seq(C)
    PROVE  /\ Calls(s) \in [0..(Len(s) + 1) -> [tok : Seq(C), pos : 1..(Len(s) + 1)]]
           /\ Calls(s)[0].pos = 1
           /\ \A k \in 1..(Len(s) + 1) : Calls(s)[k] = infra_strtok(s, Calls(s)[k - 1].pos)
  <1> DEFINE m == Len(s) + 1
             V == [tok : Seq(C), pos : 1..m]
             v == [tok |-> NoToken, pos |-> 1]
             F == [k \in Nat |-> [x \in V |-> infra_strtok(s, x.pos)]]
  <1>1. m \in Nat /\ 1 \in 1..m
    BY LenProperties
  <1>2. v \in V
    BY <1>1, EmptySeq DEF NoToken
  <1>3. ASSUME NEW x \in V PROVE infra_strtok(s, x.pos) \in V
    BY <1>3, StrtokProperties
  <1>4. F \in [Nat -> [V -> V]]
    BY <1>3
  <1> HIDE DEF m, V
  <1>5. PICK g : g \in [0..m -> V] /\ g[0] = v /\ \A i \in 1..m : g[i] = F[i - 1][g[i - 1]]
    <2> HIDE DEF F, v
    <2>1. F \in StepFunctions(V)
      BY <1>4 DEF StepFunctions
    <2>2. \E g : Iterates(g, m, V, v, F)
      BY <1>1, <1>2, <2>1, Iteration, Zenon
    <2> QED
      BY <2>2 DEF Iterates
  <1>6. \A i \in 1..m : g[i] = infra_strtok(s, g[i - 1].pos)
    <2> SUFFICES ASSUME NEW i \in 1..m PROVE g[i] = infra_strtok(s, g[i - 1].pos)
      OBVIOUS
    <2>1. i - 1 \in Nat /\ i - 1 \in 0..m /\ g[i - 1] \in V
      BY <1>1, <1>5
    <2> QED
      BY <1>5, <2>1
  <1> HIDE DEF F
  <1> DEFINE Body(c) == [k \in 0..m |-> IF k = 0 THEN v ELSE infra_strtok(s, c[k - 1].pos)]
  <1>7. g = Body(g)
    <2>1. \A k \in 0..m : g[k] = IF k = 0 THEN v ELSE infra_strtok(s, g[k - 1].pos)
      BY <1>1, <1>5, <1>6
    <2> QED
      BY <1>5, <2>1
  <1>8. Calls(s) = CHOOSE c : c = Body(c)
    BY DEF Calls, m
  <1>9. Calls(s) = Body(Calls(s))
    BY <1>7, <1>8, Zenon
  <1> DEFINE c == Calls(s)
  <1>10. c[0] = v /\ \A k \in 1..m : c[k] = infra_strtok(s, c[k - 1].pos)
    <2> HIDE DEF c
    <2>1. c = Body(c)
      BY <1>9 DEF c
    <2> HIDE DEF v
    <2>2. \A k \in 0..m : c[k] = IF k = 0 THEN v ELSE infra_strtok(s, c[k - 1].pos)
      BY <2>1
    <2> QED
      BY <1>1, <2>2
  <1>11. \A k \in 0..m : c[k] \in V
    <2> HIDE DEF c
    <2> DEFINE S == {k \in 0..m : c[k] \in V}
    <2>1. 0 \in S
      BY <1>1, <1>2, <1>10
    <2>2. ASSUME NEW i \in 0..(m - 1), i \in S PROVE i + 1 \in S
      <3>1. i + 1 \in 1..m /\ i + 1 \in 0..m /\ c[i + 1] = infra_strtok(s, c[i].pos)
        BY <1>1, <1>10
      <3> QED
        BY <1>3, <2>2, <3>1
    <2> HIDE DEF S
    <2>3. \A i \in 0..m : i \in S
      BY <1>1, <2>1, <2>2, UpTo
    <2> QED
      BY <2>3 DEF S
  <1>12. c \in [0..m -> V]
    <2>1. c = Body(c)
      BY <1>9
    <2> HIDE DEF c
    <2>2. c = [k \in 0..m |-> c[k]]
      BY <2>1
    <2> QED
      BY <1>11, <2>2
  <1> QED
    BY <1>10, <1>12 DEF m, V

\* pos before call k + 1.
Pos(s, k) == Calls(s)[k].pos

\* A place where infra_strtok begins a token: after a slash, or at an end of the buffer.
Behind(s, p) == p = 1 \/ p = Len(s) + 1 \/ s[p - 1] = "/"

\* What call k does, in terms of pos.
LEMMA CallFacts ==
    ASSUME NEW C, NEW s \in Seq(C), NEW k \in 1..(Len(s) + 1)
    PROVE  LET p == Pos(s, k - 1)
               b == FirstOther(s, p)
               e == NextSlash(s, b)
               t == Calls(s)[k].tok
           IN  /\ Len(s) \in Nat /\ p \in 1..(Len(s) + 1) /\ Pos(s, k) \in 1..(Len(s) + 1)
               /\ t \in Seq(C) /\ p <= Pos(s, k)
               /\ t # NoToken <=> p < Len(s) /\ b <= Len(s)
               /\ t # NoToken => /\ b \in p..Len(s) /\ e \in (b + 1)..(Len(s) + 1)
                                 /\ t = SubSeq(s, b, e - 1)
                                 /\ Pos(s, k) = IF e <= Len(s) THEN e + 1 ELSE e
               /\ t = NoToken => Pos(s, k) = p \/ b = Len(s) + 1
  <1> DEFINE p == Pos(s, k - 1)
             r == infra_strtok(s, p)
  <1>1. Len(s) \in Nat /\ k - 1 \in 0..(Len(s) + 1) /\ k \in 0..(Len(s) + 1)
    BY LenProperties
  <1>2. Calls(s)[k - 1] \in [tok : Seq(C), pos : 1..(Len(s) + 1)] /\ Calls(s)[k] = r
    BY <1>1, CallsProperties DEF Pos
  <1>3. p \in 1..(Len(s) + 1)
    BY <1>2 DEF Pos
  <1> HIDE DEF p
  <1>4. Pos(s, k) = r.pos /\ Calls(s)[k].tok = r.tok
    BY <1>2 DEF Pos
  <1>5. r \in [tok : Seq(C), pos : 1..(Len(s) + 1)] => r.tok \in Seq(C) /\ r.pos \in 1..(Len(s) + 1)
    OBVIOUS
  <1>6. FirstOther(s, p) \in p..(Len(s) + 1)
    BY <1>3, FirstOtherProperties
  <1>7. r.tok = NoToken => r.pos = p \/ FirstOther(s, p) = Len(s) + 1
    <2>1. CASE p >= Len(s)
      BY <2>1 DEF infra_strtok
    <2>2. CASE p < Len(s)
      <3>1. r.tok = NoToken => ~(FirstOther(s, p) <= Len(s))
        BY <1>3, <2>2, StrtokProperties
      <3> QED
        BY <1>1, <1>3, <1>6, <3>1
    <2> QED
      BY <1>1, <1>3, <2>1, <2>2
  <1> HIDE DEF r
  <1>8. LET b == FirstOther(s, p)
            e == NextSlash(s, b)
        IN  /\ r \in [tok : Seq(C), pos : 1..(Len(s) + 1)]
            /\ r.pos >= p
            /\ r.tok # NoToken <=> p < Len(s) /\ b <= Len(s)
            /\ r.tok # NoToken => /\ b \in p..Len(s) /\ e \in (b + 1)..(Len(s) + 1)
                                  /\ r.tok = SubSeq(s, b, e - 1)
                                  /\ r.pos = IF e <= Len(s) THEN e + 1 ELSE e
    BY <1>3, StrtokProperties DEF r
  <1>9. p <= r.pos
    BY <1>1, <1>3, <1>5, <1>8
  <1> QED
    BY <1>1, <1>3, <1>4, <1>5, <1>7, <1>8, <1>9 DEF p

\* infra_strtok always stops behind a slash, or at an end.
LEMMA PosBehind ==
    ASSUME NEW C, NEW s \in Seq(C)
    PROVE  \A k \in 0..(Len(s) + 1) : Behind(s, Pos(s, k))
  <1> DEFINE S == {k \in 0..(Len(s) + 1) : Behind(s, Pos(s, k))}
  <1>1. Len(s) \in Nat
    BY LenProperties
  <1>2. 0 \in S
    BY <1>1, CallsProperties DEF Pos, Behind
  <1>3. ASSUME NEW i \in 0..(Len(s) + 1 - 1), i \in S PROVE i + 1 \in S
    <2> DEFINE k == i + 1
               p == Pos(s, i)
               b == FirstOther(s, p)
               e == NextSlash(s, b)
    <2>1. k \in 1..(Len(s) + 1) /\ k - 1 = i /\ k \in 0..(Len(s) + 1)
      BY <1>1
    <2> HIDE DEF k
    <2>2. /\ Calls(s)[k].tok # NoToken =>
                /\ b \in p..Len(s) /\ e \in (b + 1)..(Len(s) + 1)
                /\ Pos(s, k) = IF e <= Len(s) THEN e + 1 ELSE e
          /\ Calls(s)[k].tok = NoToken => Pos(s, k) = p \/ b = Len(s) + 1
          /\ Calls(s)[k].tok # NoToken <=> p < Len(s) /\ b <= Len(s)
          /\ p \in 1..(Len(s) + 1)
      BY <2>1, CallFacts
    <2>3. CASE Calls(s)[k].tok # NoToken
      <3>1. b \in 1..(Len(s) + 1) /\ e \in 1..(Len(s) + 1)
        BY <1>1, <2>2, <2>3
      <3>2. e <= Len(s) => s[e] = "/"
        BY <3>1, NextSlashProperties
      <3>3. CASE e <= Len(s)
        <4>1. Pos(s, k) = e + 1 /\ Pos(s, k) - 1 = e
          BY <2>2, <2>3, <3>1, <3>3
        <4> QED
          BY <2>1, <3>2, <3>3, <4>1 DEF Behind, k
      <3>4. CASE ~(e <= Len(s))
        <4>1. Pos(s, k) = Len(s) + 1
          BY <1>1, <2>2, <2>3, <3>1, <3>4
        <4> QED
          BY <2>1, <4>1 DEF Behind, k
      <3> QED
        BY <3>3, <3>4
    <2>4. CASE Calls(s)[k].tok = NoToken
      <3>1. CASE p >= Len(s)
        <4>1. infra_strtok(s, p) = [tok |-> NoToken, pos |-> p]
          BY <3>1 DEF infra_strtok
        <4>2. Calls(s)[k] = infra_strtok(s, p)
          BY <2>1, CallsProperties DEF Pos
        <4>3. Pos(s, k) = p
          BY <4>1, <4>2 DEF Pos
        <4> QED
          BY <1>3, <2>1, <4>3 DEF k
      <3>2. CASE ~(p >= Len(s))
        <4>0. p < Len(s) /\ p \in 1..(Len(s) + 1)
          BY <1>1, <2>2, <3>2
        <4>1. b = Len(s) + 1
          <5>1. b \in p..(Len(s) + 1) /\ ~(b <= Len(s))
            BY <2>2, <2>4, <4>0, FirstOtherProperties
          <5> QED
            BY <1>1, <4>0, <5>1
        <4>2. e = Len(s) + 1
          <5>1. b \in 1..(Len(s) + 1)
            BY <1>1, <4>1
          <5>2. e \in b..(Len(s) + 1)
            BY <5>1, NextSlashProperties
          <5> QED
            BY <1>1, <4>1, <5>2
        <4>3. infra_strtok(s, p).pos = e
          BY <1>1, <3>2, <4>2 DEF infra_strtok
        <4>4. Calls(s)[k] = infra_strtok(s, p)
          BY <2>1, CallsProperties DEF Pos
        <4>5. Pos(s, k) = Len(s) + 1
          BY <4>2, <4>3, <4>4 DEF Pos
        <4> QED
          BY <2>1, <4>5 DEF Behind, k
      <3> QED
        BY <3>1, <3>2
    <2> QED
      BY <2>3, <2>4
  <1> HIDE DEF S
  <1>4. \A i \in 0..(Len(s) + 1) : i \in S
    <2> DEFINE m == Len(s) + 1
    <2>1. m \in Nat
      BY <1>1
    <2>2. \A i \in 0..(m - 1) : i \in S => i + 1 \in S
      BY <1>3
    <2> HIDE DEF m
    <2>3. \A i \in 0..m : i \in S
      BY <1>2, <2>1, <2>2, UpTo
    <2> QED
      BY <2>3 DEF m
  <1> QED
    BY <1>4 DEF S

\* pos never moves back.
LEMMA PosMonotone ==
    ASSUME NEW C, NEW s \in Seq(C), NEW i \in 0..(Len(s) + 1), NEW j \in i..(Len(s) + 1)
    PROVE  /\ Pos(s, i) \in 1..(Len(s) + 1) /\ Pos(s, j) \in 1..(Len(s) + 1)
           /\ Pos(s, i) <= Pos(s, j)
  <1> DEFINE m == Len(s) + 1
             S == {k \in 0..m : i <= k => Pos(s, i) <= Pos(s, k)}
  <1>1. Len(s) \in Nat /\ m \in Nat /\ i \in 0..m /\ j \in 0..m /\ i <= j
    BY LenProperties
  <1>2. \A k \in 0..m : Pos(s, k) \in 1..m
    BY CallsProperties DEF Pos
  <1>3. 0 \in S
    BY <1>1, <1>2
  <1>4. ASSUME NEW k \in 0..(m - 1), k \in S PROVE k + 1 \in S
    <2>1. k + 1 \in 1..m /\ (k + 1) - 1 = k /\ k \in 0..m /\ k + 1 \in 0..m
      BY <1>1
    <2>2. Pos(s, k) <= Pos(s, k + 1)
      BY <2>1, CallFacts
    <2>3. Pos(s, k) \in 1..m /\ Pos(s, k + 1) \in 1..m /\ Pos(s, i) \in 1..m
      <3> HIDE DEF m, S
      <3> QED
        BY <1>1, <1>2, <2>1
    <2> QED
      BY <1>1, <1>4, <2>1, <2>2, <2>3
  <1> HIDE DEF S
  <1>5. \A k \in 0..m : k \in S
    BY <1>1, <1>3, <1>4, UpTo
  <1> QED
    BY <1>1, <1>2, <1>5 DEF S

\* Every token is a level, and pos passes the level that it returns.
LEMMA TokenIsLevel ==
    ASSUME NEW C, NEW s \in Seq(C), s # << >>, s[1] = "/",
           NEW k \in 1..(Len(s) + 1), Calls(s)[k].tok # NoToken
    PROVE  \E a \in Slashes(s) : /\ Calls(s)[k].tok = Level(s, a) /\ a + 1 <= Len(s)
                                 /\ Pos(s, k - 1) <= a + 1 /\ a + 1 < Pos(s, k)
  <1> DEFINE p == Pos(s, k - 1)
             b == FirstOther(s, p)
             e == NextSlash(s, b)
             a == b - 1
  <1>1. /\ Len(s) \in Nat /\ p \in 1..(Len(s) + 1) /\ p < Len(s)
        /\ b \in p..Len(s) /\ e \in (b + 1)..(Len(s) + 1)
        /\ Calls(s)[k].tok = SubSeq(s, b, e - 1)
        /\ Pos(s, k) = IF e <= Len(s) THEN e + 1 ELSE e
    BY CallFacts
  <1>2. Behind(s, p)
    <2>1. k - 1 \in 0..(Len(s) + 1)
      BY <1>1
    <2> QED
      BY <2>1, PosBehind
  <1> HIDE DEF p
  <1>3. s[b] # "/" /\ \A j \in p..(b - 1) : s[j] = "/"
    BY <1>1, FirstOtherProperties
  <1> HIDE DEF b, e
  <1>4. b # 1 /\ b - 1 \in 1..Len(s) /\ b \in 1..Len(s)
    BY <1>1, <1>3
  <1>5. s[b - 1] = "/"
    <2>1. CASE b = p
      BY <1>1, <1>2, <1>4, <2>1 DEF Behind
    <2>2. CASE b # p
      <3>1. b - 1 \in p..(b - 1)
        BY <1>1, <2>2
      <3> QED
        BY <1>3, <3>1
    <2> QED
      BY <2>1, <2>2
  <1>6. a \in Slashes(s) /\ a + 1 = b
    BY <1>1, <1>4, <1>5 DEF Slashes
  <1>7. Level(s, a) = SubSeq(s, b, e - 1)
    BY <1>6 DEF Level, e
  <1>8. a + 1 <= Len(s) /\ p <= a + 1 /\ a + 1 < Pos(s, k)
    BY <1>1, <1>4, <1>6
  <1> HIDE DEF a
  <1> QED
    BY <1>1, <1>6, <1>7, <1>8 DEF p

\* The number of tokens: the calls up to the first that returns NULL.
LEMMA TokensProperties ==
    ASSUME NEW C, NEW s \in Seq(C)
    PROVE  /\ Len(s) \in Nat /\ Tokens(s) \in Seq(Seq(C)) /\ Len(Tokens(s)) \in 0..Len(s)
           /\ \A k \in 1..Len(Tokens(s)) : /\ Tokens(s)[k] = Calls(s)[k].tok
                                           /\ Calls(s)[k].tok # NoToken
           /\ Calls(s)[Len(Tokens(s)) + 1].tok = NoToken
  <1> DEFINE m == Len(s) + 1
             T == {k \in 1..m : Calls(s)[k].tok = NoToken}
             n == Min(T) - 1
  <1>1. Len(s) \in Nat /\ m \in Nat /\ m >= 1
    BY LenProperties
  <1>2. T # {}
    <2> SUFFICES ASSUME T = {} PROVE FALSE
      OBVIOUS
    <2> DEFINE S == {k \in 0..m : Pos(s, k) >= k + 1}
    <2>1. 0 \in S
      BY <1>1, CallsProperties DEF Pos
    <2>2. ASSUME NEW i \in 0..(m - 1), i \in S PROVE i + 1 \in S
      <3>1. i + 1 \in 1..m /\ (i + 1) - 1 = i /\ i + 1 \in 0..m /\ i \in Nat
        BY <1>1
      <3>2. Calls(s)[i + 1].tok # NoToken
        BY <3>1
      <3> DEFINE b == FirstOther(s, Pos(s, i))
                 e == NextSlash(s, b)
      <3>3. /\ Pos(s, i) \in 1..m /\ b \in Pos(s, i)..Len(s) /\ e \in (b + 1)..m
            /\ Pos(s, i + 1) = IF e <= Len(s) THEN e + 1 ELSE e
        BY <3>1, <3>2, CallFacts
      <3> HIDE DEF b, e
      <3>4. Pos(s, i) >= i + 1
        BY <2>2
      <3>5. Pos(s, i + 1) >= (i + 1) + 1
        BY <1>1, <3>1, <3>3, <3>4
      <3> QED
        BY <3>1, <3>5
    <2> HIDE DEF S
    <2>3. \A i \in 0..m : i \in S
      BY <1>1, <2>1, <2>2, UpTo
    <2>4. Pos(s, m) >= m + 1
      BY <1>1, <2>3 DEF S
    <2>5. Pos(s, m) \in 1..m
      BY <1>1, CallsProperties DEF Pos
    <2> QED
      BY <1>1, <2>4, <2>5
  <1>3. T \in SUBSET Nat
    BY <1>1
  <1>4. Min(T) \in T /\ \A y \in T : Min(T) <= y
    <2> HIDE DEF T
    <2> QED
      BY <1>2, <1>3, MinProperties
  <1>5. n \in 0..Len(s) /\ n + 1 = Min(T) /\ Calls(s)[n + 1].tok = NoToken
    BY <1>1, <1>4
  <1>6. Tokens(s) = [k \in 1..n |-> Calls(s)[k].tok]
    BY DEF Tokens
  <1>7. \A k \in 1..n : k \in 1..m /\ Calls(s)[k].tok # NoToken
    <2> SUFFICES ASSUME NEW k \in 1..n PROVE k \in 1..m /\ Calls(s)[k].tok # NoToken
      OBVIOUS
    <2>1. k \in 1..m /\ k < Min(T) /\ Min(T) \in Nat
      BY <1>1, <1>5
    <2>2. k \notin T
      <3> HIDE DEF T
      <3> QED
        BY <1>4, <2>1
    <2> QED
      BY <2>1, <2>2
  <1> HIDE DEF n
  <1>8. \A k \in 1..n : Calls(s)[k].tok \in Seq(C)
    BY <1>7, CallFacts
  <1>9. Tokens(s) \in [1..n -> Seq(C)] /\ n \in Nat
    BY <1>1, <1>5, <1>6, <1>8
  <1>10. Tokens(s) \in Seq(Seq(C)) /\ Len(Tokens(s)) = n
    BY <1>9, FunctionIsSeq
  <1> QED
    BY <1>1, <1>5, <1>6, <1>7, <1>10

\* Every level that is not empty is a token, but for a last one of a single character.
LEMMA LevelIsToken ==
    ASSUME NEW C, NEW s \in Seq(C), s # << >>, s[1] = "/", NEW a \in NonEmpty(s),
           Len(Level(s, a)) > 1 \/ \E m \in Slashes(s) : m > a
    PROVE  \E k \in 1..Len(Tokens(s)) : /\ Tokens(s)[k] = Level(s, a)
                                        /\ Pos(s, k - 1) <= a + 1 /\ a + 1 < Pos(s, k)
                                        /\ Pos(s, k) <= NextSlash(s, a + 1) + 1
  <1> DEFINE n == Len(Tokens(s))
             e == NextSlash(s, a + 1)
  <1>1. /\ Len(s) \in Nat /\ n \in 0..Len(s)
        /\ \A k \in 1..n : Tokens(s)[k] = Calls(s)[k].tok /\ Calls(s)[k].tok # NoToken
        /\ Calls(s)[n + 1].tok = NoToken
    BY TokensProperties
  <1>2. /\ a \in Slashes(s) /\ Level(s, a) # << >>
    BY DEF NonEmpty
  <1>3. /\ a \in 1..Len(s) /\ s[a] = "/" /\ e \in (a + 1)..(Len(s) + 1)
        /\ Level(s, a) \in Seq(C) /\ Len(Level(s, a)) = e - (a + 1)
        /\ \A i \in 1..(e - (a + 1)) : s[a + i] # "/"
    BY <1>2, LevelProperties
  <1>4. Len(Level(s, a)) # 0
    BY <1>2, <1>3, EmptySeq
  <1> HIDE DEF n, e
  <1>5. a + 1 < e /\ a + 1 \in 1..Len(s) /\ s[a + 1] # "/"
    <2>1. a + 1 < e /\ a + 1 \in 1..Len(s) /\ 1 \in 1..(e - (a + 1))
      BY <1>1, <1>3, <1>4
    <2> QED
      BY <1>3, <2>1
  <1>6. a + 1 < Len(s)
    <2>1. CASE Len(Level(s, a)) > 1
      BY <1>1, <1>3, <2>1
    <2>2. CASE \E m \in Slashes(s) : m > a
      <3>1. PICK m \in Slashes(s) : m > a
        BY <2>2
      <3>2. m \in 1..Len(s) /\ s[m] = "/"
        BY DEF Slashes
      <3> QED
        BY <1>1, <1>3, <1>5, <3>1, <3>2
    <2> QED
      BY <2>1, <2>2
  <1>7. a + 1 < Pos(s, n)
    <2>1. n + 1 \in 1..(Len(s) + 1) /\ (n + 1) - 1 = n
      BY <1>1
    <2>2. Pos(s, n) \in 1..(Len(s) + 1) /\ ~(Pos(s, n) < Len(s) /\ FirstOther(s, Pos(s, n)) <= Len(s))
      BY <1>1, <2>1, CallFacts
    <2>3. CASE Pos(s, n) >= Len(s)
      BY <1>1, <1>3, <1>6, <2>2, <2>3
    <2>4. CASE Pos(s, n) < Len(s) /\ a + 1 >= Pos(s, n)
      <3> DEFINE b == FirstOther(s, Pos(s, n))
      <3>1. b \in Pos(s, n)..(Len(s) + 1) /\ \A j \in Pos(s, n)..(b - 1) : s[j] = "/"
        BY <2>2, FirstOtherProperties
      <3>2. b > Len(s)
        BY <1>1, <2>2, <2>4, <3>1
      <3> HIDE DEF b
      <3>3. a + 1 \in Pos(s, n)..(b - 1)
        BY <1>1, <1>3, <1>5, <2>2, <2>4, <3>1, <3>2
      <3> QED
        BY <1>5, <3>1, <3>3
    <2> QED
      BY <1>1, <1>3, <2>2, <2>3, <2>4
  <1> DEFINE S == {k \in 0..n : Pos(s, k) > a + 1}
  <1>8. n \in S /\ S \in SUBSET Nat
    BY <1>1, <1>7
  <1>9. PICK k \in S : \A y \in S : k <= y
    <2> HIDE DEF S
    <2> QED
      BY <1>8, LeastNatural
  <1>10. k # 0
    <2>1. Pos(s, 0) = 1
      BY CallsProperties DEF Pos
    <2> QED
      BY <1>3, <2>1
  <1>11. k \in 1..n /\ k \in 1..(Len(s) + 1) /\ k - 1 \in 0..n /\ k - 1 \in 0..(Len(s) + 1)
    BY <1>1, <1>10
  <1>12. a + 1 < Pos(s, k)
    BY <1>3
  <1>13. Pos(s, k - 1) \in 1..(Len(s) + 1)
    BY <1>11, CallFacts
  <1>14. Pos(s, k - 1) <= a + 1
    <2>1. k - 1 \notin S
      <3> HIDE DEF S
      <3>1. k \in Nat /\ ~(k <= k - 1)
        BY <1>11
      <3> QED
        BY <1>9, <3>1
    <2> QED
      BY <1>3, <1>11, <1>13, <2>1
  <1> HIDE DEF S
  <1>15. Tokens(s)[k] = Calls(s)[k].tok /\ Calls(s)[k].tok # NoToken
    BY <1>1, <1>11
  <1>16. PICK x \in Slashes(s) : /\ Calls(s)[k].tok = Level(s, x) /\ x + 1 <= Len(s)
                                 /\ Pos(s, k - 1) <= x + 1 /\ x + 1 < Pos(s, k)
    BY <1>11, <1>15, TokenIsLevel
  <1> DEFINE b == FirstOther(s, Pos(s, k - 1))
             f == NextSlash(s, b)
  <1>17. /\ b \in Pos(s, k - 1)..Len(s) /\ f \in (b + 1)..(Len(s) + 1)
         /\ Pos(s, k) = IF f <= Len(s) THEN f + 1 ELSE f
         /\ Calls(s)[k].tok = SubSeq(s, b, f - 1)
    BY <1>11, <1>15, CallFacts
  <1>18. s[b] # "/" /\ \A j \in Pos(s, k - 1)..(b - 1) : s[j] = "/"
    <2> DEFINE p == Pos(s, k - 1)
    <2>1. p \in 1..(Len(s) + 1) /\ FirstOther(s, p) <= Len(s)
      BY <1>1, <1>13, <1>17
    <2> HIDE DEF p
    <2>2. s[FirstOther(s, p)] # "/" /\ \A j \in p..(FirstOther(s, p) - 1) : s[j] = "/"
      BY <2>1, FirstOtherProperties
    <2> QED
      BY <2>2 DEF p
  <1>19. \A j \in b..(f - 1) : s[j] # "/"
    <2>1. b \in 1..(Len(s) + 1)
      <3> DEFINE p == Pos(s, k - 1)
      <3>1. Len(s) \in Nat /\ p \in 1..(Len(s) + 1) /\ b \in p..Len(s)
        BY <1>1, <1>13, <1>17
      <3> HIDE DEF b, p
      <3> QED
        BY <3>1
    <2> HIDE DEF b
    <2> QED
      BY <2>1, NextSlashProperties
  <1> HIDE DEF b, f
  <1>20. b <= a + 1
    <2> SUFFICES ASSUME b > a + 1 PROVE FALSE
      BY <1>1, <1>3, <1>13, <1>17
    <2>1. a + 1 \in Pos(s, k - 1)..(b - 1)
      BY <1>1, <1>3, <1>13, <1>14, <1>17
    <2> QED
      BY <1>5, <1>18, <2>1
  <1>21. b = a + 1
    <2> SUFFICES ASSUME b <= a PROVE FALSE
      BY <1>1, <1>3, <1>13, <1>17, <1>20
    <2>1. CASE a <= f - 1
      BY <1>1, <1>3, <1>13, <1>17, <1>19, <2>1
    <2>2. CASE a > f - 1
      BY <1>1, <1>3, <1>12, <1>13, <1>17, <2>2
    <2> QED
      BY <1>1, <1>3, <1>17, <2>1, <2>2
  <1>22. Level(s, a) = SubSeq(s, b, f - 1)
    BY <1>21 DEF Level, f
  <1>23. Pos(s, k) <= f + 1 /\ f = NextSlash(s, a + 1)
    <2>1. Pos(s, k) <= f + 1
      BY <1>1, <1>13, <1>17
    <2> QED
      BY <1>21, <2>1 DEF f
  <1> QED
    BY <1>11, <1>12, <1>14, <1>15, <1>17, <1>22, <1>23 DEF n
----------------------------------------------------------------------------
(* Validation.                                                              *)

\* Every token is a level that is not empty, with all its characters in the text.
LEMMA TokenFacts ==
    ASSUME NEW C, NEW s \in Seq(C), s # << >>, s[1] = "/", NEW k \in 1..Len(Tokens(s))
    PROVE  \E a \in NonEmpty(s) :
              /\ Tokens(s)[k] = Level(s, a) /\ Len(Tokens(s)[k]) \in Nat \ {0}
              /\ \A i \in 1..Len(Tokens(s)[k]) : Tokens(s)[k][i] = s[a + i] /\ a + i \in 1..Len(s)
              /\ Pos(s, k - 1) <= a + 1 /\ a + 1 < Pos(s, k)
  <1>1. /\ Len(s) \in Nat /\ k \in 1..(Len(s) + 1)
        /\ Tokens(s)[k] = Calls(s)[k].tok /\ Calls(s)[k].tok # NoToken
    BY TokensProperties
  <1>2. PICK a \in Slashes(s) : /\ Calls(s)[k].tok = Level(s, a) /\ a + 1 <= Len(s)
                                /\ Pos(s, k - 1) <= a + 1 /\ a + 1 < Pos(s, k)
    BY <1>1, TokenIsLevel
  <1>3. a \in NonEmpty(s)
    BY <1>1, <1>2 DEF NonEmpty, NoToken
  <1> DEFINE e == NextSlash(s, a + 1)
  <1>4. /\ a \in 1..Len(s) /\ e \in (a + 1)..(Len(s) + 1)
        /\ Level(s, a) \in Seq(C) /\ Len(Level(s, a)) = e - (a + 1)
        /\ \A i \in 1..(e - (a + 1)) : Level(s, a)[i] = s[a + i] /\ a + i \in 1..Len(s)
    BY LevelProperties
  <1> HIDE DEF e
  <1>5. Len(Level(s, a)) # 0
    BY <1>3, <1>4, EmptySeq DEF NonEmpty
  <1>6. Len(Level(s, a)) \in Nat \ {0}
    BY <1>1, <1>4, <1>5
  <1> QED
    BY <1>1, <1>2, <1>3, <1>4, <1>6

\* A text with a level that is not empty has a token.
LEMMA SomeToken ==
    ASSUME NEW C, NEW s \in Seq(C), s # << >>, s[1] = "/", NonEmpty(s) # {}
    PROVE  Tokens(s) # << >> /\ Len(Tokens(s)) >= 1
  <1>1. PICK a \in NonEmpty(s) : TRUE
    OBVIOUS
  <1> DEFINE e == NextSlash(s, a + 1)
             b == FirstOther(s, 1)
  <1>2. a \in Slashes(s) /\ Level(s, a) # << >>
    BY DEF NonEmpty
  <1>3. /\ a \in 1..Len(s) /\ e \in (a + 1)..(Len(s) + 1) /\ Len(s) \in Nat
        /\ Level(s, a) \in Seq(C) /\ Len(Level(s, a)) = e - (a + 1)
        /\ \A i \in 1..(e - (a + 1)) : s[a + i] # "/"
    BY <1>2, LevelProperties, LenProperties
  <1> HIDE DEF e
  <1>4. Len(Level(s, a)) # 0
    BY <1>2, <1>3, EmptySeq
  <1>5. a + 1 < e /\ a + 1 \in 1..Len(s) /\ 1 < Len(s) /\ 1 \in 1..(e - (a + 1))
    BY <1>3, <1>4
  <1>6. s[a + 1] # "/"
    BY <1>3, <1>5
  <1>7. 1 \in 1..(Len(s) + 1) /\ 1 - 1 = 0
    BY <1>3
  <1>8. b \in 1..(Len(s) + 1) /\ \A j \in 1..(b - 1) : s[j] = "/"
    BY <1>7, FirstOtherProperties
  <1> HIDE DEF b
  <1>9. b <= Len(s)
    BY <1>3, <1>5, <1>6, <1>8
  <1>10. Pos(s, 0) = 1
    BY CallsProperties DEF Pos
  <1>11. Calls(s)[1].tok # NoToken
    <2>1. Calls(s)[1].tok # NoToken <=> Pos(s, 0) < Len(s) /\ FirstOther(s, Pos(s, 0)) <= Len(s)
      <3>1. Calls(s)[1].tok # NoToken <=>
               Pos(s, 1 - 1) < Len(s) /\ FirstOther(s, Pos(s, 1 - 1)) <= Len(s)
        BY <1>7, CallFacts
      <3> QED
        BY <1>7, <3>1
    <2> QED
      BY <1>5, <1>9, <1>10, <2>1 DEF b
  <1>12. Tokens(s) \in Seq(Seq(C)) /\ Len(Tokens(s)) \in Nat /\ Calls(s)[Len(Tokens(s)) + 1].tok = NoToken
    BY TokensProperties
  <1>13. Len(Tokens(s)) # 0
    BY <1>11, <1>12
  <1> QED
    BY <1>12, <1>13, EmptySeq

\* iotx_mc_check_topic on a text that fits into topicString.
LEMMA CheckShort ==
    ASSUME NEW C, NEW s \in Seq(C), Len(s) < TOPIC_MAXLEN, NEW type
    PROVE  check_topic(s, type) <=>
              /\ s # << >> /\ s[1] = "/" /\ Tokens(s) # << >>
              /\ (\A k \in 1..Len(Tokens(s)) : check_rule(Tokens(s)[k], type)) /\ HashLast(Tokens(s))
  <1> DEFINE T == {Len(s), TOPIC_MAXLEN - 1}
  <1>1. Len(s) \in Nat /\ TOPIC_MAXLEN \in Nat /\ Len(s) <= TOPIC_MAXLEN - 1
    BY LenProperties, TopicMaxLenAssumption
  <1>2. T \in SUBSET Nat /\ T # {} /\ Len(s) \in T /\ \A y \in T : Len(s) <= y
    BY <1>1
  <1>3. Min(T) = Len(s)
    <2> HIDE DEF T
    <2>1. Min(T) \in T /\ \A y \in T : Min(T) <= y
      BY <1>2, MinProperties
    <2>2. Min(T) \in Nat /\ Len(s) <= Min(T) /\ Min(T) <= Len(s)
      BY <1>1, <1>2, <2>1
    <2> QED
      BY <1>1, <2>2
  <1>4. SubSeq(s, 1, Min(T)) = s
    BY <1>3, SubSeqFull
  <1>5. Len(s) \in 1..TOPIC_MAXLEN <=> s # << >>
    <2>1. Len(s) = 0 <=> s = << >>
      BY EmptySeq
    <2> QED
      BY <1>1, <2>1
  <1> HIDE DEF T
  <1>6. check_topic(s, type) <=>
            /\ Len(s) \in 1..TOPIC_MAXLEN /\ s[1] = "/"
            /\ Tokens(s) # << >>
            /\ (\A k \in 1..Len(Tokens(s)) : check_rule(Tokens(s)[k], type)) /\ HashLast(Tokens(s))
    BY <1>4, Zenon DEF check_topic, T
  <1> QED
    BY <1>5, <1>6

\* A well-formed filter that fits is accepted.
LEMMA FilterAccepted ==
    ASSUME NEW C, NEW s \in Seq(C), Len(s) < TOPIC_MAXLEN, WellFormedFilter(s)
    PROVE  check_topic(s, "FILTER")
  <1> DEFINE n == Len(Tokens(s))
  <1>1. /\ s # << >> /\ s[1] = "/" /\ NonEmpty(s) # {}
        /\ \A i \in 1..Len(s) : s[i] \notin Unprintable
        /\ \A k \in Slashes(s) : /\ HasWildcard(Level(s, k)) => Len(Level(s, k)) = 1
                                 /\ Level(s, k) = <<"#">> => \A m \in Slashes(s) : m <= k
    BY DEF WellFormedFilter, Printable
  <1>2. Tokens(s) # << >>
    BY <1>1, SomeToken
  <1>3. n \in Nat /\ n <= Len(s) /\ Len(s) \in Nat
    BY TokensProperties
  <1>4. ASSUME NEW k \in 1..n PROVE check_rule(Tokens(s)[k], "FILTER")
    <2>1. PICK a \in NonEmpty(s) :
              /\ Tokens(s)[k] = Level(s, a)
              /\ \A i \in 1..Len(Tokens(s)[k]) : Tokens(s)[k][i] = s[a + i] /\ a + i \in 1..Len(s)
      BY <1>1, TokenFacts
    <2>2. a \in Slashes(s)
      BY DEF NonEmpty
    <2> SUFFICES ASSUME NEW i \in 1..Len(Tokens(s)[k])
                 PROVE  /\ Tokens(s)[k][i] \in Wildcards => Len(Tokens(s)[k]) = 1
                        /\ Tokens(s)[k][i] \notin Unprintable
      BY DEF check_rule
    <2>3. Tokens(s)[k][i] \notin Unprintable
      BY <1>1, <2>1
    <2>4. ASSUME Tokens(s)[k][i] \in Wildcards PROVE Len(Tokens(s)[k]) = 1
      <3>1. HasWildcard(Level(s, a))
        BY <2>1, <2>4 DEF HasWildcard
      <3> QED
        BY <1>1, <2>1, <2>2, <3>1
    <2> QED
      BY <2>3, <2>4
  <1>5. HashLast(Tokens(s))
    <2> SUFFICES ASSUME NEW k \in 2..(n - 1), Tokens(s)[k][1] = "#" PROVE FALSE
      BY DEF HashLast
    <2>1. k \in 1..n /\ k + 1 \in 1..n /\ (k + 1) - 1 = k /\ k \in 0..(Len(s) + 1) /\ k \in k..(Len(s) + 1)
      BY <1>3
    <2>2. PICK a \in NonEmpty(s) : /\ Tokens(s)[k] = Level(s, a) /\ Len(Tokens(s)[k]) \in Nat \ {0}
                                   /\ a + 1 < Pos(s, k)
      BY <1>1, <2>1, TokenFacts
    <2>3. PICK c \in NonEmpty(s) : Pos(s, k) <= c + 1
      <3>1. \E c \in NonEmpty(s) : Pos(s, (k + 1) - 1) <= c + 1
        BY <1>1, <2>1, TokenFacts
      <3> QED
        BY <2>1, <3>1
    <2>4. a \in Slashes(s) /\ c \in Slashes(s) /\ a \in Nat /\ c \in Nat /\ Pos(s, k) \in Nat
      <3>1. Pos(s, k) \in 1..(Len(s) + 1)
        BY <2>1, PosMonotone
      <3> QED
        BY <1>3, <3>1 DEF NonEmpty, Slashes
    <2>5. HasWildcard(Level(s, a))
      <3>1. 1 \in 1..Len(Level(s, a)) /\ Level(s, a)[1] \in Wildcards
        BY <2>2 DEF Wildcards
      <3> QED
        BY <3>1 DEF HasWildcard
    <2>6. Len(Level(s, a)) = 1
      BY <1>1, <2>4, <2>5
    <2>7. Level(s, a) = <<"#">>
      BY <2>2, <2>4, <2>6, LevelProperties
    <2>8. c <= a
      BY <1>1, <2>4, <2>7
    <2> QED
      BY <2>2, <2>3, <2>4, <2>8
  <1> QED
    BY <1>1, <1>2, <1>4, <1>5, CheckShort

\* A well-formed name that fits is accepted.
LEMMA NameAccepted ==
    ASSUME NEW C, NEW s \in Seq(C), Len(s) < TOPIC_MAXLEN, WellFormedName(s)
    PROVE  check_topic(s, "NAME")
  <1> DEFINE n == Len(Tokens(s))
  <1>1. /\ s # << >> /\ s[1] = "/" /\ NonEmpty(s) # {}
        /\ \A i \in 1..Len(s) : s[i] \notin Unprintable /\ s[i] \notin Wildcards
    BY DEF WellFormedName, Printable, HasWildcard
  <1>2. Tokens(s) # << >>
    BY <1>1, SomeToken
  <1>3. n \in Nat
    BY TokensProperties
  <1>4. ASSUME NEW k \in 1..n
        PROVE  /\ \A i \in 1..Len(Tokens(s)[k]) : Tokens(s)[k][i] \notin Unprintable \cup Wildcards
               /\ Len(Tokens(s)[k]) \in Nat \ {0}
    <2>1. PICK a \in NonEmpty(s) :
              /\ Len(Tokens(s)[k]) \in Nat \ {0}
              /\ \A i \in 1..Len(Tokens(s)[k]) : Tokens(s)[k][i] = s[a + i] /\ a + i \in 1..Len(s)
      BY <1>1, TokenFacts
    <2> QED
      BY <1>1, <2>1
  <1>5. \A k \in 1..n : check_rule(Tokens(s)[k], "NAME")
    BY <1>4 DEF check_rule
  <1>6. HashLast(Tokens(s))
    <2> SUFFICES ASSUME NEW k \in 2..(n - 1), Tokens(s)[k][1] = "#" PROVE FALSE
      BY DEF HashLast
    <2>1. k \in 1..n
      BY <1>3
    <2>2. 1 \in 1..Len(Tokens(s)[k])
      BY <1>4, <2>1
    <2> QED
      BY <1>4, <2>1, <2>2 DEF Wildcards
  <1> QED
    BY <1>1, <1>2, <1>5, <1>6, CheckShort

\* What is accepted obeys the rules in every level that infra_strtok returns.
LEMMA AcceptedObeys ==
    ASSUME NEW C, NEW s \in Seq(C), Len(s) < TOPIC_MAXLEN, check_topic(s, "FILTER"),
           NEW a \in NonEmpty(s), Len(Level(s, a)) > 1 \/ \E m \in Slashes(s) : m > a
    PROVE  /\ HasWildcard(Level(s, a)) => Len(Level(s, a)) = 1
           /\ Level(s, a) = <<"#">> /\ (\E m \in NonEmpty(s) : m < a) =>
                 \A m \in NonEmpty(s) :
                    (Len(Level(s, m)) > 1 \/ \E x \in Slashes(s) : x > m) => m <= a
  <1> DEFINE n == Len(Tokens(s))
             Returned(m) == Len(Level(s, m)) > 1 \/ \E x \in Slashes(s) : x > m
  <1>1. /\ s # << >> /\ s[1] = "/" /\ HashLast(Tokens(s))
        /\ \A k \in 1..n : check_rule(Tokens(s)[k], "FILTER")
    BY CheckShort
  <1>2. n \in Nat /\ n <= Len(s) /\ Len(s) \in Nat
    BY TokensProperties
  <1>3. \A m \in NonEmpty(s) : m \in Slashes(s) /\ m \in Nat
    BY <1>2 DEF NonEmpty, Slashes
  <1>4. ASSUME NEW m \in NonEmpty(s), Returned(m)
        PROVE  \E k \in 1..n : /\ Tokens(s)[k] = Level(s, m) /\ m + 1 < Pos(s, k)
                               /\ Pos(s, k) <= NextSlash(s, m + 1) + 1
    BY <1>1, <1>4, LevelIsToken
  <1>5. PICK k \in 1..n : /\ Tokens(s)[k] = Level(s, a) /\ a + 1 < Pos(s, k)
                          /\ Pos(s, k) <= NextSlash(s, a + 1) + 1
    BY <1>4
  <1>6. HasWildcard(Level(s, a)) => Len(Level(s, a)) = 1
    BY <1>1, <1>5 DEF check_rule, HasWildcard
  <1> HIDE DEF n, Returned
  <1>7. ASSUME NEW x \in Slashes(s), NEW y \in Slashes(s), x < y, NEW i \in 1..n, NEW j \in 1..n,
               Pos(s, i) <= NextSlash(s, x + 1) + 1, y + 1 < Pos(s, j)
        PROVE  i < j
    <2> SUFFICES ASSUME j <= i PROVE FALSE
      BY <1>2
    <2>1. x \in 1..Len(s) /\ y \in 1..Len(s) /\ s[y] = "/" /\ x + 1 \in 1..(Len(s) + 1)
      BY <1>2 DEF Slashes
    <2> DEFINE e == NextSlash(s, x + 1)
    <2>2. e \in (x + 1)..(Len(s) + 1) /\ \A q \in (x + 1)..(e - 1) : s[q] # "/"
      BY <2>1, NextSlashProperties
    <2>3. Pos(s, i) <= e + 1
      BY <1>7
    <2> HIDE DEF e
    <2>4. e <= y
      <3> SUFFICES ASSUME y < e PROVE FALSE
        BY <1>2, <2>1, <2>2
      <3>1. y \in (x + 1)..(e - 1)
        BY <1>2, <1>7, <2>1, <2>2
      <3> QED
        BY <2>1, <2>2, <3>1
    <2>5. j \in 0..(Len(s) + 1) /\ i \in j..(Len(s) + 1)
      BY <1>2
    <2>6. Pos(s, i) \in 1..(Len(s) + 1) /\ Pos(s, j) \in 1..(Len(s) + 1) /\ Pos(s, j) <= Pos(s, i)
      BY <2>5, PosMonotone
    <2> QED
      BY <1>2, <1>7, <2>1, <2>2, <2>3, <2>4, <2>6
  <1>8. ASSUME Level(s, a) = <<"#">>, NEW b \in NonEmpty(s), b < a,
               NEW m \in NonEmpty(s), Returned(m), m > a
        PROVE  FALSE
    <2>1. Returned(b)
      BY <1>3, <1>8 DEF Returned
    <2>2. PICK i \in 1..n : Pos(s, i) <= NextSlash(s, b + 1) + 1
      BY <1>4, <2>1
    <2>3. PICK j \in 1..n : m + 1 < Pos(s, j)
      BY <1>4, <1>8
    <2>4. i < k
      BY <1>3, <1>5, <1>7, <1>8, <2>2
    <2>5. k < j
      <3>1. a < m
        BY <1>3, <1>8
      <3> QED
        BY <1>3, <1>5, <1>7, <2>3, <3>1
    <2>6. k \in 2..(n - 1)
      BY <1>2, <2>4, <2>5
    <2>7. Tokens(s)[k][1] # "#"
      BY <1>1, <2>6 DEF HashLast, n
    <2> QED
      BY <1>5, <1>8, <2>7
  <1>9. ASSUME Level(s, a) = <<"#">>, NEW b \in NonEmpty(s), b < a, NEW m \in NonEmpty(s), Returned(m)
        PROVE  m <= a
    <2>1. m \in Nat /\ a \in Nat
      BY <1>3
    <2> QED
      BY <1>8, <1>9, <2>1
  <1> QED
    BY <1>6, <1>9 DEF Returned
----------------------------------------------------------------------------
(* The character loop of iotx_mc_is_topic_matched.                          *)

\* One turn of the loop.
LEMMA AdvanceProperties ==
    ASSUME NEW D, NEW n \in Seq(D), NEW j \in 1..Len(n), NEW c
    PROVE  /\ Advance(c, n, j) \in 0..(Len(n) + 1)
           /\ c \notin Wildcards => Advance(c, n, j) = IF c = n[j] THEN j + 1 ELSE 0
           /\ c = "+" => Advance(c, n, j) = IF n[j] = "/" THEN 0 ELSE NextSlash(n, j)
           /\ c = "#" => Advance(c, n, j) = IF n[j] = "/" THEN 0 ELSE Len(n) + 1
  <1>1. Len(n) \in Nat /\ j \in 1..(Len(n) + 1) /\ j + 1 \in 0..(Len(n) + 1) /\ Len(n) + 1 \in 0..(Len(n) + 1)
        /\ 0 \in 0..(Len(n) + 1)
    BY LenProperties
  <1>2. NextSlash(n, j) \in 0..(Len(n) + 1)
    <2>1. NextSlash(n, j) \in j..(Len(n) + 1)
      BY <1>1, NextSlashProperties
    <2> QED
      BY <1>1, <2>1
  <1>3. CASE c = "+"
    BY <1>1, <1>2, <1>3 DEF Advance, Wildcards
  <1>4. CASE c = "#"
    BY <1>1, <1>4 DEF Advance, Wildcards
  <1>5. CASE c \notin Wildcards
    BY <1>1, <1>5 DEF Advance, Wildcards
  <1> QED
    BY <1>3, <1>4, <1>5 DEF Wildcards

\* The recursion of curn defines a function: what follows is its value.
LEMMA CurnProperties ==
    ASSUME NEW C, NEW f \in Seq(C), NEW D, NEW n \in Seq(D)
    PROVE  /\ Len(f) \in Nat /\ Len(n) \in Nat
           /\ curn(f, n)[1] = 1
           /\ \A i \in 1..(Len(f) + 1) : curn(f, n)[i] \in 0..(Len(n) + 1)
           /\ \A i \in 1..Len(f) : curn(f, n)[i + 1] =
                 IF curn(f, n)[i] = 0 \/ curn(f, n)[i] > Len(n) THEN 0
                 ELSE Advance(f[i], n, curn(f, n)[i])
  <1> DEFINE m == Len(f)
             V == 0..(Len(n) + 1)
             Turn(i, x) == IF x = 0 \/ x > Len(n) THEN 0 ELSE Advance(f[i], n, x)
             F == [k \in Nat |-> [x \in V |-> Turn(k + 1, x)]]
  <1>1. m \in Nat /\ Len(n) \in Nat /\ 1 \in V /\ 0 \in V
    BY LenProperties
  <1>2. ASSUME NEW i, NEW x \in V PROVE Turn(i, x) \in V
    <2>1. CASE x = 0 \/ x > Len(n)
      BY <1>1, <2>1
    <2>2. CASE ~(x = 0 \/ x > Len(n))
      <3>1. x \in 1..Len(n)
        BY <1>1, <2>2
      <3>2. Advance(f[i], n, x) \in V
        BY <3>1, AdvanceProperties
      <3> QED
        BY <2>2, <3>2
    <2> QED
      BY <2>1, <2>2
  <1>3. F \in StepFunctions(V)
    <2> HIDE DEF V, Turn
    <2> QED
      BY <1>2 DEF StepFunctions
  <1> HIDE DEF m, V, Turn
  <1>4. PICK g : g \in [0..m -> V] /\ g[0] = 1 /\ \A i \in 1..m : g[i] = F[i - 1][g[i - 1]]
    <2> HIDE DEF F
    <2>1. \E g : Iterates(g, m, V, 1, F)
      BY <1>1, <1>3, Iteration, Zenon
    <2> QED
      BY <2>1 DEF Iterates
  <1>5. \A i \in 1..m : g[i] = Turn(i, g[i - 1])
    <2> SUFFICES ASSUME NEW i \in 1..m PROVE g[i] = Turn(i, g[i - 1])
      OBVIOUS
    <2>1. i - 1 \in Nat /\ i - 1 \in 0..m /\ g[i - 1] \in V /\ (i - 1) + 1 = i
      BY <1>1, <1>4
    <2>2. F[i - 1][g[i - 1]] = Turn((i - 1) + 1, g[i - 1])
      BY <2>1
    <2> QED
      BY <1>4, <2>1, <2>2
  <1> HIDE DEF F
  <1> DEFINE Body(h) == [i \in 1..(m + 1) |-> IF i = 1 THEN 1 ELSE Turn(i - 1, h[i - 1])]
             w == [i \in 1..(m + 1) |-> g[i - 1]]
  <1>6. w = Body(w)
    <2>1. ASSUME NEW i \in 1..(m + 1) PROVE g[i - 1] = IF i = 1 THEN 1 ELSE Turn(i - 1, w[i - 1])
      <3>1. CASE i = 1
        BY <1>4, <3>1
      <3>2. CASE i # 1
        <4>1. i - 1 \in 1..m /\ i - 1 \in 1..(m + 1) /\ w[i - 1] = g[(i - 1) - 1]
          BY <1>1, <3>2
        <4> QED
          BY <1>5, <3>2, <4>1
      <3> QED
        BY <3>1, <3>2
    <2> QED
      BY <2>1
  <1> HIDE DEF w
  <1> DEFINE c == curn(f, n)
  <1>7. c = CHOOSE h : h = Body(h)
    BY DEF curn, m, Turn
  <1>8. c = Body(c)
    BY <1>6, <1>7, Zenon
  <1> HIDE DEF c
  <1>9. \A i \in 1..(m + 1) : c[i] = IF i = 1 THEN 1 ELSE Turn(i - 1, c[i - 1])
    BY <1>8
  <1> HIDE DEF Body
  <1>10. c[1] = 1
    BY <1>1, <1>9
  <1>11. \A i \in 1..m : c[i + 1] = Turn(i, c[i])
    <2> SUFFICES ASSUME NEW i \in 1..m PROVE c[i + 1] = Turn(i, c[i])
      OBVIOUS
    <2>1. i + 1 \in 1..(m + 1) /\ i + 1 # 1 /\ (i + 1) - 1 = i
      BY <1>1
    <2> QED
      BY <1>9, <2>1
  <1>12. \A i \in 1..(m + 1) : c[i] \in V
    <2> DEFINE S == {i \in 0..m : c[i + 1] \in V}
    <2>1. 0 \in S
      BY <1>1, <1>10
    <2>2. ASSUME NEW i \in 0..(m - 1), i \in S PROVE i + 1 \in S
      <3>1. i + 1 \in 1..m /\ i + 1 \in 0..m /\ c[(i + 1) + 1] = Turn(i + 1, c[i + 1])
        BY <1>1, <1>11
      <3> QED
        BY <1>2, <2>2, <3>1
    <2> HIDE DEF S
    <2>3. \A i \in 0..m : i \in S
      BY <1>1, <2>1, <2>2, UpTo
    <2> SUFFICES ASSUME NEW i \in 1..(m + 1) PROVE c[i] \in V
      OBVIOUS
    <2>4. i - 1 \in 0..m /\ (i - 1) + 1 = i
      BY <1>1
    <2> QED
      BY <2>3, <2>4 DEF S
  <1> QED
    BY <1>1, <1>10, <1>11, <1>12 DEF c, m, V, Turn

\* After a break curn stays where it is.
LEMMA BreakStays ==
    ASSUME NEW C, NEW f \in Seq(C), NEW D, NEW n \in Seq(D),
           NEW i \in 1..(Len(f) + 1), curn(f, n)[i] = 0, NEW j \in i..(Len(f) + 1)
    PROVE  curn(f, n)[j] = 0
  <1> DEFINE m == Len(f)
             c == curn(f, n)
             S == {k \in 0..m : k + 1 >= i => c[k + 1] = 0}
  <1>1. m \in Nat /\ i \in Nat /\ j \in Nat /\ j - 1 \in 0..m
    BY LenProperties
  <1>2. \A k \in 1..m : c[k] = 0 => c[k + 1] = 0
    BY CurnProperties
  <1>3. c[i] = 0
    OBVIOUS
  <1> HIDE DEF c
  <1>4. 0 \in S
    BY <1>1, <1>3
  <1>5. ASSUME NEW k \in 0..(m - 1), k \in S PROVE k + 1 \in S
    <2>1. k + 1 \in 1..m /\ k + 1 \in 0..m
      BY <1>1
    <2> SUFFICES ASSUME (k + 1) + 1 >= i PROVE c[(k + 1) + 1] = 0
      BY <2>1
    <2>2. CASE k + 1 >= i
      BY <1>2, <1>5, <2>1, <2>2
    <2>3. CASE k + 1 < i
      <3>1. (k + 1) + 1 = i
        BY <1>1, <2>3
      <3> QED
        BY <1>3, <3>1
    <2> QED
      BY <1>1, <2>2, <2>3
  <1> HIDE DEF S, m
  <1>6. \A k \in 0..m : k \in S
    BY <1>1, <1>4, <1>5, UpTo
  <1>7. j - 1 \in S
    BY <1>1, <1>6
  <1> QED
    BY <1>1, <1>7 DEF S, c

\* A level without wildcards, character by character: curn runs along the level of the
\* name as long as the characters are the same, and not beyond its end.
LEMMA LiteralLevel ==
    ASSUME NEW C, NEW f \in Seq(C), NEW D, NEW n \in Seq(D),
           NEW a \in Slashes(f), NEW b \in Slashes(n), curn(f, n)[a + 1] = b + 1,
           ~HasWildcard(Level(f, a)), NEW t \in 0..(NextSlash(f, a + 1) - (a + 1))
    PROVE  curn(f, n)[a + 1 + t] =
              IF b + 1 + t <= NextSlash(n, b + 1) /\ \A i \in 1..t : f[a + i] = n[b + i]
                THEN b + 1 + t ELSE 0
  <1> DEFINE c == curn(f, n)
             e == NextSlash(f, a + 1)
             g == NextSlash(n, b + 1)
             L == e - (a + 1)
             Same(k) == b + 1 + k <= g /\ \A i \in 1..k : f[a + i] = n[b + i]
             S == {k \in 0..L : c[a + 1 + k] = IF Same(k) THEN b + 1 + k ELSE 0}
  <1>1. /\ Len(f) \in Nat /\ Len(n) \in Nat /\ a \in 1..Len(f) /\ b \in 1..Len(n)
        /\ e \in (a + 1)..(Len(f) + 1) /\ L \in Nat
        /\ \A k \in 1..L : f[a + k] # "/" /\ f[a + k] \notin Wildcards
    <2>1. /\ a \in 1..Len(f) /\ e \in (a + 1)..(Len(f) + 1) /\ Len(f) \in Nat /\ Len(n) \in Nat
          /\ Len(Level(f, a)) = L
          /\ \A k \in 1..L : Level(f, a)[k] = f[a + k] /\ f[a + k] # "/"
      BY LevelProperties, LenProperties
    <2>2. b \in 1..Len(n)
      BY DEF Slashes
    <2>3. \A k \in 1..L : f[a + k] \notin Wildcards
      BY <2>1 DEF HasWildcard
    <2>4. L \in Nat
      <3> HIDE DEF e
      <3> QED
        BY <2>1
    <2> HIDE DEF L
    <2> QED
      BY <2>1, <2>2, <2>3, <2>4
  <1>2. g \in (b + 1)..(Len(n) + 1) /\ (g <= Len(n) => n[g] = "/")
    <2>1. b + 1 \in 1..(Len(n) + 1)
      BY <1>1
    <2> QED
      BY <2>1, NextSlashProperties
  <1>3. \A i \in 1..Len(f) : c[i + 1] = IF c[i] = 0 \/ c[i] > Len(n) THEN 0 ELSE Advance(f[i], n, c[i])
    BY CurnProperties
  <1>4. c[a + 1] = b + 1
    OBVIOUS
  <1> HIDE DEF c, e, g
  <1>5. 0 \in S
    <2>1. Same(0) /\ a + 1 + 0 = a + 1 /\ b + 1 + 0 = b + 1 /\ 0 \in 0..L
      BY <1>1, <1>2
    <2> HIDE DEF Same, L
    <2> QED
      BY <1>4, <2>1
  <1>6. ASSUME NEW k \in 0..(L - 1), k \in S PROVE k + 1 \in S
    <2> DEFINE p == a + 1 + k
               x == b + 1 + k
    <2>1. /\ k \in Nat /\ k + 1 \in 1..L /\ k + 1 \in 0..L /\ p \in 1..Len(f) /\ p = a + (k + 1)
          /\ a + 1 + (k + 1) = p + 1 /\ b + 1 + (k + 1) = x + 1 /\ x = b + (k + 1)
          /\ x \in Nat /\ x # 0
      BY <1>1
    <2>2. c[p] = IF Same(k) THEN x ELSE 0
      BY <1>6
    <2>3. Same(k + 1) <=> x + 1 <= g /\ (\A i \in 1..k : f[a + i] = n[b + i]) /\ f[p] = n[x]
      <3>1. (\A i \in 1..(k + 1) : f[a + i] = n[b + i]) <=>
               (\A i \in 1..k : f[a + i] = n[b + i]) /\ f[a + (k + 1)] = n[b + (k + 1)]
        <4>1. \A i : i \in 1..(k + 1) <=> i \in 1..k \/ i = k + 1
          BY <2>1
        <4> QED
          BY <4>1
      <3> QED
        BY <2>1, <3>1
    <2>4. Same(k) <=> x <= g /\ (\A i \in 1..k : f[a + i] = n[b + i])
      OBVIOUS
    <2>5. f[p] \notin Wildcards /\ f[p] # "/"
      BY <1>1, <2>1
    <2>6. c[p + 1] = IF c[p] = 0 \/ c[p] > Len(n) THEN 0 ELSE Advance(f[p], n, c[p])
      BY <1>3, <2>1
    <2> HIDE DEF Same, p, x
    <2>7. c[p + 1] = IF Same(k + 1) THEN x + 1 ELSE 0
      <3>1. CASE ~Same(k)
        <4>1. ~Same(k + 1)
          BY <1>1, <1>2, <2>1, <2>3, <2>4, <3>1
        <4> QED
          BY <2>2, <2>6, <3>1, <4>1
      <3>2. CASE Same(k) /\ x > Len(n)
        <4>1. ~Same(k + 1)
          BY <1>1, <1>2, <2>1, <2>3, <3>2
        <4> QED
          BY <2>2, <2>6, <3>2, <4>1
      <3>3. CASE Same(k) /\ x <= Len(n)
        <4>1. x \in 1..Len(n) /\ ~(x > Len(n))
          BY <1>1, <2>1, <3>3
        <4>2. c[p + 1] = Advance(f[p], n, x)
          BY <2>1, <2>2, <2>6, <3>3, <4>1
        <4>3. Advance(f[p], n, x) = IF f[p] = n[x] THEN x + 1 ELSE 0
          BY <2>5, <4>1, AdvanceProperties
        <4>4. f[p] = n[x] => x # g
          BY <1>2, <2>5, <4>1
        <4>5. f[p] = n[x] => x + 1 <= g
          BY <1>1, <1>2, <2>1, <2>4, <3>3, <4>4
        <4>6. Same(k + 1) <=> f[p] = n[x]
          BY <2>3, <2>4, <3>3, <4>5
        <4> QED
          BY <4>2, <4>3, <4>6
      <3> QED
        BY <1>1, <2>1, <3>1, <3>2, <3>3
    <2>8. c[a + 1 + (k + 1)] = IF Same(k + 1) THEN b + 1 + (k + 1) ELSE 0
      BY <2>1, <2>7
    <2> QED
      BY <2>1, <2>8
  <1>7. L \in Nat
    BY <1>1
  <1> HIDE DEF S, L
  <1>8. \A k \in 0..L : k \in S
    BY <1>5, <1>6, <1>7, UpTo
  <1>9. t \in S
    BY <1>8 DEF L, e
  <1> QED
    BY <1>9 DEF S, c, g

\* A level: curn reaches the end of the level of the name exactly when the levels match.
LEMMA LevelStep ==
    ASSUME NEW C, NEW f \in Seq(C), NEW D, NEW n \in Seq(D),
           NEW a \in Slashes(f), NEW b \in Slashes(n), curn(f, n)[a + 1] = b + 1,
           HasWildcard(Level(f, a)) => Len(Level(f, a)) = 1
    PROVE  LET e == NextSlash(f, a + 1)
               g == NextSlash(n, b + 1)
               x == curn(f, n)[e]
           IN  /\ e \in (a + 1)..(Len(f) + 1) /\ g \in (b + 1)..(Len(n) + 1)
               /\ LevelMatches(Level(f, a), Level(n, b)) =>
                     x = IF Level(f, a) = <<"#">> THEN Len(n) + 1 ELSE g
               /\ ~LevelMatches(Level(f, a), Level(n, b)) => x = 0 \/ x \in (b + 1)..(g - 1)
  <1> DEFINE c == curn(f, n)
             e == NextSlash(f, a + 1)
             g == NextSlash(n, b + 1)
             fl == Level(f, a)
             nl == Level(n, b)
  <1>1. /\ Len(f) \in Nat /\ a \in 1..Len(f) /\ e \in (a + 1)..(Len(f) + 1)
        /\ fl \in Seq(C) /\ Len(fl) = e - (a + 1)
        /\ \A i \in 1..(e - (a + 1)) : fl[i] = f[a + i] /\ f[a + i] # "/"
    BY LevelProperties, LenProperties
  <1>2. /\ Len(n) \in Nat /\ b \in 1..Len(n) /\ g \in (b + 1)..(Len(n) + 1)
        /\ nl \in Seq(D) /\ Len(nl) = g - (b + 1)
        /\ \A i \in 1..(g - (b + 1)) : nl[i] = n[b + i] /\ n[b + i] # "/"
    BY LevelProperties, LenProperties
  <1>3. g <= Len(n) => n[g] = "/"
    <2>1. b + 1 \in 1..(Len(n) + 1)
      BY <1>2
    <2> QED
      BY <2>1, NextSlashProperties
  <1>4. CASE ~HasWildcard(fl)
    <2> DEFINE L == e - (a + 1)
    <2>1. L \in Nat /\ L \in 0..L /\ a + 1 + L = e
      <3> HIDE DEF e
      <3> QED
        BY <1>1
    <2>2. c[a + 1 + L] = IF b + 1 + L <= g /\ \A i \in 1..L : f[a + i] = n[b + i]
                           THEN b + 1 + L ELSE 0
      BY <1>4, <2>1, LiteralLevel
    <2>3. fl # <<"+">> /\ fl # <<"#">>
      <3>1. \A w \in Wildcards : Len(<<w>>) = 1 /\ <<w>>[1] = w
        OBVIOUS
      <3>2. \A w \in Wildcards : fl # <<w>>
        BY <1>4, <3>1 DEF HasWildcard
      <3> QED
        BY <3>2 DEF Wildcards
    <2>4. LevelMatches(fl, nl) <=> nl = fl
      BY <2>3 DEF LevelMatches
    <2> HIDE DEF c, e, g, fl, nl
    <2>5. nl = fl <=> g - (b + 1) = L /\ \A i \in 1..L : f[a + i] = n[b + i]
      <3>1. nl = fl <=> Len(nl) = Len(fl) /\ \A i \in 1..Len(fl) : nl[i] = fl[i]
        <4>1. ASSUME Len(nl) = Len(fl), \A i \in 1..Len(fl) : nl[i] = fl[i] PROVE nl = fl
          <5>1. nl \in Seq(C \cup D) /\ fl \in Seq(C \cup D)
            BY <1>1, <1>2
          <5> QED
            BY <4>1, <5>1, SeqEqual
        <4> QED
          BY <4>1
      <3> HIDE DEF L
      <3>2. g - (b + 1) = L => ((\A i \in 1..L : nl[i] = fl[i]) <=> (\A i \in 1..L : f[a + i] = n[b + i]))
        BY <1>1, <1>2 DEF L
      <3> QED
        BY <1>1, <1>2, <3>1, <3>2 DEF L
    <2>6. CASE nl = fl
      <3>1. b + 1 + L = g
        BY <1>2, <2>1, <2>5, <2>6
      <3>2. c[e] = g
        BY <1>2, <2>1, <2>2, <2>5, <2>6, <3>1
      <3> QED
        BY <1>1, <1>2, <2>3, <2>4, <2>6, <3>2 DEF c, e, g, fl, nl
    <2>7. CASE nl # fl
      <3>1. c[e] = 0 \/ c[e] \in (b + 1)..(g - 1)
        <4> SUFFICES ASSUME c[e] # 0 PROVE c[e] \in (b + 1)..(g - 1)
          OBVIOUS
        <4>1. b + 1 + L <= g /\ (\A i \in 1..L : f[a + i] = n[b + i]) /\ c[e] = b + 1 + L
          BY <2>1, <2>2
        <4>2. g - (b + 1) # L
          BY <2>5, <2>7, <4>1
        <4> HIDE DEF L
        <4> QED
          BY <1>2, <2>1, <4>1, <4>2
      <3> QED
        BY <1>1, <1>2, <2>4, <2>7, <3>1 DEF c, e, g, fl, nl
    <2> QED
      BY <2>6, <2>7
  <1>5. CASE HasWildcard(fl)
    <2>1. Len(fl) = 1
      BY <1>5
    <2> HIDE DEF e, g, fl, nl
    <2>2. fl[1] \in Wildcards /\ fl = <<fl[1]>>
      <3>1. PICK i \in 1..Len(fl) : fl[i] \in Wildcards
        BY <1>5 DEF HasWildcard
      <3>2. fl[1] \in Wildcards
        BY <2>1, <3>1
      <3>3. fl \in Seq(C)
        BY <1>1
      <3> QED
        BY <2>1, <3>2, <3>3
    <2>3. e = (a + 1) + 1 /\ a + 1 \in 1..Len(f) /\ f[a + 1] = fl[1]
      <3>1. e - (a + 1) = 1 /\ e \in Nat /\ a \in Nat
        <4>1. Len(f) \in Nat /\ a \in 1..Len(f) /\ e \in (a + 1)..(Len(f) + 1)
          BY <1>1
        <4>2. e \in Nat /\ a \in Nat
          BY <4>1
        <4>3. e - (a + 1) = Len(fl)
          BY <1>1, Zenon
        <4> QED
          BY <2>1, <4>2, <4>3
      <3>2. e = (a + 1) + 1 /\ a + 1 \in 1..Len(f)
        <4>1. Len(f) \in Nat /\ a \in 1..Len(f) /\ e \in (a + 1)..(Len(f) + 1)
          BY <1>1
        <4> QED
          BY <3>1, <4>1
      <3>3. \A i \in 1..1 : fl[i] = f[a + i]
        BY <1>1, <3>1
      <3> QED
        BY <3>2, <3>3
    <2>4. LevelMatches(fl, nl) <=> nl # << >>
      BY <2>2 DEF LevelMatches, Wildcards
    <2>5. c[e] = IF b + 1 > Len(n) THEN 0 ELSE Advance(f[a + 1], n, b + 1)
      <3>1. c[(a + 1) + 1] = IF c[a + 1] = 0 \/ c[a + 1] > Len(n) THEN 0
                             ELSE Advance(f[a + 1], n, c[a + 1])
        BY <2>3, CurnProperties
      <3> QED
        BY <1>2, <2>3, <3>1
    <2> HIDE DEF c
    <2>6. nl # << >> <=> b + 1 < g
      <3>1. nl = << >> <=> Len(nl) = 0
        BY <1>2, EmptySeq
      <3> QED
        BY <1>2, <3>1
    <2>7. CASE b + 1 < g
      <3>1. b + 1 \in 1..Len(n) /\ 1 \in 1..(g - (b + 1)) /\ ~(b + 1 > Len(n))
        BY <1>2, <2>7
      <3>2. n[b + 1] # "/"
        BY <1>2, <3>1
      <3>3. c[e] = Advance(fl[1], n, b + 1)
        BY <2>3, <2>5, <3>1
      <3>4. CASE fl[1] = "+"
        <4>1. c[e] = g
          BY <3>1, <3>2, <3>3, <3>4, AdvanceProperties DEF g
        <4>2. fl # <<"#">>
          BY <2>2, <3>4
        <4> QED
          BY <1>1, <1>2, <2>4, <2>6, <2>7, <4>1, <4>2 DEF c, e, g, fl, nl
      <3>5. CASE fl[1] = "#"
        <4>1. c[e] = Len(n) + 1
          BY <3>1, <3>2, <3>3, <3>5, AdvanceProperties
        <4>2. fl = <<"#">>
          BY <2>2, <3>5
        <4> QED
          BY <1>1, <1>2, <2>4, <2>6, <2>7, <4>1, <4>2 DEF c, e, g, fl, nl
      <3> QED
        BY <2>2, <3>4, <3>5 DEF Wildcards
    <2>8. CASE ~(b + 1 < g)
      <3>1. b + 1 = g
        BY <1>2, <2>8
      <3>2. c[e] = 0
        <4>1. CASE b + 1 > Len(n)
          BY <2>5, <4>1
        <4>2. CASE b + 1 <= Len(n)
          <5>1. b + 1 \in 1..Len(n) /\ n[b + 1] = "/" /\ ~(b + 1 > Len(n))
            BY <1>2, <1>3, <3>1, <4>2
          <5>2. Advance(fl[1], n, b + 1) = 0
            BY <2>2, <5>1, AdvanceProperties DEF Wildcards
          <5> QED
            BY <2>3, <2>5, <5>1, <5>2
        <4> QED
          BY <1>2, <4>1, <4>2
      <3> QED
        BY <1>1, <1>2, <2>4, <2>6, <2>8, <3>2 DEF c, e, g, fl, nl
    <2> QED
      BY <2>7, <2>8
  <1> QED
    BY <1>4, <1>5

\* The slashes in order: the first begins the text, and each level ends at the next one.
LEMMA SlashOrder ==
    ASSUME NEW C, NEW s \in Seq(C), s # << >>, s[1] = "/"
    PROVE  LET q == Cardinality(Slashes(s))
               ss == Ascending(Slashes(s))
           IN  /\ q \in 1..Len(s) /\ Len(s) \in Nat /\ ss[1] = 1
               /\ \A k \in 1..q : ss[k] \in Slashes(s) /\ ss[k] \in 1..Len(s)
               /\ \A k \in 1..(q - 1) : NextSlash(s, ss[k] + 1) = ss[k + 1] /\ ss[k] < ss[k + 1]
               /\ NextSlash(s, ss[q] + 1) = Len(s) + 1
  <1> DEFINE I == Slashes(s)
             q == Cardinality(I)
             ss == Ascending(I)
  <1>1. Len(s) \in Nat /\ I \in SUBSET (1..Len(s)) /\ 1 \in I
    <2>1. Len(s) \in Nat /\ Len(s) # 0
      BY LenProperties, EmptySeq
    <2> QED
      BY <2>1 DEF Slashes
  <1>2. \A k \in I : s[k] = "/"
    BY DEF Slashes
  <1>3. \A k \in 1..Len(s) : s[k] = "/" => k \in I
    BY DEF Slashes
  <1> HIDE DEF I
  <1>4. q \in 0..Len(s) /\ IsAscending(ss, q, I)
    BY <1>1, AscendingProperties
  <1> HIDE DEF q, ss
  <1>5. /\ \A k \in 1..q : ss[k] \in I /\ ss[k] \in 1..Len(s)
        /\ \A j, k \in 1..q : j < k => ss[j] < ss[k]
        /\ \A x \in I : \E k \in 1..q : ss[k] = x
    BY <1>1, <1>4 DEF IsAscending
  <1>6. q \in 1..Len(s) /\ ss[1] = 1
    <2>1. PICK k \in 1..q : ss[k] = 1
      BY <1>1, <1>5
    <2>2. q \in 1..Len(s) /\ 1 \in 1..q /\ k \in Nat /\ 1 <= k
      BY <1>1, <1>4
    <2>3. ss[1] \in 1..Len(s)
      BY <1>5, <2>2
    <2>4. CASE k = 1
      BY <2>1, <2>2, <2>4
    <2>5. CASE 1 < k
      <3>1. ss[1] < ss[k]
        BY <1>5, <2>2, <2>5
      <3> QED
        BY <1>1, <2>1, <2>3, <3>1
    <2> QED
      BY <2>2, <2>4, <2>5
  <1>7. ASSUME NEW k \in 1..q
        PROVE  LET e == NextSlash(s, ss[k] + 1) IN
               /\ e \in (ss[k] + 1)..(Len(s) + 1)
               /\ e <= Len(s) => \E x \in 1..q : x > k /\ ss[x] = e
               /\ \A x \in I : x > ss[k] => e <= x
    <2> DEFINE e == NextSlash(s, ss[k] + 1)
    <2>1. ss[k] \in 1..Len(s) /\ ss[k] + 1 \in 1..(Len(s) + 1)
      BY <1>1, <1>5
    <2>2. /\ e \in (ss[k] + 1)..(Len(s) + 1) /\ (e <= Len(s) => s[e] = "/")
          /\ \A j \in (ss[k] + 1)..(e - 1) : s[j] # "/"
      BY <2>1, NextSlashProperties
    <2> HIDE DEF e
    <2>3. ASSUME e <= Len(s) PROVE \E x \in 1..q : x > k /\ ss[x] = e
      <3>1. e \in 1..Len(s) /\ e > ss[k]
        BY <1>1, <2>1, <2>2, <2>3
      <3>2. PICK x \in 1..q : ss[x] = e
        BY <1>3, <1>5, <2>2, <2>3, <3>1
      <3>3. ~(x <= k)
        <4> SUFFICES ASSUME x <= k PROVE FALSE
          OBVIOUS
        <4>1. x < k \/ x = k
          BY <1>4
        <4>2. ss[x] < ss[k] \/ x = k
          BY <1>5, <4>1
        <4> QED
          BY <2>1, <3>1, <3>2, <4>2
      <3>4. x > k
        BY <1>4, <3>3
      <3> QED
        BY <3>2, <3>4
    <2>4. ASSUME NEW x \in I, x > ss[k] PROVE e <= x
      <3>1. x \in 1..Len(s) /\ s[x] = "/"
        BY <1>1, <1>2
      <3> SUFFICES ASSUME x < e PROVE FALSE
        BY <1>1, <2>1, <2>2, <3>1
      <3>2. x \in (ss[k] + 1)..(e - 1)
        BY <1>1, <2>1, <2>2, <2>4, <3>1
      <3> QED
        BY <2>2, <3>1, <3>2
    <2> QED
      BY <2>2, <2>3, <2>4 DEF e
  <1>8. ASSUME NEW k \in 1..(q - 1)
        PROVE  NextSlash(s, ss[k] + 1) = ss[k + 1] /\ ss[k] < ss[k + 1]
    <2> DEFINE e == NextSlash(s, ss[k] + 1)
    <2>1. k \in 1..q /\ k + 1 \in 1..q /\ k < k + 1
      BY <1>4
    <2>2. /\ ss[k] < ss[k + 1] /\ ss[k + 1] \in I /\ ss[k + 1] \in 1..Len(s) /\ ss[k] \in 1..Len(s)
      BY <1>5, <2>1
    <2>3. /\ e \in (ss[k] + 1)..(Len(s) + 1)
          /\ e <= Len(s) => \E x \in 1..q : x > k /\ ss[x] = e
          /\ \A x \in I : x > ss[k] => e <= x
      BY <1>7, <2>1
    <2> HIDE DEF e
    <2>4. e <= ss[k + 1] /\ e <= Len(s)
      <3>1. e <= ss[k + 1]
        BY <1>1, <2>2, <2>3
      <3> QED
        BY <1>1, <2>2, <2>3, <3>1
    <2>5. PICK x \in 1..q : x > k /\ ss[x] = e
      BY <2>3, <2>4
    <2>6. CASE x = k + 1
      BY <2>2, <2>5, <2>6 DEF e
    <2>7. CASE x > k + 1
      <3>1. ss[k + 1] < ss[x]
        BY <1>5, <2>1, <2>7
      <3> QED
        BY <1>1, <2>2, <2>3, <2>4, <2>5, <3>1
    <2> QED
      BY <1>4, <2>1, <2>5, <2>6, <2>7
  <1>9. NextSlash(s, ss[q] + 1) = Len(s) + 1
    <2> DEFINE e == NextSlash(s, ss[q] + 1)
    <2>1. q \in 1..q
      BY <1>6
    <2>2. /\ e \in (ss[q] + 1)..(Len(s) + 1) /\ ss[q] \in 1..Len(s)
          /\ e <= Len(s) => \E x \in 1..q : x > q /\ ss[x] = e
      BY <1>5, <1>7, <2>1
    <2> HIDE DEF e
    <2>3. ~(e <= Len(s))
      BY <1>4, <2>2
    <2>4. e = Len(s) + 1
      BY <1>1, <2>2, <2>3
    <2> QED
      BY <2>4 DEF e
  <1> QED
    BY <1>1, <1>5, <1>6, <1>8, <1>9 DEF I, q, ss

\* The levels of f and of n before the k-th match.
MatchedBefore(f, n, k) ==
    \A i \in 1..(k - 1) : LevelMatches(Level(f, Ascending(Slashes(f))[i]), Level(n, Ascending(Slashes(n))[i]))

\* Level by level: curn is at the k-th level of the name when curf is at the k-th level
\* of the filter and the levels before it match, and 0 otherwise.
LEMMA LevelByLevel ==
    ASSUME NEW C, NEW f \in Seq(C), NEW D, NEW n \in Seq(D), WellFormedFilter(f),
           n # << >>, n[1] = "/", NEW k \in 1..Cardinality(Slashes(f))
    PROVE  curn(f, n)[Ascending(Slashes(f))[k] + 1] =
              IF k <= Cardinality(Slashes(n)) /\ MatchedBefore(f, n, k)
                THEN Ascending(Slashes(n))[k] + 1 ELSE 0
  <1> DEFINE c == curn(f, n)
             p == Cardinality(Slashes(f))
             q == Cardinality(Slashes(n))
             fs == Ascending(Slashes(f))
             ns == Ascending(Slashes(n))
             Reached(i) == i <= q /\ MatchedBefore(f, n, i)
             Good(i) == c[fs[i] + 1] = IF Reached(i) THEN ns[i] + 1 ELSE 0
             S == {i \in 0..(p - 1) : Good(i + 1)}
  <1>1. /\ f # << >> /\ f[1] = "/"
        /\ \A a \in Slashes(f) : /\ HasWildcard(Level(f, a)) => Len(Level(f, a)) = 1
                                 /\ Level(f, a) = <<"#">> => \A m \in Slashes(f) : m <= a
    BY DEF WellFormedFilter
  <1>2. /\ p \in 1..Len(f) /\ Len(f) \in Nat /\ fs[1] = 1
        /\ \A i \in 1..p : fs[i] \in Slashes(f) /\ fs[i] \in 1..Len(f)
        /\ \A i \in 1..(p - 1) : NextSlash(f, fs[i] + 1) = fs[i + 1] /\ fs[i] < fs[i + 1]
    BY <1>1, SlashOrder
  <1>3. /\ q \in 1..Len(n) /\ Len(n) \in Nat /\ ns[1] = 1
        /\ \A i \in 1..q : ns[i] \in Slashes(n) /\ ns[i] \in 1..Len(n)
        /\ \A i \in 1..(q - 1) : NextSlash(n, ns[i] + 1) = ns[i + 1] /\ ns[i] < ns[i + 1]
        /\ NextSlash(n, ns[q] + 1) = Len(n) + 1
    BY SlashOrder
  <1>4. /\ c[1] = 1
        /\ \A i \in 1..Len(f) : c[i + 1] = IF c[i] = 0 \/ c[i] > Len(n) THEN 0 ELSE Advance(f[i], n, c[i])
    BY CurnProperties
  <1>5. \A i \in Slashes(f) : f[i] = "/"
    BY DEF Slashes
  <1>6. \A x \in 1..Len(n) : Advance("/", n, x) = IF n[x] = "/" THEN x + 1 ELSE 0
    <2>1. "/" \notin Wildcards
      BY DEF Wildcards
    <2> QED
      BY <2>1, AdvanceProperties
  <1>7. \A i \in Nat \ {0} : MatchedBefore(f, n, i + 1) <=>
            MatchedBefore(f, n, i) /\ LevelMatches(Level(f, fs[i]), Level(n, ns[i]))
    <2> SUFFICES ASSUME NEW i \in Nat \ {0}
                 PROVE  MatchedBefore(f, n, i + 1) <=>
                           MatchedBefore(f, n, i) /\ LevelMatches(Level(f, fs[i]), Level(n, ns[i]))
      OBVIOUS
    <2>1. \A x : x \in 1..((i + 1) - 1) <=> x \in 1..(i - 1) \/ x = i
      OBVIOUS
    <2> QED
      BY <2>1 DEF MatchedBefore
  <1>8. Good(1)
    <2>1. MatchedBefore(f, n, 1) /\ 1 <= q
      BY <1>3 DEF MatchedBefore
    <2>2. 1 \in 1..Len(f) /\ 1 \in 1..Len(n) /\ ~(1 > Len(n))
      BY <1>2, <1>3
    <2>3. c[1 + 1] = Advance(f[1], n, 1)
      BY <1>4, <2>2
    <2>4. c[1 + 1] = 1 + 1
      BY <1>1, <1>6, <2>2, <2>3
    <2> HIDE DEF c, fs, ns, q
    <2> QED
      BY <1>2, <1>3, <2>1, <2>4
  <1> HIDE DEF c, p, q, fs, ns
  <1>9. ASSUME NEW i \in 1..(p - 1), Good(i) PROVE Good(i + 1)
    <2> DEFINE a == fs[i]
               e == fs[i + 1]
    <2>1. /\ i \in Nat \ {0} /\ i \in 1..p /\ i + 1 \in 1..p
          /\ a \in Slashes(f) /\ e \in Slashes(f) /\ a \in 1..Len(f) /\ e \in 1..Len(f) /\ a < e
          /\ NextSlash(f, a + 1) = e /\ f[e] = "/"
      <3>1. i \in Nat \ {0} /\ i \in 1..p /\ i + 1 \in 1..p
        BY <1>2
      <3> QED
        BY <1>2, <1>5, <3>1
    <2>2. c[e + 1] = IF c[e] = 0 \/ c[e] > Len(n) THEN 0 ELSE Advance("/", n, c[e])
      BY <1>4, <2>1
    <2>3. Reached(i + 1) <=> i + 1 <= q /\ MatchedBefore(f, n, i)
                             /\ LevelMatches(Level(f, a), Level(n, ns[i]))
      BY <1>7, <2>1
    <2>4. Reached(i + 1) => Reached(i)
      BY <1>3, <2>1, <2>3
    <2>5. CASE ~Reached(i)
      <3>1. c[a + 1] = 0
        BY <1>9, <2>5
      <3>2. a + 1 \in 1..(Len(f) + 1) /\ e + 1 \in (a + 1)..(Len(f) + 1)
        <4> HIDE DEF a, e
        <4>1. Len(f) \in Nat /\ a \in 1..Len(f) /\ e \in 1..Len(f) /\ a < e
          BY <1>2, <2>1
        <4> QED
          BY <4>1
      <3>3. c[e + 1] = 0
        <4> HIDE DEF a, e
        <4> QED
          BY <3>1, <3>2, BreakStays DEF c
      <3> QED
        BY <2>4, <2>5, <3>3
    <2>6. CASE Reached(i)
      <3> DEFINE b == ns[i]
                 g == NextSlash(n, b + 1)
      <3>1. c[a + 1] = b + 1
        BY <1>9, <2>6
      <3>2. i \in 1..q /\ b \in Slashes(n) /\ b \in 1..Len(n) /\ MatchedBefore(f, n, i)
        BY <1>3, <2>1, <2>6
      <3>3. HasWildcard(Level(f, a)) => Len(Level(f, a)) = 1
        BY <1>1, <2>1
      <3>4. Level(f, a) # <<"#">>
        <4> SUFFICES ASSUME Level(f, a) = <<"#">> PROVE FALSE
          OBVIOUS
        <4>1. e <= a
          BY <1>1, <2>1
        <4> QED
          BY <1>2, <2>1, <4>1
      <3> HIDE DEF a, e, b
      <3>5. /\ g \in (b + 1)..(Len(n) + 1)
            /\ LevelMatches(Level(f, a), Level(n, b)) => c[e] = g
            /\ ~LevelMatches(Level(f, a), Level(n, b)) => c[e] = 0 \/ c[e] \in (b + 1)..(g - 1)
        <4>1. LET e1 == NextSlash(f, a + 1)
                  x == curn(f, n)[e1]
              IN  /\ g \in (b + 1)..(Len(n) + 1)
                  /\ LevelMatches(Level(f, a), Level(n, b)) =>
                        x = IF Level(f, a) = <<"#">> THEN Len(n) + 1 ELSE g
                  /\ ~LevelMatches(Level(f, a), Level(n, b)) => x = 0 \/ x \in (b + 1)..(g - 1)
          <5>1. a \in Slashes(f) /\ b \in Slashes(n) /\ curn(f, n)[a + 1] = b + 1
            BY <2>1, <3>1, <3>2 DEF c
          <5> QED
            BY <3>3, <5>1, LevelStep
        <4> QED
          BY <2>1, <3>4, <4>1 DEF c
      <3>6. i = q => g = Len(n) + 1
        BY <1>3 DEF b
      <3>7. i < q => g = ns[i + 1] /\ g \in Slashes(n) /\ g \in 1..Len(n)
        <4> SUFFICES ASSUME i < q PROVE g = ns[i + 1] /\ g \in Slashes(n) /\ g \in 1..Len(n)
          OBVIOUS
        <4>1. i \in 1..(q - 1) /\ i + 1 \in 1..q
          BY <1>3, <2>1
        <4> QED
          BY <1>3, <4>1 DEF b
      <3>8. \A x \in (b + 1)..(g - 1) : n[x] # "/" /\ x \in 1..Len(n)
        <4>1. b + 1 \in 1..(Len(n) + 1)
          BY <1>3, <3>2
        <4>2. \A x \in (b + 1)..(g - 1) : n[x] # "/"
          BY <4>1, NextSlashProperties
        <4> HIDE DEF g
        <4>3. Len(n) \in Nat /\ b \in 1..Len(n) /\ g \in (b + 1)..(Len(n) + 1)
          BY <1>3, <3>2, <3>5
        <4>4. \A x \in (b + 1)..(g - 1) : x \in 1..Len(n)
          BY <4>3
        <4> QED
          BY <4>2, <4>4
      <3> HIDE DEF g
      <3>9. CASE ~LevelMatches(Level(f, a), Level(n, b))
        <4>1. ~Reached(i + 1)
          BY <2>3, <3>9 DEF b
        <4>2. c[e + 1] = 0
          <5>1. CASE c[e] = 0
            BY <2>2, <5>1
          <5>2. CASE c[e] \in (b + 1)..(g - 1)
            <6>1. n[c[e]] # "/" /\ c[e] \in 1..Len(n)
              BY <3>8, <5>2
            <6>2. Advance("/", n, c[e]) = 0
              BY <1>6, <6>1
            <6> QED
              BY <2>2, <6>2
          <5> QED
            BY <3>5, <3>9, <5>1, <5>2
        <4> QED
          BY <4>1, <4>2 DEF e
      <3>10. CASE LevelMatches(Level(f, a), Level(n, b)) /\ i = q
        <4>1. ~Reached(i + 1)
          BY <1>3, <2>3, <3>10
        <4>2. c[e] = Len(n) + 1 /\ Len(n) + 1 > Len(n)
          BY <1>3, <3>5, <3>6, <3>10
        <4>3. c[e + 1] = 0
          BY <2>2, <4>2
        <4> QED
          BY <4>1, <4>3 DEF e
      <3>11. CASE LevelMatches(Level(f, a), Level(n, b)) /\ i < q
        <4>1. Reached(i + 1)
          BY <1>3, <2>1, <2>3, <3>2, <3>11 DEF b
        <4>2. c[e] = g /\ g = ns[i + 1] /\ g \in 1..Len(n) /\ n[g] = "/"
          <5>1. g \in Slashes(n) => n[g] = "/"
            BY DEF Slashes
          <5> QED
            BY <3>5, <3>7, <3>11, <5>1
        <4>3. ~(g = 0 \/ g > Len(n))
          BY <1>3, <4>2
        <4>4. c[e + 1] = g + 1
          BY <1>6, <2>2, <4>2, <4>3
        <4>5. c[fs[i + 1] + 1] = ns[i + 1] + 1
          BY <4>2, <4>4 DEF e
        <4> QED
          BY <4>1, <4>5
      <3> QED
        BY <1>3, <3>2, <3>9, <3>10, <3>11
    <2> QED
      BY <2>5, <2>6
  <1> HIDE DEF Good
  <1>10. p - 1 \in Nat /\ 0 \in S
    BY <1>2, <1>8
  <1>11. ASSUME NEW i \in 0..((p - 1) - 1), i \in S PROVE i + 1 \in S
    <2>1. i + 1 \in 1..(p - 1) /\ i + 1 \in 0..(p - 1)
      BY <1>2
    <2> QED
      BY <1>9, <1>11, <2>1
  <1> HIDE DEF S
  <1>12. \A i \in 0..(p - 1) : i \in S
    <2> DEFINE l == p - 1
    <2>1. l \in Nat
      BY <1>10
    <2> HIDE DEF l
    <2>2. 0 \in S /\ \A i \in 0..(l - 1) : i \in S => i + 1 \in S
      BY <1>10, <1>11 DEF l
    <2>3. \A i \in 0..l : i \in S
      BY <2>1, <2>2, UpTo
    <2> QED
      BY <2>3 DEF l
  <1>13. k - 1 \in 0..(p - 1) /\ (k - 1) + 1 = k
    BY <1>2 DEF p
  <1>14. Good(k)
    BY <1>12, <1>13 DEF S
  <1> QED
    BY <1>14 DEF Good, c, q, fs, ns

\* The loop decides what the definition by levels says.
LEMMA MatchingByLevels ==
    ASSUME NEW C, NEW f \in Seq(C), NEW D, NEW n \in Seq(D), WellFormedFilter(f),
           n # << >>, n[1] = "/"
    PROVE  is_topic_matched(f, n) <=> Covers(f, n)
  <1> DEFINE c == curn(f, n)
             p == Cardinality(Slashes(f))
             q == Cardinality(Slashes(n))
             fs == Ascending(Slashes(f))
             ns == Ascending(Slashes(n))
             a == fs[p]
             b == ns[p]
             LastMatch == LevelMatches(Level(f, a), Level(n, b))
             g == NextSlash(n, b + 1)
  <1>1. /\ f # << >> /\ f[1] = "/"
        /\ \A x \in Slashes(f) : HasWildcard(Level(f, x)) => Len(Level(f, x)) = 1
    BY DEF WellFormedFilter
  <1>2. /\ p \in 1..Len(f) /\ Len(f) \in Nat /\ p \in 1..p
        /\ a \in Slashes(f) /\ a \in 1..Len(f)
        /\ NextSlash(f, a + 1) = Len(f) + 1
    BY <1>1, SlashOrder
  <1>3. /\ q \in 1..Len(n) /\ Len(n) \in Nat
        /\ \A i \in 1..q : ns[i] \in Slashes(n) /\ ns[i] \in 1..Len(n)
        /\ \A i \in 1..(q - 1) : NextSlash(n, ns[i] + 1) = ns[i + 1]
        /\ NextSlash(n, ns[q] + 1) = Len(n) + 1
    BY SlashOrder
  <1>4. c[a + 1] = IF p <= q /\ MatchedBefore(f, n, p) THEN b + 1 ELSE 0
    BY <1>2, LevelByLevel
  <1>5. is_topic_matched(f, n) <=> c[Len(f) + 1] = Len(n) + 1
    BY DEF is_topic_matched
  <1>6. Covers(f, n) <=> /\ IF Level(f, a) = <<"#">> THEN q >= p ELSE q = p
                         /\ MatchedBefore(f, n, p) /\ LastMatch
    <2>1. Covers(f, n) <=> /\ IF Level(f, a) = <<"#">> THEN q >= p ELSE q = p
                           /\ \A k \in 1..p : LevelMatches(Level(f, fs[k]), Level(n, ns[k]))
      BY DEF Covers
    <2>2. \A x : x \in 1..p <=> x \in 1..(p - 1) \/ x = p
      <3> HIDE DEF p
      <3> QED
        BY <1>2
    <2>3. (\A k \in 1..p : LevelMatches(Level(f, fs[k]), Level(n, ns[k]))) <=> MatchedBefore(f, n, p) /\ LastMatch
      <3> HIDE DEF p
      <3> QED
        BY <2>2 DEF MatchedBefore
    <2> HIDE DEF p, q, fs, ns, a, b, LastMatch
    <2> QED
      BY <2>1, <2>3
  <1> HIDE DEF c, p, q, fs, ns, a, b, LastMatch
  <1>7. CASE ~(p <= q /\ MatchedBefore(f, n, p))
    <2>1. c[a + 1] = 0 /\ a + 1 \in 1..(Len(f) + 1) /\ Len(f) + 1 \in (a + 1)..(Len(f) + 1)
      BY <1>2, <1>4, <1>7
    <2>2. c[Len(f) + 1] = 0
      BY <2>1, BreakStays DEF c
    <2>3. ~Covers(f, n)
      BY <1>2, <1>3, <1>6, <1>7
    <2> QED
      BY <1>3, <1>5, <2>2, <2>3
  <1>8. CASE p <= q /\ MatchedBefore(f, n, p)
    <2>1. p \in 1..q /\ c[a + 1] = b + 1
      BY <1>2, <1>3, <1>4, <1>8
    <2>2. b \in Slashes(n) /\ b \in 1..Len(n)
      BY <1>3, <2>1 DEF b
    <2> DEFINE x == c[Len(f) + 1]
    <2>3. /\ g \in (b + 1)..(Len(n) + 1)
          /\ LastMatch => x = IF Level(f, a) = <<"#">> THEN Len(n) + 1 ELSE g
          /\ ~LastMatch => x = 0 \/ x \in (b + 1)..(g - 1)
      <3>1. LET e1 == NextSlash(f, a + 1)
                y == curn(f, n)[e1]
            IN  /\ g \in (b + 1)..(Len(n) + 1)
                /\ LevelMatches(Level(f, a), Level(n, b)) =>
                      y = IF Level(f, a) = <<"#">> THEN Len(n) + 1 ELSE g
                /\ ~LevelMatches(Level(f, a), Level(n, b)) => y = 0 \/ y \in (b + 1)..(g - 1)
        <4>1. /\ a \in Slashes(f) /\ b \in Slashes(n) /\ curn(f, n)[a + 1] = b + 1
              /\ HasWildcard(Level(f, a)) => Len(Level(f, a)) = 1
          BY <1>1, <1>2, <2>1, <2>2 DEF c
        <4> QED
          BY <4>1, LevelStep
      <3> QED
        BY <1>2, <3>1 DEF c, LastMatch
    <2>4. g = Len(n) + 1 <=> p = q
      <3>1. CASE p = q
        BY <1>3, <3>1 DEF b
      <3>2. CASE p # q
        <4>1. p \in 1..(q - 1) /\ p + 1 \in 1..q
          BY <1>2, <1>3, <2>1, <3>2
        <4>2. g = ns[p + 1] /\ ns[p + 1] \in 1..Len(n)
          BY <1>3, <4>1 DEF b
        <4> QED
          BY <1>3, <3>2, <4>2
      <3> QED
        BY <3>1, <3>2
    <2> HIDE DEF x, g
    <2>5. CASE ~LastMatch
      <3>1. x # Len(n) + 1
        BY <1>3, <2>2, <2>3, <2>5
      <3> QED
        BY <1>5, <1>6, <2>5, <3>1 DEF x
    <2>6. CASE LastMatch /\ Level(f, a) = <<"#">>
      <3>1. q >= p
        BY <1>2, <1>3, <1>8
      <3> QED
        BY <1>5, <1>6, <1>8, <2>3, <2>6, <3>1 DEF x
    <2>7. CASE LastMatch /\ Level(f, a) # <<"#">>
      <3>1. x = Len(n) + 1 <=> q = p
        BY <2>3, <2>4, <2>7
      <3> QED
        BY <1>5, <1>6, <1>8, <2>7, <3>1 DEF x
    <2> QED
      BY <2>5, <2>6, <2>7
  <1> QED
    BY <1>7, <1>8

----------------------------------------------------------------------------
(* The invariants of MCMqttTopic.                                           *)

\* What is typed is a text.
Texts == filter \in Seq(FilterChars) /\ name \in Seq(NameChars)

LEMMA TextsInvariant == Spec => []Texts
  <1>1. Init => Texts
    BY EmptySeq DEF Init, Texts
  <1>2. Texts /\ [Next]_vars => Texts'
    <2> SUFFICES ASSUME Texts, [Next]_vars PROVE Texts'
      OBVIOUS
    <2>1. CASE TypeFilter
      BY <2>1, AppendProperties DEF Texts, TypeFilter
    <2>2. CASE TypeName
      BY <2>2, AppendProperties DEF Texts, TypeName
    <2>3. CASE Clear
      BY <2>3, EmptySeq DEF Texts, Clear
    <2>4. CASE UNCHANGED vars
      BY <2>4 DEF Texts, vars
    <2> QED
      BY <2>1, <2>2, <2>3, <2>4 DEF Next
  <1> QED
    BY <1>1, <1>2, PTL DEF Spec

\* For filters and names of every length and over every alphabet, the character loop of
\* iotx_mc_is_topic_matched gives a well-formed filter and a well-formed name the
\* verdict of the definition by levels.
THEOREM MatchAgreesTheorem == Spec => []MatchAgreesWithLevels
  <1>1. Texts => MatchAgreesWithLevels
    <2> SUFFICES ASSUME Texts, WellFormedFilter(filter), WellFormedName(name)
                 PROVE  is_topic_matched(filter, name) <=> Covers(filter, name)
      BY DEF MatchAgreesWithLevels
    <2>1. name # << >> /\ name[1] = "/"
      BY DEF WellFormedName
    <2> QED
      BY <2>1, MatchingByLevels DEF Texts
  <1> QED
    BY <1>1, TextsInvariant, PTL

\* iotx_mc_check_topic accepts every well-formed filter and every well-formed name that is
\* shorter than CONFIG_MQTT_TOPIC_MAXLEN.
THEOREM AcceptedTheorem == Spec => []WellFormedAccepted
  <1>1. Texts => WellFormedAccepted
    BY FilterAccepted, NameAccepted DEF Texts, WellFormedAccepted
  <1> QED
    BY <1>1, TextsInvariant, PTL

\* A filter that iotx_mc_check_topic accepts obeys the rules in every level that
\* infra_strtok returns, and a '#' that is not the first of them is the last.
THEOREM CheckedTheorem == Spec => []AcceptedIsChecked
  <1>1. Texts => AcceptedIsChecked
    BY AcceptedObeys DEF Texts, AcceptedIsChecked
  <1> QED
    BY <1>1, TextsInvariant, PTL
=============================================================================
