------------------------------ MODULE Lists_proofs ------------------------------
(***************************************************************************)
(* Loops over the elements of a list: a function defined by what each turn *)
(* makes of the result of the turn before exists, and keeps what every     *)
(* turn keeps.  Both are stated over sets, with no operator for parameter, *)
(* and proved by a least counterexample.                                   *)
(***************************************************************************)
EXTENDS Lists, SequenceTheorems, FiniteSetTheorems, WellFoundedInduction, TLAPS

(* A non-empty set of natural numbers has a least element.                 *)
LEMMA LeastNumber ==
  ASSUME NEW S \in SUBSET Nat, S # {}
  PROVE  \E n \in S : \A m \in S : n <= m
<1>1. PICK n \in S : \A m \in S : ~(<<m, n>> \in OpToRel(<, Nat))
  BY NatLessThanWellFounded, WFMin
<1>2. ASSUME NEW m \in S PROVE n <= m
  <2>1. m \in Nat /\ n \in Nat
    OBVIOUS
  <2>2. ~(m < n)
    BY <1>1, <2>1 DEF OpToRel
  <2> QED
    BY <2>1, <2>2
<1> QED
  BY <1>2

(* What holds of 0, and of each number up to n if it holds of the one      *)
(* before, holds of all of them.                                           *)
LEMMA CountingUp ==
  ASSUME NEW n \in Nat, NEW T,
         0 \in T,
         \A i \in 1 .. n : i - 1 \in T => i \in T
  PROVE  0 .. n \subseteq T
<1> DEFINE Bad == {i \in 0 .. n : i \notin T}
<1> SUFFICES ASSUME Bad # {} PROVE FALSE
  OBVIOUS
<1>1. PICK i \in Bad : \A j \in Bad : i <= j
  <2>1. Bad \in SUBSET Nat
    OBVIOUS
  <2> HIDE DEF Bad
  <2> QED
    BY <2>1, LeastNumber
<1>2. i \in 1 .. n /\ i - 1 \in 0 .. n /\ i - 1 < i
  BY <1>1
<1>3. i - 1 \in T
  BY <1>1, <1>2
<1> QED
  BY <1>1, <1>2, <1>3

(* F is the function of the intermediate results of a loop of n turns.     *)
LoopResults(F, n, D, base, turn) ==
  /\ F \in [0 .. n -> D]
  /\ F[0] = base
  /\ \A i \in 1 .. n : F[i] = turn[i][F[i - 1]]

(* A loop of n turns, each of which maps D to D, has a function of its     *)
(* intermediate results.                                                   *)
LEMMA LoopExists ==
  ASSUME NEW n \in Nat, NEW D, NEW base \in D, NEW turn,
         \A i \in 1 .. n : \A d \in D : turn[i][d] \in D
  PROVE  \E F : LoopResults(F, n, D, base, turn)
<1> USE DEF LoopResults
<1> DEFINE Good(m) == \E F : LoopResults(F, m, D, base, turn)
           T == {m \in 0 .. n : Good(m)}
<1>1. 0 \in T
  <2> DEFINE F == [i \in 0 .. 0 |-> base]
  <2>1. F \in [0 .. 0 -> D] /\ F[0] = base
    OBVIOUS
  <2>2. \A i \in 1 .. 0 : F[i] = turn[i][F[i - 1]]
    OBVIOUS
  <2> HIDE DEF F
  <2>3. Good(0)
    BY <2>1, <2>2
  <2> HIDE DEF Good
  <2> QED
    BY <2>3
<1>2. ASSUME NEW m \in 1 .. n, m - 1 \in T PROVE m \in T
  <2>1. PICK F : LoopResults(F, m - 1, D, base, turn)
    BY <1>2
  <2> DEFINE last == turn[m][F[m - 1]]
             G == [i \in 0 .. m |-> IF i < m THEN F[i] ELSE last]
  <2>2. F[m - 1] \in D /\ last \in D
    <3>1. m - 1 \in 0 .. m - 1
      OBVIOUS
    <3> QED
      BY <2>1, <3>1
  <2>3. /\ G \in [0 .. m -> D]
        /\ \A i \in 0 .. m - 1 : G[i] = F[i]
        /\ G[m] = last
    <3> HIDE DEF last
    <3> QED
      BY <2>1, <2>2
  <2> HIDE DEF G
  <2>4. G[0] = base
    BY <2>1, <2>3
  <2>5. ASSUME NEW i \in 1 .. m PROVE G[i] = turn[i][G[i - 1]]
    <3>1. i - 1 \in 0 .. m - 1 /\ G[i - 1] = F[i - 1]
      BY <2>3
    <3>2. CASE i = m
      BY <2>3, <3>1, <3>2
    <3>3. CASE i # m
      <4>1. i \in 1 .. m - 1 /\ i \in 0 .. m - 1
        BY <3>3
      <4> QED
        BY <2>1, <2>3, <3>1, <4>1
    <3> QED
      BY <3>2, <3>3
  <2>6. Good(m)
    BY <2>3, <2>4, <2>5
  <2> HIDE DEF Good
  <2> QED
    BY <2>6
<1> HIDE DEF T
<1>3. 0 .. n \subseteq T
  BY <1>1, <1>2, CountingUp
<1>4. n \in T
  BY <1>3
<1> QED
  BY <1>4 DEF T
-----------------------------------------------------------------------------
Keeping(s, S, F) ==
  F = [i \in 0 .. Len(s) |->
         IF i = 0 THEN << >>
         ELSE IF s[i] \in S THEN Append(F[i - 1], s[i]) ELSE F[i - 1]]

(* The places of s whose elements k holds, in order: those in S, up to n  *)
Picks(g, k, s, S, n) ==
  /\ \A j \in 1 .. Len(k) : g[j] \in 1 .. n
  /\ \A i, j \in 1 .. Len(k) : i < j => g[i] < g[j]
  /\ \A j \in 1 .. Len(k) : k[j] = s[g[j]] /\ s[g[j]] \in S
  /\ \A i \in 1 .. n : s[i] \in S => \E j \in 1 .. Len(k) : g[j] = i

LEMMA KeptExists ==
  ASSUME NEW T, NEW s \in Seq(T), NEW S
  PROVE  \E F : Keeping(s, S, F) /\ Kept(s, S) = F[Len(s)]
<1> DEFINE n == Len(s)
           turn == [i \in 1 .. n |-> [d \in Seq(T) |->
                      IF s[i] \in S THEN Append(d, s[i]) ELSE d]]
<1>1. n \in Nat /\ << >> \in Seq(T) /\ \A i \in 1 .. n : s[i] \in T
  BY LenProperties, ElementOfSeq
<1>2. ASSUME NEW i \in 1 .. n, NEW d \in Seq(T)
      PROVE  /\ turn[i][d] = IF s[i] \in S THEN Append(d, s[i]) ELSE d
             /\ turn[i][d] \in Seq(T)
  BY <1>1, AppendProperties
<1> HIDE DEF turn, n
<1>3. PICK F : LoopResults(F, n, Seq(T), << >>, turn)
  BY <1>1, <1>2, LoopExists
<1>4. ASSUME NEW i \in 0 .. n
      PROVE  F[i] = IF i = 0 THEN << >>
                    ELSE IF s[i] \in S THEN Append(F[i - 1], s[i]) ELSE F[i - 1]
  <2>1. CASE i = 0
    BY <1>3, <2>1 DEF LoopResults
  <2>2. CASE i # 0
    <3>1. i \in 1 .. n /\ i - 1 \in 0 .. n
      BY <1>1, <2>2
    <3>2. F[i - 1] \in Seq(T)
      BY <1>3, <3>1 DEF LoopResults
    <3> QED
      BY <1>2, <1>3, <2>2, <3>1, <3>2 DEF LoopResults
  <2> QED
    BY <2>1, <2>2
<1>5. Keeping(s, S, F)
  <2> DEFINE G == [i \in 0 .. n |->
                     IF i = 0 THEN << >>
                     ELSE IF s[i] \in S THEN Append(F[i - 1], s[i])
                                        ELSE F[i - 1]]
  <2>1. \A i \in 0 .. n : F[i] = G[i]
    BY <1>4
  <2>2. G = [i \in 0 .. n |-> G[i]]
    OBVIOUS
  <2> HIDE DEF G
  <2>3. F = G
    BY <1>3, <2>1, <2>2 DEF LoopResults
  <2> QED
    BY <2>3 DEF Keeping, G, n
<1> DEFINE chosen == CHOOSE H : Keeping(s, S, H)
<1>6. Keeping(s, S, chosen)
  BY <1>5
<1>7. Kept(s, S) = chosen[Len(s)]
  BY DEF Kept, Keeping
<1> QED
  BY <1>6, <1>7

(* The intermediate results F of Kept(s, S).                               *)
KeptSteps(F, s, S) ==
  /\ F[0] = << >> /\ Kept(s, S) = F[Len(s)]
  /\ \A i \in 1 .. Len(s) :
       F[i] = IF s[i] \in S THEN Append(F[i - 1], s[i]) ELSE F[i - 1]

LEMMA KeptByStep ==
  ASSUME NEW T, NEW s \in Seq(T), NEW S
  PROVE  \E F : KeptSteps(F, s, S)
<1>1. PICK F : Keeping(s, S, F) /\ Kept(s, S) = F[Len(s)]
  BY KeptExists
<1> DEFINE n == Len(s)
           G == [i \in 0 .. n |->
                   IF i = 0 THEN << >>
                   ELSE IF s[i] \in S THEN Append(F[i - 1], s[i]) ELSE F[i - 1]]
<1>2. n \in Nat
  BY LenProperties
<1>3. F = G
  BY <1>1 DEF Keeping
<1>4. \A i \in 0 .. n : G[i] = IF i = 0 THEN << >>
                               ELSE IF s[i] \in S THEN Append(F[i - 1], s[i])
                                                  ELSE F[i - 1]
  OBVIOUS
<1> HIDE DEF G
<1>5. \A i \in 0 .. n : F[i] = IF i = 0 THEN << >>
                               ELSE IF s[i] \in S THEN Append(F[i - 1], s[i])
                                                  ELSE F[i - 1]
  BY <1>4, Zenon, <1>3
<1> QED
  BY <1>1, <1>2, <1>5 DEF KeptSteps

(* What is kept: the elements of s in S, each place once and in order.     *)
LEMMA KeptPicks ==
  ASSUME NEW T, NEW s \in Seq(T), NEW S
  PROVE  /\ Kept(s, S) \in Seq(T)
         /\ \E g : Picks(g, Kept(s, S), s, S, Len(s))
<1>1. PICK F : KeptSteps(F, s, S)
  BY KeptByStep
<1> DEFINE n == Len(s)
           U == {i \in 0 .. n : F[i] \in Seq(T) /\ \E g : Picks(g, F[i], s, S, i)}
<1>2. n \in Nat /\ \A i \in 1 .. n : s[i] \in T
  BY LenProperties, ElementOfSeq
<1>3. /\ F[0] = << >>
      /\ \A i \in 1 .. n :
           F[i] = IF s[i] \in S THEN Append(F[i - 1], s[i]) ELSE F[i - 1]
  BY <1>1 DEF KeptSteps
<1>4. 0 \in U
  <2>1. Picks(<< >>, << >>, s, S, 0)
    BY DEF Picks
  <2>2. /\ F[0] \in Seq(T) /\ 0 \in 0 .. n
        /\ \E g : Picks(g, F[0], s, S, 0)
    BY <1>2, <1>3, <2>1
  <2> QED
    BY <2>2
<1>5. ASSUME NEW i \in 1 .. n, i - 1 \in U PROVE i \in U
  <2> DEFINE k == F[i - 1]
  <2>1. /\ k \in Seq(T) /\ Len(k) \in Nat /\ s[i] \in T
        /\ i \in Nat /\ i - 1 \in 0 .. n
    BY <1>2, <1>5, LenProperties
  <2>2. PICK g : Picks(g, k, s, S, i - 1)
    BY <1>5
  <2> HIDE DEF k
  <2>3. CASE s[i] \notin S
    <3>1. F[i] = k
      BY <1>3, <2>3 DEF k
    <3>2. Picks(g, k, s, S, i)
      <4>1. \A j \in 1 .. i : j \in 1 .. i - 1 \/ j = i
        BY <2>1
      <4>2. 1 .. i - 1 \subseteq 1 .. i
        BY <2>1
      <4> QED
        BY <2>1, <2>2, <2>3, <4>1, <4>2 DEF Picks
    <3> QED
      BY <2>1, <3>1, <3>2
  <2>4. CASE s[i] \in S
    <3> DEFINE l == Append(k, s[i])
               h == [j \in 1 .. Len(k) + 1 |-> IF j <= Len(k) THEN g[j] ELSE i]
    <3>1. F[i] = l
      BY <1>3, <2>4 DEF k
    <3>2. /\ l \in Seq(T) /\ Len(l) = Len(k) + 1
          /\ \A j \in 1 .. Len(k) : l[j] = k[j]
          /\ l[Len(k) + 1] = s[i]
      BY <2>1, AppendProperties
    <3>3. /\ \A j \in 1 .. Len(k) : h[j] = g[j] /\ g[j] \in 1 .. i - 1
          /\ h[Len(k) + 1] = i
      BY <2>1, <2>2 DEF Picks
    <3> HIDE DEF l, h
    <3>4. \A j \in 1 .. Len(l) : j \in 1 .. Len(k) \/ j = Len(k) + 1
      BY <2>1, <3>2
    <3>5. \A j \in 1 .. Len(l) : h[j] \in 1 .. i
      BY <2>1, <3>3, <3>4
    <3>6. ASSUME NEW a \in 1 .. Len(l), NEW b \in 1 .. Len(l), a < b
          PROVE  h[a] < h[b]
      <4>1. a \in 1 .. Len(k)
        BY <2>1, <3>2, <3>6
      <4>2. CASE b \in 1 .. Len(k)
        BY <2>2, <3>3, <3>6, <4>1, <4>2 DEF Picks
      <4>3. CASE b = Len(k) + 1
        BY <2>1, <3>3, <4>1, <4>3
      <4> QED
        BY <3>4, <4>2, <4>3
    <3>7. \A j \in 1 .. Len(l) : l[j] = s[h[j]] /\ s[h[j]] \in S
      BY <2>2, <2>4, <3>2, <3>3, <3>4 DEF Picks
    <3>8. ASSUME NEW p \in 1 .. i, s[p] \in S
          PROVE  \E j \in 1 .. Len(l) : h[j] = p
      <4>1. CASE p = i
        <5>1. Len(k) + 1 \in 1 .. Len(l)
          BY <2>1, <3>2
        <5> QED
          BY <3>3, <4>1, <5>1
      <4>2. CASE p # i
        <5>1. p \in 1 .. i - 1
          BY <2>1, <4>2
        <5>2. PICK j \in 1 .. Len(k) : g[j] = p
          BY <2>2, <3>8, <5>1 DEF Picks
        <5>3. j \in 1 .. Len(l)
          BY <2>1, <3>2
        <5> QED
          BY <3>3, <5>2, <5>3
      <4> QED
        BY <4>1, <4>2
    <3>9. Picks(h, l, s, S, i)
      BY <3>5, <3>6, <3>7, <3>8 DEF Picks
    <3> QED
      BY <2>1, <3>1, <3>2, <3>9
  <2> QED
    BY <2>3, <2>4
<1> HIDE DEF U
<1>6. n \in U
  <2>1. 0 .. n \subseteq U
    BY <1>2, <1>4, <1>5, CountingUp
  <2> QED
    BY <1>2, <2>1
<1> QED
  BY <1>1, <1>6 DEF U, KeptSteps

LEMMA KeptAppend ==
  ASSUME NEW T, NEW s \in Seq(T), NEW e \in T, NEW S
  PROVE  Kept(Append(s, e), S) = IF e \in S THEN Append(Kept(s, S), e) ELSE Kept(s, S)
<1> DEFINE l == Append(s, e)
           n == Len(s)
<1>1. /\ l \in Seq(T) /\ n \in Nat /\ Len(l) = n + 1 /\ l[n + 1] = e
      /\ \A i \in 1 .. n : l[i] = s[i]
  BY AppendProperties, LenProperties
<1>2. PICK F : KeptSteps(F, s, S)
  BY KeptByStep
<1> HIDE DEF l
<1>3. PICK G : KeptSteps(G, l, S)
  BY <1>1, KeptByStep
<1> DEFINE U == {i \in 0 .. n : F[i] = G[i]}
<1>4. 0 \in U
  BY <1>1, <1>2, <1>3 DEF KeptSteps
<1>5. ASSUME NEW i \in 1 .. n, i - 1 \in U PROVE i \in U
  <2>1. i \in 1 .. n + 1 /\ s[i] = l[i] /\ F[i - 1] = G[i - 1]
    BY <1>1, <1>5
  <2> QED
    BY <1>1, <1>2, <1>3, <2>1 DEF KeptSteps
<1>6. 0 .. n \subseteq U
  <2> HIDE DEF U
  <2> QED
    BY <1>1, <1>4, <1>5, CountingUp
<1>7. G[n] = Kept(s, S) /\ n + 1 \in 1 .. n + 1 /\ n + 1 - 1 = n
  BY <1>1, <1>2, <1>6 DEF KeptSteps
<1>8. G[n + 1] = IF e \in S THEN Append(G[n], e) ELSE G[n]
  BY <1>1, <1>3, <1>7 DEF KeptSteps
<1> QED
  BY <1>1, <1>3, <1>7, <1>8 DEF KeptSteps, l

LEMMA ConcatAppend ==
  ASSUME NEW T, NEW s \in Seq(T), NEW t \in Seq(T), NEW e \in T
  PROVE  s \o Append(t, e) = Append(s \o t, e)
<1>1. <<e>> \in Seq(T)
  OBVIOUS
<1>2. s \o t \in Seq(T)
  BY ConcatProperties
<1>3. Append(t, e) = t \o <<e>> /\ Append(s \o t, e) = (s \o t) \o <<e>>
  BY <1>2, AppendIsConcat
<1> QED
  BY <1>1, <1>3, ConcatAssociative

LEMMA KeptTail ==
  ASSUME NEW T, NEW s \in Seq(T), s # << >>, NEW S
  PROVE  Kept(s, S) = IF Head(s) \in S THEN <<Head(s)>> \o Kept(Tail(s), S)
                      ELSE Kept(Tail(s), S)
<1> DEFINE t == Tail(s)
           n == Len(t)
           h == IF Head(s) \in S THEN <<Head(s)>> ELSE << >>
<1>1. /\ t \in Seq(T) /\ n \in Nat /\ Len(s) = n + 1
      /\ Head(s) = s[1] /\ Head(s) \in T
      /\ \A i \in 1 .. n : t[i] = s[i + 1] /\ t[i] \in T
  BY HeadTailProperties, LenProperties, EmptySeq, ElementOfSeq
<1> HIDE DEF t
<1>2. PICK F : KeptSteps(F, s, S)
  BY KeptByStep
<1>3. PICK G : KeptSteps(G, t, S)
  BY <1>1, KeptByStep
<1>4. h \in Seq(T) /\ << >> \in Seq(T) /\ h \o << >> = h
  <2>1. h \in Seq(T) /\ << >> \in Seq(T)
    BY <1>1
  <2> QED
    BY <2>1, ConcatEmptySeq
<1>5. F[1] = h
  <2>1. 1 \in 1 .. n + 1 /\ F[1 - 1] = << >>
    BY <1>1, <1>2 DEF KeptSteps
  <2>2. F[1] = IF s[1] \in S THEN Append(F[1 - 1], s[1]) ELSE F[1 - 1]
    BY <1>1, <1>2, <2>1 DEF KeptSteps
  <2>3. Append(<< >>, s[1]) = <<s[1]>>
    BY <1>1
  <2> QED
    BY <1>1, <2>1, <2>2, <2>3
<1> HIDE DEF h
<1> DEFINE U == {i \in 0 .. n : G[i] \in Seq(T) /\ F[i + 1] = h \o G[i]}
<1>6. 0 \in U
  <2>1. G[0] = << >> /\ 0 \in 0 .. n /\ 0 + 1 = 1
    BY <1>1, <1>3 DEF KeptSteps
  <2>2. G[0] \in Seq(T) /\ F[0 + 1] = h \o G[0]
    BY <1>4, <1>5, <2>1
  <2> QED
    BY <2>1, <2>2
<1>7. ASSUME NEW i \in 1 .. n, i - 1 \in U PROVE i \in U
  <2>1. /\ i + 1 \in 1 .. n + 1 /\ i \in 0 .. n /\ i + 1 - 1 = i /\ i - 1 + 1 = i
        /\ s[i + 1] = t[i] /\ t[i] \in T
        /\ G[i - 1] \in Seq(T) /\ F[i] = h \o G[i - 1]
    BY <1>1, <1>7
  <2>2. F[i + 1] = IF t[i] \in S THEN Append(F[i], t[i]) ELSE F[i]
    <3>1. F[i + 1] = IF s[i + 1] \in S THEN Append(F[i + 1 - 1], s[i + 1])
                     ELSE F[i + 1 - 1]
      BY <1>1, <1>2, <2>1 DEF KeptSteps
    <3> QED
      BY <2>1, <3>1
  <2>3. G[i] = IF t[i] \in S THEN Append(G[i - 1], t[i]) ELSE G[i - 1]
    BY <1>3 DEF KeptSteps
  <2>4. h \o Append(G[i - 1], t[i]) = Append(h \o G[i - 1], t[i])
    <3> DEFINE g == G[i - 1]
    <3>1. g \in Seq(T)
      BY <2>1
    <3> HIDE DEF g
    <3>2. h \o Append(g, t[i]) = Append(h \o g, t[i])
      <4>1. h \in Seq(T) /\ t[i] \in T
        BY <1>4, <2>1
      <4> QED
        BY <3>1, <4>1, ConcatAppend
    <3> QED
      BY <3>2 DEF g
  <2>5. Append(G[i - 1], t[i]) \in Seq(T)
    BY <2>1, AppendProperties
  <2> QED
    BY <2>1, <2>2, <2>3, <2>4, <2>5
<1>8. n \in U
  <2>1. 0 .. n \subseteq U
    <3> HIDE DEF U
    <3> QED
      BY <1>1, <1>6, <1>7, CountingUp
  <2> QED
    BY <1>1, <2>1
<1>9. Kept(s, S) = h \o Kept(t, S) /\ Kept(t, S) \in Seq(T)
  BY <1>1, <1>2, <1>3, <1>8 DEF KeptSteps
<1> QED
  BY <1>9, ConcatEmptySeq DEF h, t

ElementsOf(s) == {s[i] : i \in 1 .. Len(s)}
Distinct(s) == \A i, j \in 1 .. Len(s) : s[i] = s[j] => i = j

LEMMA KeptElements ==
  ASSUME NEW T, NEW s \in Seq(T), NEW S
  PROVE  /\ Kept(s, S) \in Seq(T)
         /\ ElementsOf(Kept(s, S)) = ElementsOf(s) \cap S
         /\ Distinct(s) => Distinct(Kept(s, S))
<1> DEFINE k == Kept(s, S)
<1>1. k \in Seq(T) /\ Len(k) \in Nat
  BY KeptPicks, LenProperties
<1>2. PICK g : Picks(g, k, s, S, Len(s))
  BY KeptPicks
<1> HIDE DEF k
<1>3. ElementsOf(k) = ElementsOf(s) \cap S
  BY <1>2 DEF Picks, ElementsOf
<1>4. ASSUME Distinct(s) PROVE Distinct(k)
  <2> SUFFICES ASSUME NEW i \in 1 .. Len(k), NEW j \in 1 .. Len(k), k[i] = k[j]
               PROVE  i = j
    BY DEF Distinct
  <2>1. g[i] = g[j] /\ g[i] \in Nat
    BY <1>2, <1>4 DEF Picks, Distinct
  <2>2. i \in Nat /\ j \in Nat /\ ~(i < j) /\ ~(j < i)
    BY <1>1, <1>2, <2>1 DEF Picks
  <2> QED
    BY <2>2
<1> QED
  BY <1>1, <1>3, <1>4 DEF k

LEMMA AppendElements ==
  ASSUME NEW T, NEW s \in Seq(T), NEW e \in T
  PROVE  /\ Append(s, e) \in Seq(T)
         /\ ElementsOf(Append(s, e)) = ElementsOf(s) \cup {e}
         /\ Distinct(s) /\ e \notin ElementsOf(s) => Distinct(Append(s, e))
<1> DEFINE l == Append(s, e)
<1>1. /\ l \in Seq(T) /\ Len(s) \in Nat /\ Len(l) = Len(s) + 1
      /\ \A i \in 1 .. Len(s) : l[i] = s[i]
      /\ l[Len(s) + 1] = e
  BY AppendProperties, LenProperties
<1> HIDE DEF l
<1>2. \A i \in 1 .. Len(l) : i \in 1 .. Len(s) \/ i = Len(s) + 1
  BY <1>1
<1>3. 1 .. Len(s) \subseteq 1 .. Len(l) /\ Len(s) + 1 \in 1 .. Len(l)
  BY <1>1
<1>4. ElementsOf(l) = ElementsOf(s) \cup {e}
  BY <1>1, <1>2, <1>3 DEF ElementsOf
<1>5. Distinct(s) /\ e \notin ElementsOf(s) => Distinct(l)
  BY <1>1, <1>2 DEF ElementsOf, Distinct
<1> QED
  BY <1>1, <1>4, <1>5 DEF l

LEMMA TailElements ==
  ASSUME NEW T, NEW s \in Seq(T), s # << >>
  PROVE  /\ Tail(s) \in Seq(T)
         /\ Head(s) \in T /\ Head(s) \in ElementsOf(s)
         /\ ElementsOf(Tail(s)) \subseteq ElementsOf(s)
<1>1. /\ Head(s) \in T /\ Head(s) = s[1] /\ Tail(s) \in Seq(T)
      /\ Len(s) \in Nat /\ Len(s) > 0 /\ Len(Tail(s)) = Len(s) - 1
      /\ \A i \in 1 .. Len(Tail(s)) : Tail(s)[i] = s[i + 1]
  BY HeadTailProperties, LenProperties, EmptySeq
<1>2. 1 \in 1 .. Len(s) /\ \A i \in 1 .. Len(s) - 1 : i + 1 \in 1 .. Len(s)
  BY <1>1
<1> QED
  BY <1>1, <1>2 DEF ElementsOf

(* A list without repetitions is as long as it has elements.               *)
LEMMA DistinctCounts ==
  ASSUME NEW T, NEW s \in Seq(T), Distinct(s)
  PROVE  /\ IsFiniteSet(ElementsOf(s))
         /\ Cardinality(ElementsOf(s)) = Len(s)
<1> DEFINE I == 1 .. Len(s)
           E == ElementsOf(s)
           g == [i \in I |-> s[i]]
<1>1. Len(s) \in Nat
  BY LenProperties
<1>2. g \in [I -> E] /\ \A i, j \in I : g[i] = g[j] => i = j
  BY DEF ElementsOf, Distinct
<1>3. \A e \in E : \E i \in I : g[i] = e
  BY DEF ElementsOf
<1>4. IsFiniteSet(I) /\ Cardinality(I) = Len(s)
  <2>1. IsFiniteSet(I) /\ Cardinality(I) = IF 1 > Len(s) THEN 0 ELSE Len(s) - 1 + 1
    BY <1>1, FS_Interval
  <2> HIDE DEF I
  <2> QED
    BY <1>1, <2>1
<1> HIDE DEF I, E, g
<1>5. ExistsBijection(I, E)
  <2>1. g \in Bijection(I, E)
    BY <1>2, <1>3 DEF Bijection, Injection, Surjection, IsInjective
  <2> QED
    BY <2>1 DEF ExistsBijection
<1>6. IsFiniteSet(E) /\ Cardinality(E) = Cardinality(I)
  BY <1>4, <1>5, FS_Bijection
<1> QED
  BY <1>4, <1>6 DEF E
-----------------------------------------------------------------------------
(* Lists of numbers, each greater than the one before it. *)
Ascending(s) == \A i, j \in 1 .. Len(s) : i < j => s[i] < s[j]

LEMMA AscendingAppend ==
  ASSUME NEW T \in SUBSET Nat, NEW s \in Seq(T), NEW e \in T, Ascending(s),
         \A x \in ElementsOf(s) : x < e
  PROVE  Ascending(Append(s, e))
<1> DEFINE l == Append(s, e)
<1>1. /\ Len(s) \in Nat /\ Len(l) = Len(s) + 1 /\ l[Len(s) + 1] = e
      /\ \A i \in 1 .. Len(s) : l[i] = s[i] /\ s[i] \in T
  BY AppendProperties, LenProperties, ElementOfSeq
<1> HIDE DEF l
<1>2. \A i \in 1 .. Len(l) : i \in 1 .. Len(s) \/ i = Len(s) + 1
  BY <1>1
<1> SUFFICES ASSUME NEW i \in 1 .. Len(l), NEW j \in 1 .. Len(l), i < j
             PROVE  l[i] < l[j]
  BY DEF Ascending, l
<1>3. i \in 1 .. Len(s)
  BY <1>1
<1>4. CASE j \in 1 .. Len(s)
  BY <1>1, <1>3, <1>4 DEF Ascending
<1>5. CASE j = Len(s) + 1
  BY <1>1, <1>3, <1>5 DEF ElementsOf
<1> QED
  BY <1>2, <1>4, <1>5

LEMMA AscendingTail ==
  ASSUME NEW T \in SUBSET Nat, NEW s \in Seq(T), s # << >>, Ascending(s)
  PROVE  /\ Ascending(Tail(s))
         /\ ElementsOf(s) = {Head(s)} \cup ElementsOf(Tail(s))
         /\ \A x \in ElementsOf(Tail(s)) : Head(s) < x
<1> DEFINE t == Tail(s)
<1>1. /\ Head(s) = s[1] /\ Len(s) \in Nat /\ Len(s) > 0 /\ Len(t) = Len(s) - 1
      /\ \A i \in 1 .. Len(t) : t[i] = s[i + 1]
  BY HeadTailProperties, LenProperties, EmptySeq
<1> HIDE DEF t
<1>2. \A i \in 1 .. Len(t) : i \in Nat /\ i + 1 \in 1 .. Len(s) /\ 1 < i + 1
  BY <1>1
<1>3. \A i \in 1 .. Len(s) : i = 1 \/ (i - 1 \in 1 .. Len(t) /\ (i - 1) + 1 = i)
  BY <1>1
<1>4. Ascending(t)
  <2> SUFFICES ASSUME NEW i \in 1 .. Len(t), NEW j \in 1 .. Len(t), i < j
               PROVE  t[i] < t[j]
    BY DEF Ascending
  <2>1. i + 1 < j + 1
    BY <1>2
  <2> QED
    BY <1>1, <1>2, <2>1 DEF Ascending
<1>5. 1 \in 1 .. Len(s)
  BY <1>1
<1>6. ElementsOf(s) = {s[1]} \cup ElementsOf(t)
  <2>1. ASSUME NEW i \in 1 .. Len(s) PROVE s[i] \in {s[1]} \cup ElementsOf(t)
    <3>1. i # 1 => t[i - 1] = s[i]
      BY <1>1, <1>3
    <3> QED
      BY <1>3, <3>1 DEF ElementsOf
  <2>2. ASSUME NEW i \in 1 .. Len(t) PROVE t[i] \in ElementsOf(s)
    BY <1>1, <1>2 DEF ElementsOf
  <2> QED
    BY <1>5, <2>1, <2>2 DEF ElementsOf
<1>7. ASSUME NEW i \in 1 .. Len(t) PROVE s[1] < t[i]
  BY <1>1, <1>2, <1>5 DEF Ascending
<1> QED
  BY <1>1, <1>4, <1>6, <1>7 DEF ElementsOf, t

LEMMA AscendingKept ==
  ASSUME NEW T \in SUBSET Nat, NEW s \in Seq(T), NEW S, Ascending(s)
  PROVE  Ascending(Kept(s, S))
<1> DEFINE k == Kept(s, S)
<1>1. PICK g : Picks(g, k, s, S, Len(s))
  BY KeptPicks
<1> HIDE DEF k
<1> SUFFICES ASSUME NEW i \in 1 .. Len(k), NEW j \in 1 .. Len(k), i < j
             PROVE  k[i] < k[j]
  BY DEF Ascending, k
<1> QED
  BY <1>1 DEF Picks, Ascending

LEMMA AscendingDistinct ==
  ASSUME NEW T \in SUBSET Nat, NEW s \in Seq(T), Ascending(s)
  PROVE  Distinct(s)
<1> SUFFICES ASSUME NEW i \in 1 .. Len(s), NEW j \in 1 .. Len(s), s[i] = s[j]
             PROVE  i = j
  BY DEF Distinct
<1>1. s[i] \in Nat /\ s[j] \in Nat
  BY ElementOfSeq
<1>2. ~(i < j) /\ ~(j < i)
  BY <1>1 DEF Ascending
<1> QED
  BY <1>2

(* The beginning of a list. *)
LEMMA Beginning ==
  ASSUME NEW T, NEW s \in Seq(T), NEW t \in Seq(T)
  PROVE  /\ s \o t \in Seq(T) /\ 1 .. Len(s) \subseteq 1 .. Len(s \o t)
         /\ \A i \in 1 .. Len(s) : (s \o t)[i] = s[i]
         /\ ElementsOf(s) \subseteq ElementsOf(s \o t)
         /\ ElementsOf(t) \subseteq ElementsOf(s \o t)
         /\ Ascending(s \o t) => Ascending(s)
<1> DEFINE l == s \o t
<1>1. /\ l \in Seq(T) /\ Len(s) \in Nat /\ Len(t) \in Nat /\ Len(l) = Len(s) + Len(t)
      /\ \A i \in 1 .. Len(s) + Len(t) : l[i] = IF i <= Len(s) THEN s[i] ELSE t[i - Len(s)]
  BY ConcatProperties, LenProperties
<1> HIDE DEF l
<1>2. 1 .. Len(s) \subseteq 1 .. Len(l) /\ \A i \in 1 .. Len(s) : l[i] = s[i]
  BY <1>1
<1>3. ASSUME NEW i \in 1 .. Len(t)
      PROVE  i + Len(s) \in 1 .. Len(l) /\ l[i + Len(s)] = t[i]
  <2>1. /\ i + Len(s) \in 1 .. Len(s) + Len(t) /\ ~(i + Len(s) <= Len(s))
        /\ i + Len(s) - Len(s) = i
    BY <1>1
  <2> QED
    BY <1>1, <2>1
<1>4. ElementsOf(s) \subseteq ElementsOf(l)
  BY <1>2 DEF ElementsOf
<1>5. ElementsOf(t) \subseteq ElementsOf(l)
  BY <1>3 DEF ElementsOf
<1>6. Ascending(l) => Ascending(s)
  BY <1>2 DEF Ascending
<1> QED
  BY <1>1, <1>2, <1>4, <1>5, <1>6 DEF l

(* The first of the second list becomes the last of the first one.         *)
LEMMA MoveHead ==
  ASSUME NEW T, NEW s \in Seq(T), NEW t \in Seq(T), t # << >>
  PROVE  Append(s, Head(t)) \o Tail(t) = s \o t
<1>1. /\ Head(t) \in T /\ Head(t) = t[1] /\ Tail(t) \in Seq(T) /\ Len(Tail(t)) = Len(t) - 1
      /\ \A i \in 1 .. Len(Tail(t)) : Tail(t)[i] = t[i + 1]
      /\ Len(t) \in Nat /\ Len(t) > 0 /\ Len(s) \in Nat
  BY HeadTailProperties, LenProperties, EmptySeq
<1> DEFINE a == Append(s, Head(t))
           u == Tail(t)
<1>2. /\ a \in Seq(T) /\ Len(a) = Len(s) + 1 /\ a[Len(s) + 1] = Head(t)
      /\ \A i \in 1 .. Len(s) : a[i] = s[i]
  BY <1>1, AppendProperties
<1> HIDE DEF a, u
<1>3. /\ a \o u \in Seq(T) /\ Len(a \o u) = Len(a) + Len(u)
      /\ \A i \in 1 .. Len(a) + Len(u) :
           (a \o u)[i] = IF i <= Len(a) THEN a[i] ELSE u[i - Len(a)]
  BY <1>1, <1>2, ConcatProperties DEF u
<1>4. /\ s \o t \in Seq(T) /\ Len(s \o t) = Len(s) + Len(t)
      /\ \A i \in 1 .. Len(s) + Len(t) :
           (s \o t)[i] = IF i <= Len(s) THEN s[i] ELSE t[i - Len(s)]
  BY ConcatProperties
<1>5. Len(a) + Len(u) = Len(s) + Len(t)
  BY <1>1, <1>2 DEF u
<1>6. ASSUME NEW i \in 1 .. Len(s) + Len(t)
      PROVE  (a \o u)[i] = (s \o t)[i]
  <2>1. CASE i <= Len(s)
    <3>1. i <= Len(a) /\ i \in 1 .. Len(s)
      BY <1>1, <1>2, <2>1
    <3>2. (a \o u)[i] = a[i]
      BY <1>3, <1>5, <3>1
    <3> QED
      BY <1>2, <1>4, <2>1, <3>1, <3>2
  <2>2. CASE i = Len(s) + 1
    <3>1. i <= Len(a) /\ ~(i <= Len(s)) /\ i - Len(s) = 1
      BY <1>1, <1>2, <2>2
    <3>2. (a \o u)[i] = a[i]
      BY <1>3, <1>5, <3>1
    <3>3. (s \o t)[i] = t[1]
      BY <1>4, <3>1
    <3> QED
      BY <1>1, <1>2, <2>2, <3>2, <3>3
  <2>3. CASE i > Len(s) + 1
    <3>1. /\ i - Len(a) \in 1 .. Len(u) /\ i - Len(a) + 1 = i - Len(s)
          /\ ~(i <= Len(a)) /\ ~(i <= Len(s))
      BY <1>1, <1>2, <1>5, <2>3 DEF u
    <3>2. u[i - Len(a)] = t[i - Len(s)]
      BY <1>1, <3>1 DEF u
    <3>3. (a \o u)[i] = u[i - Len(a)]
      BY <1>3, <1>5, <3>1
    <3>4. (s \o t)[i] = t[i - Len(s)]
      BY <1>4, <3>1
    <3> QED
      BY <3>2, <3>3, <3>4
  <2>4. i <= Len(s) \/ i = Len(s) + 1 \/ i > Len(s) + 1
    BY <1>1
  <2> QED
    BY <2>1, <2>2, <2>3, <2>4
<1> QED
  BY <1>3, <1>4, <1>5, <1>6, SeqEqual DEF a, u

(* The places of a list that hold x. *)
PlacesOf(s, x) == {i \in 1 .. Len(s) : s[i] = x}

LEMMA PlacesFinite ==
  ASSUME NEW T, NEW s \in Seq(T), NEW x
  PROVE  /\ IsFiniteSet(PlacesOf(s, x)) /\ Cardinality(PlacesOf(s, x)) \in Nat
         /\ x \notin ElementsOf(s) => Cardinality(PlacesOf(s, x)) = 0
<1>1. Len(s) \in Nat
  BY LenProperties
<1>2. IsFiniteSet(1 .. Len(s))
  BY <1>1, FS_Interval
<1>3. PlacesOf(s, x) \in SUBSET (1 .. Len(s))
  BY DEF PlacesOf
<1>4. IsFiniteSet(PlacesOf(s, x))
  BY <1>2, <1>3, FS_Subset
<1>5. x \notin ElementsOf(s) => PlacesOf(s, x) = {}
  BY DEF PlacesOf, ElementsOf
<1> QED
  BY <1>4, <1>5, FS_CardinalityType, FS_EmptySet

LEMMA PlacesAppend ==
  ASSUME NEW T, NEW s \in Seq(T), NEW e \in T, NEW x
  PROVE  Cardinality(PlacesOf(Append(s, e), x))
           = Cardinality(PlacesOf(s, x)) + (IF e = x THEN 1 ELSE 0)
<1> DEFINE l == Append(s, e)
<1>1. /\ Len(s) \in Nat /\ Len(l) = Len(s) + 1 /\ l[Len(s) + 1] = e
      /\ \A i \in 1 .. Len(s) : l[i] = s[i]
  BY AppendProperties, LenProperties
<1> HIDE DEF l
<1>2. \A i \in 1 .. Len(l) : i \in 1 .. Len(s) \/ i = Len(s) + 1
  BY <1>1
<1>3. Len(s) + 1 \in 1 .. Len(l) /\ 1 .. Len(s) \subseteq 1 .. Len(l)
      /\ Len(s) + 1 \notin 1 .. Len(s)
  BY <1>1
<1>4. PlacesOf(l, x) = PlacesOf(s, x) \cup (IF e = x THEN {Len(s) + 1} ELSE {})
  BY <1>1, <1>2, <1>3 DEF PlacesOf
<1>5. Len(s) + 1 \notin PlacesOf(s, x)
  BY <1>3 DEF PlacesOf
<1>6. IsFiniteSet(PlacesOf(s, x)) /\ Cardinality(PlacesOf(s, x)) \in Nat
  BY PlacesFinite
<1>7. CASE e = x
  BY <1>4, <1>5, <1>6, <1>7, FS_AddElement DEF l
<1>8. CASE e # x
  BY <1>4, <1>6, <1>8 DEF l
<1> QED
  BY <1>7, <1>8

LEMMA PlacesBeginning ==
  ASSUME NEW T, NEW s \in Seq(T), NEW t \in Seq(T), NEW x
  PROVE  Cardinality(PlacesOf(s, x)) <= Cardinality(PlacesOf(s \o t, x))
<1>1. PlacesOf(s, x) \in SUBSET PlacesOf(s \o t, x)
  BY Beginning DEF PlacesOf
<1>2. IsFiniteSet(PlacesOf(s \o t, x))
  BY Beginning, PlacesFinite
<1> QED
  BY <1>1, <1>2, FS_Subset
=============================================================================
