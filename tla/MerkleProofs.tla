------------------------------ MODULE MerkleProofs ------------------------------
(* What one round of compute_root does, for lists of any length. *)
EXTENDS Merkle, Induction

\* merkle.rs:24-43: a round over more than one node leaves fewer nodes, and at
\* least one: the recursion of compute_root comes to its end.
THEOREM RoundShrinks ==
    ASSUME NEW S, NEW nodes \in Seq(S), Len(nodes) > 1
    PROVE  /\ Len(NextLevel(nodes)) >= 1
           /\ Len(NextLevel(nodes)) < Len(nodes)
  <1>1. /\ Len(nodes) \in Nat
        /\ (Len(nodes) + 1) \div 2 \in Nat
        /\ (Len(nodes) + 1) \div 2 >= 1
        /\ (Len(nodes) + 1) \div 2 < Len(nodes)
    OBVIOUS
  <1>2. Len(NextLevel(nodes)) = (Len(nodes) + 1) \div 2
    BY <1>1 DEF NextLevel
  <1> QED
    BY <1>1, <1>2

\* merkle.rs:29-41: two lists of one length that a round maps to the same list
\* are the same: no node is dropped, moved or mixed up with its neighbour.
THEOREM RoundBinds ==
    ASSUME NEW S, NEW s \in Seq(S), NEW t \in Seq(S),
           Len(s) = Len(t), NextLevel(s) = NextLevel(t)
    PROVE  s = t
  <1> DEFINE half == (Len(s) + 1) \div 2
  <1>1. Len(s) \in Nat /\ half \in Nat
    OBVIOUS
  <1>2. ASSUME NEW n \in 1 .. Len(s) PROVE s[n] = t[n]
    <2> DEFINE i == (n + 1) \div 2
    <2>1. /\ i \in 1 .. half
          /\ n = 2*i - 1 \/ (n = 2*i /\ 2*i <= Len(s))
      BY <1>1
    <2> HIDE DEF i, half
    <2>2. NextLevel(s)[i] = Hash(s[2*i - 1], IF 2*i <= Len(s) THEN s[2*i] ELSE s[2*i - 1])
      BY <2>1 DEF NextLevel, half
    <2>3. NextLevel(t)[i] = Hash(t[2*i - 1], IF 2*i <= Len(s) THEN t[2*i] ELSE t[2*i - 1])
      BY <2>1 DEF NextLevel, half
    <2>4. s[2*i - 1] = t[2*i - 1] /\ (2*i <= Len(s) => s[2*i] = t[2*i])
      BY <2>2, <2>3 DEF Hash
    <2> QED
      BY <2>1, <2>4
  <1> QED
    BY <1>1, <1>2

-----------------------------------------------------------------------------
(* The rounds of compute_root, one after the other *)

\* What g is to the first n rounds.
LevelsTo(nodes, n, g) ==
    \A k \in 0 .. n : g[k] = IF k = 0 THEN nodes ELSE NextLevel(g[k - 1])

LEMMA LevelsToExist ==
    ASSUME NEW nodes, NEW n \in Nat
    PROVE  \E g : LevelsTo(nodes, n, g)
<1> DEFINE T == {k \in Nat : \E g : LevelsTo(nodes, k, g)}
<1>1. 0 \in T
  <2>1. LevelsTo(nodes, 0, [k \in {0} |-> nodes])
    BY DEF LevelsTo
  <2>2. QED
    BY <2>1
<1>2. ASSUME NEW k \in T PROVE k + 1 \in T
  <2>1. PICK g : LevelsTo(nodes, k, g)
    OBVIOUS
  <2> DEFINE h == [i \in 0 .. k + 1 |-> IF i = k + 1 THEN NextLevel(g[k]) ELSE g[i]]
  <2>2. ASSUME NEW i \in 0 .. k + 1
        PROVE  h[i] = IF i = 0 THEN nodes ELSE NextLevel(h[i - 1])
    <3>1. CASE i = k + 1
      BY <3>1
    <3>2. CASE i # k + 1
      <4>1. i \in 0 .. k /\ h[i] = g[i]
        BY <3>2
      <4>2. i # 0 => h[i - 1] = g[i - 1]
        BY <4>1
      <4>3. QED
        BY <2>1, <4>1, <4>2 DEF LevelsTo
    <3>3. QED
      BY <3>1, <3>2
  <2> HIDE DEF h
  <2>3. LevelsTo(nodes, k + 1, h)
    BY <2>2 DEF LevelsTo
  <2>4. QED
    BY <2>3
<1>3. T \in SUBSET Nat
  OBVIOUS
<1> HIDE DEF T
<1>4. n \in T
  BY <1>1, <1>2, <1>3, ClosedIsNat
<1>5. QED
  BY <1>4 DEF T

LEMMA LevelsToAgree ==
    ASSUME NEW nodes, NEW m \in Nat, NEW n \in Nat, NEW g, NEW h,
           LevelsTo(nodes, m, g), LevelsTo(nodes, n, h), NEW k \in Nat, k <= m, k <= n
    PROVE  g[k] = h[k]
<1> DEFINE T == {i \in Nat : i <= m /\ i <= n => g[i] = h[i]}
<1>1. 0 \in T
  BY DEF LevelsTo
<1>2. ASSUME NEW i \in T, i + 1 <= m, i + 1 <= n PROVE g[i + 1] = h[i + 1]
  <2>1. g[i] = h[i] /\ i \in Nat
    BY <1>2
  <2>2. g[i + 1] = NextLevel(g[i])
    BY <1>2, <2>1 DEF LevelsTo
  <2>3. h[i + 1] = NextLevel(h[i])
    BY <1>2, <2>1 DEF LevelsTo
  <2>4. QED
    BY <2>1, <2>2, <2>3
<1>3. T \in SUBSET Nat /\ \A i \in T : i + 1 \in T
  BY <1>2
<1> HIDE DEF T
<1>4. k \in T
  BY <1>1, <1>3, ClosedIsNat
<1>5. QED
  BY <1>4 DEF T

\* The recursion of Levels is one.
LEMMA LevelsAre ==
    ASSUME NEW nodes, NEW k \in Nat
    PROVE  Levels(nodes)[k] = IF k = 0 THEN nodes ELSE NextLevel(Levels(nodes)[k - 1])
<1> DEFINE To(n) == CHOOSE g : LevelsTo(nodes, n, g)
           L == [n \in Nat |-> To(n)[n]]
<1>1. \A n \in Nat : LevelsTo(nodes, n, To(n))
  BY LevelsToExist
<1> HIDE DEF To
<1>2. ASSUME NEW n \in Nat PROVE L[n] = IF n = 0 THEN nodes ELSE NextLevel(L[n - 1])
  <2>1. L[n] = To(n)[n]
    OBVIOUS
  <2>2. To(n)[n] = IF n = 0 THEN nodes ELSE NextLevel(To(n)[n - 1])
    BY <1>1 DEF LevelsTo
  <2>3. n # 0 => L[n - 1] = To(n)[n - 1]
    BY <1>1, LevelsToAgree
  <2>4. QED
    BY <2>1, <2>2, <2>3
<1>3. L = [n \in Nat |-> IF n = 0 THEN nodes ELSE NextLevel(L[n - 1])]
  BY <1>2
<1> HIDE DEF L
<1>4. Levels(nodes) = CHOOSE g : g = [n \in Nat |-> IF n = 0 THEN nodes ELSE NextLevel(g[n - 1])]
  BY DEF Levels
<1>5. Levels(nodes) = [n \in Nat |-> IF n = 0 THEN nodes ELSE NextLevel(Levels(nodes)[n - 1])]
  BY <1>3, <1>4
<1>6. QED
  BY <1>5


-----------------------------------------------------------------------------
(* How many rounds there are *)

LEMMA NextLevelIs ==
    ASSUME NEW W, NEW s \in Seq(W), Len(s) >= 1
    PROVE  /\ NextLevel(s) \in Seq(W \X W)
           /\ Len(NextLevel(s)) = (Len(s) + 1) \div 2
           /\ Len(NextLevel(s)) >= 1
<1> DEFINE half == (Len(s) + 1) \div 2
<1>1. half \in Nat /\ half >= 1
  OBVIOUS
<1>2. ASSUME NEW i \in 1 .. half
      PROVE  Hash(s[2*i - 1], IF 2*i <= Len(s) THEN s[2*i] ELSE s[2*i - 1]) \in W \X W
  <2>1. 2*i - 1 \in 1 .. Len(s) /\ (2*i <= Len(s) => 2*i \in 1 .. Len(s))
    OBVIOUS
  <2>2. QED
    BY <2>1 DEF Hash
<1> HIDE DEF half
<1>3. NextLevel(s) = [i \in 1 .. half |->
           Hash(s[2*i - 1], IF 2*i <= Len(s) THEN s[2*i] ELSE s[2*i - 1])]
  BY DEF NextLevel, half
<1>4. NextLevel(s) \in [1 .. half -> W \X W]
  BY <1>2, <1>3
<1>5. QED
  BY <1>1, <1>4 DEF half

\* Every level is a list that is not empty, and shorter than the level before.
LEMMA LevelsShrink ==
    ASSUME NEW S, NEW nodes \in Seq(S), Len(nodes) >= 1, NEW n \in Nat
    PROVE  \E W : /\ Levels(nodes)[n] \in Seq(W)
                  /\ Len(Levels(nodes)[n]) >= 1
                  /\ Len(Levels(nodes)[n]) = 1 \/ Len(Levels(nodes)[n]) + n <= Len(nodes)
<1> DEFINE L == Levels(nodes)
           T == {k \in Nat : \E W : /\ L[k] \in Seq(W)
                                    /\ Len(L[k]) >= 1
                                    /\ Len(L[k]) = 1 \/ Len(L[k]) + k <= Len(nodes)}
<1>1. 0 \in T
  BY LevelsAre
<1>2. ASSUME NEW k \in T PROVE k + 1 \in T
  <2>1. PICK W : /\ L[k] \in Seq(W)
                 /\ Len(L[k]) >= 1
                 /\ Len(L[k]) = 1 \/ Len(L[k]) + k <= Len(nodes)
    OBVIOUS
  <2>2. L[k + 1] = NextLevel(L[k])
    BY LevelsAre
  <2> HIDE DEF L
  <2>3. /\ L[k + 1] \in Seq(W \X W)
        /\ Len(L[k + 1]) = (Len(L[k]) + 1) \div 2
        /\ Len(L[k + 1]) >= 1
    BY <2>1, <2>2, NextLevelIs
  <2>4. PICK a : a = Len(L[k])
    OBVIOUS
  <2>5. PICK b : b = Len(L[k + 1])
    OBVIOUS
  <2>6. PICK c : c = Len(nodes)
    OBVIOUS
  <2>7. a \in Nat /\ c \in Nat /\ k \in Nat
    BY <2>1, <2>4, <2>6
  <2> HIDE DEF T
  <2>8. a >= 1 /\ (a = 1 \/ a + k <= c) /\ b = (a + 1) \div 2
    BY <2>1, <2>3, <2>4, <2>5, <2>6
  <2>9. b = 1 \/ b + (k + 1) <= c
    BY <2>7, <2>8
  <2>10. \E V : /\ L[k + 1] \in Seq(V)
                /\ Len(L[k + 1]) >= 1
                /\ Len(L[k + 1]) = 1 \/ Len(L[k + 1]) + (k + 1) <= Len(nodes)
    BY <2>3, <2>5, <2>6, <2>9
  <2>11. k + 1 \in Nat
    BY <2>7
  <2>12. QED
    BY <2>10, <2>11 DEF T
<1>3. T \in SUBSET Nat
  OBVIOUS
<1> HIDE DEF T
<1>4. n \in T
  BY <1>1, <1>2, <1>3, ClosedIsNat
<1>5. QED
  BY <1>4 DEF T

\* compute_root ends: one level is the first with one node.
LEMMA RoundsAre ==
    ASSUME NEW S, NEW nodes \in Seq(S), Len(nodes) >= 1
    PROVE  /\ Rounds(nodes) \in 0 .. Len(nodes)
           /\ Len(Levels(nodes)[Rounds(nodes)]) = 1
           /\ \A j \in 0 .. Rounds(nodes) - 1 : Len(Levels(nodes)[j]) > 1
<1> DEFINE L == Levels(nodes)
           T == {k \in 0 .. Len(nodes) : Len(L[k]) = 1}
<1>0. Len(nodes) \in Nat
  OBVIOUS
<1>1. \A k \in Nat : Len(L[k]) \in Nat /\ Len(L[k]) >= 1
  <2>1. ASSUME NEW k \in Nat PROVE Len(L[k]) \in Nat /\ Len(L[k]) >= 1
    <3>1. PICK W : L[k] \in Seq(W) /\ Len(L[k]) >= 1
      BY LevelsShrink
    <3> HIDE DEF L
    <3>2. QED
      BY <3>1
  <2>2. QED
    BY <2>1
<1>2. Len(nodes) \in T
  <2>1. PICK n : n = Len(nodes)
    OBVIOUS
  <2>2. n \in Nat /\ (Len(L[n]) = 1 \/ Len(L[n]) + n <= n)
    BY <1>0, <2>1, LevelsShrink
  <2>3. Len(L[n]) = 1
    BY <1>1, <2>2
  <2>4. QED
    BY <1>0, <2>1, <2>3
<1>3. T \in SUBSET Nat
  BY <1>0
<1>4. PICK m \in T : \A k \in T : m <= k
  <2> HIDE DEF T
  <2>1. QED
    BY <1>2, <1>3, LeastNatural
<1>5. m \in 0 .. Len(nodes) /\ Len(L[m]) = 1
  OBVIOUS
<1>6. ASSUME NEW j \in 0 .. m - 1 PROVE Len(L[j]) > 1
  <2>1. j \in 0 .. Len(nodes) /\ j < m
    BY <1>0, <1>5
  <2>2. Len(L[j]) # 1
    BY <1>4, <2>1
  <2>3. PICK a : a = Len(L[j])
    OBVIOUS
  <2>4. a \in Nat /\ a >= 1 /\ a # 1
    BY <1>0, <1>1, <2>1, <2>2, <2>3
  <2>5. a > 1
    BY <2>4
  <2>6. QED
    BY <2>3, <2>5
<1>7. \E k \in 0 .. Len(nodes) :
         /\ Len(Levels(nodes)[k]) = 1
         /\ \A j \in 0 .. k - 1 : Len(Levels(nodes)[j]) > 1
  BY <1>5, <1>6
<1>8. QED
  BY <1>7 DEF Rounds

\* The first level with one node is the last.
LEMMA RoundsIsOnly ==
    ASSUME NEW S, NEW nodes \in Seq(S), Len(nodes) >= 1, NEW k \in Nat,
           Len(Levels(nodes)[k]) = 1,
           \A j \in 0 .. k - 1 : Len(Levels(nodes)[j]) > 1
    PROVE  Rounds(nodes) = k
<1>1. /\ Rounds(nodes) \in Nat
      /\ Len(Levels(nodes)[Rounds(nodes)]) = 1
      /\ \A j \in 0 .. Rounds(nodes) - 1 : Len(Levels(nodes)[j]) > 1
  <2>1. Len(nodes) \in Nat
    OBVIOUS
  <2>2. QED
    BY <2>1, RoundsAre
<1>2. PICK r : r = Rounds(nodes)
  OBVIOUS
<1>3. ~(k < r)
  <2>1. k < r => k \in 0 .. r - 1 /\ ~(1 > 1)
    BY <1>1, <1>2
  <2>2. QED
    BY <1>1, <1>2, <2>1
<1>4. ~(r < k)
  <2>1. r < k => r \in 0 .. k - 1 /\ ~(1 > 1)
    BY <1>1, <1>2
  <2>2. QED
    BY <1>1, <1>2, <2>1
<1>5. QED
  BY <1>1, <1>2, <1>3, <1>4

-----------------------------------------------------------------------------
(* The root binds the leaves *)

\* Lists of one length have levels of one length.
LEMMA LevelsAlike ==
    ASSUME NEW S, NEW s \in Seq(S), NEW t \in Seq(S), Len(s) = Len(t), Len(s) >= 1,
           NEW n \in Nat
    PROVE  \E W : /\ Levels(s)[n] \in Seq(W) /\ Levels(t)[n] \in Seq(W)
                  /\ Len(Levels(s)[n]) = Len(Levels(t)[n])
                  /\ Len(Levels(s)[n]) >= 1
<1> DEFINE A == Levels(s)
           B == Levels(t)
           T == {k \in Nat : \E W : /\ A[k] \in Seq(W) /\ B[k] \in Seq(W)
                                    /\ Len(A[k]) = Len(B[k]) /\ Len(A[k]) >= 1}
<1>1. 0 \in T
  BY LevelsAre
<1>2. ASSUME NEW k \in T PROVE k + 1 \in T
  <2>1. PICK W : /\ A[k] \in Seq(W) /\ B[k] \in Seq(W)
                 /\ Len(A[k]) = Len(B[k]) /\ Len(A[k]) >= 1
    OBVIOUS
  <2>2. A[k + 1] = NextLevel(A[k]) /\ B[k + 1] = NextLevel(B[k])
    BY LevelsAre
  <2> HIDE DEF A, B
  <2>3. /\ A[k + 1] \in Seq(W \X W) /\ B[k + 1] \in Seq(W \X W)
        /\ Len(A[k + 1]) = Len(B[k + 1]) /\ Len(A[k + 1]) >= 1
    BY <2>1, <2>2, NextLevelIs
  <2>4. QED
    BY <2>3
<1>3. T \in SUBSET Nat
  OBVIOUS
<1> HIDE DEF T
<1>4. n \in T
  BY <1>1, <1>2, <1>3, ClosedIsNat
<1>5. QED
  BY <1>4 DEF T

\* Rounds undone one by one: lists that agree on a level agree on those below.
LEMMA LevelsBind ==
    ASSUME NEW S, NEW s \in Seq(S), NEW t \in Seq(S), Len(s) = Len(t), Len(s) >= 1,
           NEW n \in Nat, Levels(s)[n] = Levels(t)[n]
    PROVE  s = t
<1> DEFINE T == {d \in Nat : d <= n => Levels(s)[n - d] = Levels(t)[n - d]}
<1>1. 0 \in T
  OBVIOUS
<1>2. ASSUME NEW d \in T, d + 1 <= n
      PROVE  Levels(s)[n - (d + 1)] = Levels(t)[n - (d + 1)]
  <2> DEFINE k == n - (d + 1)
  <2>1. k \in Nat /\ k + 1 = n - d /\ d <= n
    BY <1>2
  <2>2. Levels(s)[k + 1] = Levels(t)[k + 1]
    BY <1>2, <2>1
  <2> HIDE DEF k
  <2>3. Levels(s)[k + 1] = NextLevel(Levels(s)[k]) /\ Levels(t)[k + 1] = NextLevel(Levels(t)[k])
    BY <2>1, LevelsAre
  <2>4. Levels(s)[k] = Levels(t)[k]
    <3>1. PICK W : /\ Levels(s)[k] \in Seq(W) /\ Levels(t)[k] \in Seq(W)
                   /\ Len(Levels(s)[k]) = Len(Levels(t)[k])
      BY <2>1, LevelsAlike
    <3>2. QED
      BY <2>2, <2>3, <3>1, RoundBinds
  <2>5. QED
    BY <2>4 DEF k
<1>3. T \in SUBSET Nat /\ \A d \in T : d + 1 \in T
  BY <1>2
<1> HIDE DEF T
<1>4. n \in T
  BY <1>1, <1>3, ClosedIsNat
<1>5. Levels(s)[0] = Levels(t)[0]
  BY <1>4 DEF T
<1>6. QED
  BY <1>5, LevelsAre

\* The batches are sequences of leaves.
LEMMA BatchesAreLists == Spec => [](one \in Seq(Leaf) /\ other \in Seq(Leaf))
<1>1. Init => one \in Seq(Leaf) /\ other \in Seq(Leaf)
  BY DEF Init
<1>2. (one \in Seq(Leaf) /\ other \in Seq(Leaf)) /\ [Next]_vars
      => (one \in Seq(Leaf) /\ other \in Seq(Leaf))'
  <2>1. ASSUME one \in Seq(Leaf), other \in Seq(Leaf), Next
        PROVE  one' \in Seq(Leaf) /\ other' \in Seq(Leaf)
    <3>1. PICK hash \in Leaf :
            \/ one' = Push(one, hash) /\ UNCHANGED other
            \/ other' = Push(other, hash) /\ UNCHANGED one
      BY <2>1 DEF Next
    <3>2. Push(one, hash) \in Seq(Leaf) /\ Push(other, hash) \in Seq(Leaf)
      BY <2>1 DEF Push
    <3>3. QED
      BY <2>1, <3>1, <3>2
  <2>2. QED
    BY <2>1 DEF vars
<1>3. QED
  BY <1>1, <1>2, PTL DEF Spec

\* merkle.rs:17-43, main.rs:133-137: for batches of every size, the root and the
\* number of leaves that the job stores determine every leaf and its place.
THEOREM RootsBind == Spec => []RootBindsLeaves
<1>1. ASSUME one \in Seq(Leaf), other \in Seq(Leaf), HasRoot(one), Len(one) = Len(other),
             ComputeRoot(one) = ComputeRoot(other)
      PROVE  one = other
  <2>1. Len(one) >= 1
    BY <1>1 DEF HasRoot
  <2>2. PICK n : n = Rounds(one)
    OBVIOUS
  <2>3. /\ n \in Nat /\ Len(Levels(one)[n]) = 1
        /\ \A j \in 0 .. n - 1 : Len(Levels(one)[j]) > 1
    <3>1. Len(one) \in Nat
      BY <1>1
    <3>2. QED
      BY <1>1, <2>1, <2>2, <3>1, RoundsAre
  <2>4. \A k \in Nat : Len(Levels(other)[k]) = Len(Levels(one)[k])
    BY <1>1, <2>1, LevelsAlike
  <2>5. Rounds(other) = n
    <3>1. /\ other \in Seq(Leaf) /\ Len(other) >= 1
          /\ Len(Levels(other)[n]) = 1
          /\ \A j \in 0 .. n - 1 : Len(Levels(other)[j]) > 1
      BY <1>1, <2>1, <2>3, <2>4
    <3>2. QED
      BY <2>3, <3>1, RoundsIsOnly
  <2>6. Levels(one)[n][1] = Levels(other)[n][1]
    BY <1>1, <2>2, <2>5 DEF ComputeRoot
  <2>7. Levels(one)[n] = Levels(other)[n]
    <3>1. PICK W : Levels(one)[n] \in Seq(W) /\ Levels(other)[n] \in Seq(W)
      BY <1>1, <2>1, <2>3, LevelsAlike
    <3>2. QED
      BY <2>3, <2>4, <2>6, <3>1
  <2>8. QED
    BY <1>1, <2>1, <2>3, <2>7, LevelsBind
<1>2. one \in Seq(Leaf) /\ other \in Seq(Leaf) => RootBindsLeaves
  BY <1>1 DEF RootBindsLeaves
<1>3. QED
  BY <1>2, BatchesAreLists, PTL


-----------------------------------------------------------------------------
(* The trees from the top down, one height after the other *)

\* What g is to the trees of the first n heights.
TreesTo(leaves, n, g) ==
    \A k \in 0 .. n : g[k] = IF k = 0 THEN Lowest(leaves) ELSE Higher(leaves, g[k - 1])

LEMMA TreesToExist ==
    ASSUME NEW leaves, NEW n \in Nat
    PROVE  \E g : TreesTo(leaves, n, g)
<1> DEFINE T == {k \in Nat : \E g : TreesTo(leaves, k, g)}
<1>1. 0 \in T
  <2>1. TreesTo(leaves, 0, [k \in {0} |-> Lowest(leaves)])
    BY DEF TreesTo
  <2>2. QED
    BY <2>1
<1>2. ASSUME NEW k \in T PROVE k + 1 \in T
  <2>1. PICK g : TreesTo(leaves, k, g)
    OBVIOUS
  <2> DEFINE h == [i \in 0 .. k + 1 |-> IF i = k + 1 THEN Higher(leaves, g[k]) ELSE g[i]]
  <2>2. ASSUME NEW i \in 0 .. k + 1
        PROVE  h[i] = IF i = 0 THEN Lowest(leaves) ELSE Higher(leaves, h[i - 1])
    <3>1. CASE i = k + 1
      BY <3>1
    <3>2. CASE i # k + 1
      <4>1. i \in 0 .. k /\ h[i] = g[i]
        BY <3>2
      <4>2. i # 0 => h[i - 1] = g[i - 1]
        BY <4>1
      <4>3. QED
        BY <2>1, <4>1, <4>2 DEF TreesTo
    <3>3. QED
      BY <3>1, <3>2
  <2> HIDE DEF h
  <2>3. TreesTo(leaves, k + 1, h)
    BY <2>2 DEF TreesTo
  <2>4. QED
    BY <2>3
<1>3. T \in SUBSET Nat
  OBVIOUS
<1> HIDE DEF T
<1>4. n \in T
  BY <1>1, <1>2, <1>3, ClosedIsNat
<1>5. QED
  BY <1>4 DEF T

LEMMA TreesToAgree ==
    ASSUME NEW leaves, NEW m \in Nat, NEW n \in Nat, NEW g, NEW h,
           TreesTo(leaves, m, g), TreesTo(leaves, n, h), NEW k \in Nat, k <= m, k <= n
    PROVE  g[k] = h[k]
<1> DEFINE T == {i \in Nat : i <= m /\ i <= n => g[i] = h[i]}
<1>1. 0 \in T
  BY DEF TreesTo
<1>2. ASSUME NEW i \in T, i + 1 <= m, i + 1 <= n PROVE g[i + 1] = h[i + 1]
  <2>1. g[i] = h[i] /\ i \in Nat
    BY <1>2
  <2>2. g[i + 1] = Higher(leaves, g[i])
    BY <1>2, <2>1 DEF TreesTo
  <2>3. h[i + 1] = Higher(leaves, h[i])
    BY <1>2, <2>1 DEF TreesTo
  <2>4. QED
    BY <2>1, <2>2, <2>3
<1>3. T \in SUBSET Nat /\ \A i \in T : i + 1 \in T
  BY <1>2
<1> HIDE DEF T
<1>4. k \in T
  BY <1>1, <1>3, ClosedIsNat
<1>5. QED
  BY <1>4 DEF T

\* The recursion of Trees is one.
LEMMA TreesAre ==
    ASSUME NEW leaves, NEW k \in Nat
    PROVE  Trees(leaves)[k] = IF k = 0 THEN Lowest(leaves)
                               ELSE Higher(leaves, Trees(leaves)[k - 1])
<1> DEFINE To(n) == CHOOSE g : TreesTo(leaves, n, g)
           L == [n \in Nat |-> To(n)[n]]
<1>1. \A n \in Nat : TreesTo(leaves, n, To(n))
  BY TreesToExist
<1> HIDE DEF To
<1>2. ASSUME NEW n \in Nat PROVE L[n] = IF n = 0 THEN Lowest(leaves) ELSE Higher(leaves, L[n - 1])
  <2>1. L[n] = To(n)[n]
    OBVIOUS
  <2>2. To(n)[n] = IF n = 0 THEN Lowest(leaves) ELSE Higher(leaves, To(n)[n - 1])
    BY <1>1 DEF TreesTo
  <2>3. n # 0 => L[n - 1] = To(n)[n - 1]
    BY <1>1, TreesToAgree
  <2>4. QED
    BY <2>1, <2>2, <2>3
<1>3. L = [n \in Nat |-> IF n = 0 THEN Lowest(leaves) ELSE Higher(leaves, L[n - 1])]
  BY <1>2
<1> HIDE DEF L
<1>4. Trees(leaves) = CHOOSE g : g = [n \in Nat |-> IF n = 0 THEN Lowest(leaves) ELSE Higher(leaves, g[n - 1])]
  BY DEF Trees
<1>5. Trees(leaves) = [n \in Nat |-> IF n = 0 THEN Lowest(leaves) ELSE Higher(leaves, Trees(leaves)[n - 1])]
  BY <1>3, <1>4
<1>6. QED
  BY <1>5


-----------------------------------------------------------------------------
(* The levels are the trees *)

LEMMA TimesGrows ==
    ASSUME NEW a \in Nat, NEW b \in Nat, NEW p \in Nat, a <= b
    PROVE  a * p <= b * p
  OBVIOUS

LEMMA RoomIs ==
    ASSUME NEW leaves, NEW h \in Nat
    PROVE  /\ Trees(leaves)[0].room = 1
           /\ Trees(leaves)[h + 1].room = 2 * Trees(leaves)[h].room
           /\ Trees(leaves)[h].room \in Nat
<1> DEFINE T == {k \in Nat : Trees(leaves)[k].room \in Nat}
<1>1. Trees(leaves)[0].room = 1
  <2>1. Trees(leaves)[0] = Lowest(leaves)
    BY TreesAre
  <2>2. Lowest(leaves).room = 1
    BY DEF Lowest
  <2>3. QED
    BY <2>1, <2>2
<1>2. ASSUME NEW k \in Nat PROVE Trees(leaves)[k + 1].room = 2 * Trees(leaves)[k].room
  <2>1. Trees(leaves)[k + 1] = Higher(leaves, Trees(leaves)[k])
    BY TreesAre
  <2>2. QED
    BY <2>1 DEF Higher
<1>3. T \in SUBSET Nat /\ 0 \in T /\ \A k \in T : k + 1 \in T
  BY <1>1, <1>2
<1> HIDE DEF T
<1>4. h \in T
  BY <1>3, ClosedIsNat
<1>5. QED
  BY <1>1, <1>2, <1>4 DEF T

\* A node of a level is the tree over the leaves that are below it, and the level
\* has as many nodes as it takes trees of that height to have room for all leaves.
NodesAreTrees(nodes, h) ==
    LET width == Len(Levels(nodes)[h])
        tree  == Trees(nodes)[h]
    IN  /\ (width - 1) * tree.room < Len(nodes)
        /\ Len(nodes) <= width * tree.room
        /\ \A j \in 1 .. width :
              Levels(nodes)[h][j] = tree.root[1 + (j - 1) * tree.room]

LEMMA LowestLevel ==
    ASSUME NEW S, NEW nodes \in Seq(S), Len(nodes) >= 1
    PROVE  NodesAreTrees(nodes, 0)
<1>1. Levels(nodes)[0] = nodes
  BY LevelsAre
<1>2. Trees(nodes)[0] = Lowest(nodes)
  BY TreesAre
<1>3. PICK n : n = Len(nodes)
  OBVIOUS
<1>4. n \in Nat
  BY <1>3
<1>5. Lowest(nodes).room = 1 /\ \A i \in Nat : Lowest(nodes).root[i] = nodes[i]
  BY DEF Lowest
<1>6. \A j \in 1 .. n : 1 + (j - 1) * 1 = j /\ j \in Nat
  BY <1>4
<1>7. (n - 1) * 1 < n /\ n <= n * 1
  BY <1>4
<1>8. QED
  BY <1>1, <1>2, <1>3, <1>5, <1>6, <1>7 DEF NodesAreTrees

\* A round makes the trees one higher.
LEMMA NextLevelTrees ==
    ASSUME NEW S, NEW nodes \in Seq(S), Len(nodes) >= 1, NEW h \in Nat,
           NodesAreTrees(nodes, h)
    PROVE  NodesAreTrees(nodes, h + 1)
<1>1. PICK s : s = Levels(nodes)[h]
  OBVIOUS
<1>2. PICK below : below = Trees(nodes)[h]
  OBVIOUS
<1>3. PICK w : w = Len(s)
  OBVIOUS
<1>4. PICK p : p = below.room
  OBVIOUS
<1>5. PICK n : n = Len(nodes)
  OBVIOUS
<1>6. PICK v : v = (w + 1) \div 2
  OBVIOUS
<1>7. PICK W : s \in Seq(W) /\ Len(s) >= 1
  BY <1>1, LevelsShrink
<1>8. /\ w \in Nat /\ w >= 1 /\ p \in Nat /\ n \in Nat
      /\ v \in Nat /\ v >= 1
  <2>1. w \in Nat /\ w >= 1 /\ n \in Nat
    BY <1>3, <1>5, <1>7
  <2>2. p \in Nat
    BY <1>2, <1>4, RoomIs
  <2>3. QED
    BY <1>6, <2>1, <2>2
<1>9. /\ (w - 1) * p < n /\ n <= w * p
      /\ \A j \in 1 .. w : s[j] = below.root[1 + (j - 1) * p]
  BY <1>1, <1>2, <1>3, <1>4, <1>5 DEF NodesAreTrees
<1>10. Levels(nodes)[h + 1] = NextLevel(s) /\ Len(NextLevel(s)) = v
  <2>1. Levels(nodes)[h + 1] = NextLevel(s)
    BY <1>1, LevelsAre
  <2>2. Len(NextLevel(s)) = v
    BY <1>3, <1>6, <1>7, NextLevelIs
  <2>3. QED
    BY <2>1, <2>2
<1>11. Trees(nodes)[h + 1] = Higher(nodes, below) /\ Higher(nodes, below).room = 2 * p
  <2>1. Trees(nodes)[h + 1] = Higher(nodes, below)
    BY <1>2, TreesAre
  <2>2. QED
    BY <1>4, <2>1 DEF Higher
<1>12. (v - 1) * (2 * p) < n
  <2>1. v - 1 \in Nat /\ 2 * (v - 1) \in Nat /\ w - 1 \in Nat /\ 2 * (v - 1) <= w - 1
    BY <1>6, <1>8
  <2>2. (2 * (v - 1)) * p <= (w - 1) * p
    BY <1>8, <2>1, TimesGrows
  <2>3. (v - 1) * (2 * p) = (2 * (v - 1)) * p
    BY <1>8, <2>1
  <2>4. (v - 1) * (2 * p) \in Nat /\ (w - 1) * p \in Nat
    BY <1>8, <2>1
  <2>5. QED
    BY <1>8, <1>9, <2>2, <2>3, <2>4
<1>13. n <= v * (2 * p)
  <2>1. 2 * v \in Nat /\ w <= 2 * v
    BY <1>6, <1>8
  <2>2. w * p <= (2 * v) * p
    BY <1>8, <2>1, TimesGrows
  <2>3. v * (2 * p) = (2 * v) * p
    BY <1>8
  <2>4. v * (2 * p) \in Nat /\ w * p \in Nat
    BY <1>8
  <2>5. QED
    BY <1>8, <1>9, <2>2, <2>3, <2>4
<1>14. ASSUME NEW j \in 1 .. v
       PROVE  NextLevel(s)[j] = Higher(nodes, below).root[1 + (j - 1) * (2 * p)]
  <2>0. /\ j \in Nat /\ j >= 1 /\ 2*j - 1 \in 1 .. w
        /\ 2*j <= w => 2*j \in 1 .. w
        /\ ~(2*j <= w) => w = 2*j - 1
    BY <1>6, <1>8
  <2>1. PICK i : i = 1 + (j - 1) * (2 * p)
    OBVIOUS
  <2>2. i \in Nat
    BY <1>8, <2>0, <2>1
  <2>3. i = 1 + ((2*j - 1) - 1) * p /\ i + p = 1 + (2*j - 1) * p
    BY <1>8, <2>0, <2>1
  <2>4. 2*j <= w <=> i + p <= n
    <3>1. ASSUME 2*j <= w PROVE i + p <= n
      <4>1. 2*j - 1 \in Nat /\ w - 1 \in Nat /\ 2*j - 1 <= w - 1
        BY <1>8, <2>0, <3>1
      <4>2. (2*j - 1) * p <= (w - 1) * p
        BY <1>8, <4>1, TimesGrows
      <4>3. (2*j - 1) * p \in Nat /\ (w - 1) * p \in Nat
        BY <1>8, <4>1
      <4>4. QED
        BY <1>8, <1>9, <2>3, <4>2, <4>3
    <3>2. ASSUME ~(2*j <= w) PROVE ~(i + p <= n)
      <4>1. n <= (2*j - 1) * p
        BY <1>9, <2>0, <3>2
      <4>2. (2*j - 1) * p \in Nat
        BY <1>8, <2>0
      <4>3. QED
        BY <1>8, <2>3, <4>1, <4>2
    <3>3. QED
      BY <3>1, <3>2
  <2>5. s[2*j - 1] = below.root[i]
    BY <1>9, <2>0, <2>3
  <2>6. 2*j <= w => s[2*j] = below.root[i + p]
    BY <1>9, <2>0, <2>3
  <2>7. NextLevel(s)[j] = Hash(s[2*j - 1], IF 2*j <= w THEN s[2*j] ELSE s[2*j - 1])
    BY <1>3, <1>6 DEF NextLevel
  <2>8. Higher(nodes, below).root[i]
        = Hash(below.root[i], IF i + p <= n THEN below.root[i + p] ELSE below.root[i])
    BY <1>4, <1>5, <2>2 DEF Higher
  <2>9. NextLevel(s)[j] = Higher(nodes, below).root[i]
    BY <2>4, <2>5, <2>6, <2>7, <2>8
  <2>10. QED
    BY <2>1, <2>9
<1>15. QED
  BY <1>5, <1>10, <1>11, <1>12, <1>13, <1>14 DEF NodesAreTrees

LEMMA LevelsAreTrees ==
    ASSUME NEW S, NEW nodes \in Seq(S), Len(nodes) >= 1, NEW h \in Nat
    PROVE  NodesAreTrees(nodes, h)
<1> DEFINE T == {k \in Nat : NodesAreTrees(nodes, k)}
<1>1. T \in SUBSET Nat /\ 0 \in T /\ \A k \in T : k + 1 \in T
  BY LowestLevel, NextLevelTrees
<1> HIDE DEF T
<1>2. h \in T
  BY <1>1, ClosedIsNat
<1>3. QED
  BY <1>2 DEF T

\* The rounds stop at the height of the smallest tree with room for all leaves.
LEMMA HeightIsRounds ==
    ASSUME NEW S, NEW nodes \in Seq(S), Len(nodes) >= 1
    PROVE  Height(nodes) = Rounds(nodes)
<1>1. PICK r : r = Rounds(nodes)
  OBVIOUS
<1>2. PICK n : n = Len(nodes)
  OBVIOUS
<1>3. n \in Nat
  BY <1>2
<1>4. /\ r \in 0 .. n /\ Len(Levels(nodes)[r]) = 1
      /\ \A j \in 0 .. r - 1 : Len(Levels(nodes)[j]) > 1
  BY <1>1, <1>2, RoundsAre
<1>5. r \in Nat
  BY <1>3, <1>4
<1> DEFINE Room(h) == Trees(nodes)[h].room
<1>6. \A h \in Nat : Room(h) \in Nat
  BY RoomIs
<1>7. n <= Room(r)
  <2>1. n <= 1 * Room(r)
    BY <1>2, <1>4, <1>5, LevelsAreTrees DEF NodesAreTrees
  <2>2. Room(r) \in Nat
    BY <1>5, <1>6
  <2> HIDE DEF Room
  <2>3. QED
    BY <1>3, <2>1, <2>2
<1>8. ASSUME NEW j \in 0 .. r - 1 PROVE Room(j) < n
  <2>1. j \in Nat
    BY <1>5
  <2>2. PICK w : w = Len(Levels(nodes)[j])
    OBVIOUS
  <2>3. w \in Nat /\ w > 1
    <3>1. PICK W : Levels(nodes)[j] \in Seq(W)
      BY <2>1, LevelsShrink
    <3>2. w \in Nat
      BY <2>2, <3>1
    <3>3. w > 1
      BY <1>4, <2>2
    <3>4. QED
      BY <3>2, <3>3
  <2>4. (w - 1) * Room(j) < n
    BY <1>2, <2>1, <2>2, LevelsAreTrees DEF NodesAreTrees
  <2>5. Room(j) \in Nat
    BY <1>6, <2>1
  <2> HIDE DEF Room
  <2>6. w - 1 \in Nat /\ 1 <= w - 1 /\ 1 * Room(j) = Room(j) /\ (w - 1) * Room(j) \in Nat
    BY <2>3, <2>5
  <2>7. 1 * Room(j) <= (w - 1) * Room(j)
    BY <2>5, <2>6, TimesGrows
  <2>8. QED
    BY <1>3, <2>4, <2>5, <2>6, <2>7
<1>9. ASSUME NEW k \in 0 .. n, n <= Room(k), \A g \in 0 .. k - 1 : Room(g) < n
      PROVE  k = r
  <2>1. k \in Nat
    BY <1>3
  <2>2. Room(k) \in Nat /\ Room(r) \in Nat
    BY <1>5, <1>6, <2>1
  <2>3. k < r => k \in 0 .. r - 1
    BY <1>5, <2>1
  <2>4. r < k => r \in 0 .. k - 1
    BY <1>5, <2>1
  <2> HIDE DEF Room
  <2>5. ~(k < r)
    BY <1>3, <1>8, <1>9, <2>2, <2>3
  <2>6. ~(r < k)
    BY <1>3, <1>7, <1>9, <2>2, <2>4
  <2>7. QED
    BY <1>5, <2>1, <2>5, <2>6
<1>10. Height(nodes) = CHOOSE h \in 0 .. n : n <= Room(h) /\ \A g \in 0 .. h - 1 : Room(g) < n
  BY <1>2 DEF Height
<1> HIDE DEF Room
<1>11. Height(nodes) = r
  BY <1>4, <1>7, <1>8, <1>9, <1>10
<1>12. QED
  BY <1>1, <1>11

\* merkle.rs:24-43: for batches of every size, odd levels included, the rounds
\* build the balanced tree of least height over the leaves.
THEOREM RootsAreTrees == Spec => []RootIsBalancedTree
<1>1. ASSUME one \in Seq(Leaf), HasRoot(one)
      PROVE  ComputeRoot(one) = TreeOf(one)
  <2>1. Len(one) >= 1
    BY <1>1 DEF HasRoot
  <2>2. PICK r : r = Rounds(one)
    OBVIOUS
  <2>3. r \in Nat /\ Len(Levels(one)[r]) = 1
    <3>1. Len(one) \in Nat
      BY <1>1
    <3>2. QED
      BY <1>1, <2>1, <2>2, <3>1, RoundsAre
  <2>4. NodesAreTrees(one, r)
    BY <1>1, <2>1, <2>3, LevelsAreTrees
  <2>5. Levels(one)[r][1] = Trees(one)[r].root[1 + (1 - 1) * Trees(one)[r].room]
    BY <2>3, <2>4 DEF NodesAreTrees
  <2>6. 1 + (1 - 1) * Trees(one)[r].room = 1
    <3>1. Trees(one)[r].room \in Nat
      BY <2>3, RoomIs
    <3>2. QED
      BY <3>1
  <2>7. Height(one) = r
    BY <1>1, <2>1, <2>2, HeightIsRounds
  <2>8. QED
    BY <2>2, <2>5, <2>6, <2>7 DEF ComputeRoot, TreeOf
<1>2. one \in Seq(Leaf) => RootIsBalancedTree
  BY <1>1 DEF RootIsBalancedTree
<1>3. QED
  BY <1>2, BatchesAreLists, PTL
=============================================================================
