------------------------------ MODULE Induction ------------------------------
(***************************************************************************)
(* Induction over the natural numbers and over lists, stated with a set    *)
(* where the library states it with an operator: a proof names the set of  *)
(* the numbers, or of the lists, that have the property and shows that it  *)
(* is closed.  With it, what a loop over a list computes: its function of  *)
(* the number of items it has passed exists, is one, and is continued when *)
(* the list is (Folds).                                                    *)
(***************************************************************************)
EXTENDS Naturals, Sequences, WellFoundedInduction, SequenceTheorems, TLAPS

\* A set of natural numbers that is not empty has a least element.
LEMMA LeastNatural ==
    ASSUME NEW T \in SUBSET Nat, T # {}
    PROVE  \E m \in T : \A k \in T : m <= k
<1> DEFINE R == {p \in Nat \X Nat : p[1] < p[2]}
<1>1. IsWellFoundedOn(R, Nat)
  BY NatLessThanWellFounded DEF OpToRel
<1> HIDE DEF R
<1>2. PICK m \in T : \A k \in T : ~ (<<k, m>> \in R)
  BY <1>1, WFMin
<1>3. \A k \in T : ~(k < m)
  BY <1>2 DEF R
<1>4. QED
  BY <1>3

\* A set of natural numbers that has 0, and with each number the next, has all.
LEMMA ClosedIsNat ==
    ASSUME NEW T \in SUBSET Nat, 0 \in T, \A n \in T : n + 1 \in T
    PROVE  T = Nat
<1> DEFINE U == Nat \ T
<1> SUFFICES ASSUME U # {} PROVE FALSE
  OBVIOUS
<1>1. U \in SUBSET Nat
  OBVIOUS
<1> HIDE DEF U
<1>2. PICK m \in U : \A k \in U : m <= k
  BY <1>1, LeastNatural
<1>3. m \in Nat /\ m # 0 /\ m - 1 \in Nat /\ m - 1 \notin U
  BY <1>1, <1>2 DEF U
<1>4. m - 1 \in T
  BY <1>3 DEF U
<1>5. QED
  BY <1>2, <1>3, <1>4 DEF U


\* Every list is made by appending: a set of lists that has the empty one, and with
\* each list those that are one longer, has all.
LEMMA ListsByAppending ==
    ASSUME NEW S, NEW T \in SUBSET Seq(S), <<>> \in T,
           \A s \in T, x \in S : Append(s, x) \in T
    PROVE  T = Seq(S)
<1> DEFINE N == {n \in Nat : \A s \in Seq(S) : Len(s) = n => s \in T}
<1>1. 0 \in N
  <2>1. \A s \in Seq(S) : Len(s) = 0 => s = <<>>
    OBVIOUS
  <2>2. QED
    BY <2>1
<1>2. ASSUME NEW n \in N PROVE n + 1 \in N
  <2>1. ASSUME NEW s \in Seq(S), Len(s) = n + 1 PROVE s \in T
    <3>1. s # <<>>
      BY <2>1
    <3>2. PICK r \in Seq(S), x \in S : s = Append(r, x)
      BY <3>1, SequenceEmptyOrAppend
    <3>3. Len(s) = Len(r) + 1
      BY <3>2, AppendProperties
    <3>4. Len(r) = n
      BY <2>1, <3>3, LenProperties
    <3>5. QED
      BY <3>2, <3>4
  <2>2. QED
    BY <2>1
<1>3. N \in SUBSET Nat
  OBVIOUS
<1> HIDE DEF N
<1>4. N = Nat
  BY <1>1, <1>2, <1>3, ClosedIsNat
<1>5. ASSUME NEW s \in Seq(S) PROVE s \in T
  <2>1. Len(s) \in N
    BY <1>4, LenProperties
  <2>2. QED
    BY <2>1 DEF N
<1>6. QED
  BY <1>5

-----------------------------------------------------------------------------
(* A fold over a list, with the step as a function *)

\* What f says of the first elements of a list, one after the other.
Folds(A, base, step, s, f) ==
    /\ f[0] = base
    /\ \A k \in 1 .. Len(s) : f[k - 1] \in A => f[k] = step[<<f[k - 1], s[k]>>]

LEMMA FoldExists ==
    ASSUME NEW A, NEW E, NEW base \in A, NEW step \in [A \X E -> A], NEW list \in Seq(E)
    PROVE  \E f \in [0 .. Len(list) -> A] : Folds(A, base, step, list, f)
<1> DEFINE T == {s \in Seq(E) : \E f \in [0 .. Len(s) -> A] : Folds(A, base, step, s, f)}
<1>1. <<>> \in T
  <2> DEFINE f == [k \in 0 .. 0 |-> base]
  <2>1. f \in [0 .. 0 -> A] /\ f[0] = base
    OBVIOUS
  <2> HIDE DEF f
  <2>2. Len(<<>>) = 0 /\ <<>> \in Seq(E)
    OBVIOUS
  <2>3. Folds(A, base, step, <<>>, f)
    BY <2>1, <2>2 DEF Folds
  <2>4. QED
    BY <2>1, <2>2, <2>3
<1>2. ASSUME NEW s \in T, NEW x \in E PROVE Append(s, x) \in T
  <2>1. PICK f \in [0 .. Len(s) -> A] : Folds(A, base, step, s, f)
    OBVIOUS
  <2>2. s \in Seq(E)
    OBVIOUS
  <2> DEFINE t == Append(s, x)
  <2>3. /\ t \in Seq(E)
        /\ Len(t) = Len(s) + 1
        /\ \A i \in 1 .. Len(s) : t[i] = s[i]
        /\ t[Len(s) + 1] = x
    BY <2>2, AppendProperties
  <2>4. PICK n \in Nat : n = Len(s)
    BY <2>2, LenProperties
  <2> HIDE DEF t
  <2> DEFINE g == [k \in 0 .. n + 1 |-> IF k = n + 1 THEN step[<<f[n], x>>] ELSE f[k]]
  <2>5. f[n] \in A /\ step[<<f[n], x>>] \in A
    <3>1. n \in 0 .. Len(s)
      BY <2>4
    <3>2. f[n] \in A
      BY <2>1, <3>1
    <3>3. <<f[n], x>> \in A \X E
      BY <3>2
    <3>4. QED
      BY <3>2, <3>3
  <2>6. g \in [0 .. n + 1 -> A]
    BY <2>1, <2>4, <2>5
  <2>7. g[n + 1] = step[<<f[n], x>>] /\ \A k \in 0 .. n : g[k] = f[k]
    OBVIOUS
  <2> HIDE DEF g
  <2>8. g[0] = base
    BY <2>1, <2>7 DEF Folds
  <2>9. ASSUME NEW k \in 1 .. n + 1 PROVE g[k] = step[<<g[k - 1], t[k]>>]
    <3>1. CASE k = n + 1
      <4>1. k - 1 = n /\ n \in 0 .. n /\ t[k] = x
        BY <2>3, <2>4, <3>1
      <4>2. g[k - 1] = f[n]
        BY <2>7, <4>1
      <4>3. QED
        BY <2>7, <3>1, <4>1, <4>2
    <3>2. CASE k \in 1 .. n
      <4>1. g[k] = f[k] /\ g[k - 1] = f[k - 1] /\ t[k] = s[k] /\ f[k - 1] \in A
        BY <2>1, <2>3, <2>4, <2>7, <3>2
      <4>2. QED
        BY <2>1, <2>4, <3>2, <4>1 DEF Folds
    <3>3. QED
      BY <3>1, <3>2
  <2>10. Folds(A, base, step, t, g)
    BY <2>3, <2>4, <2>8, <2>9 DEF Folds
  <2>11. QED
    BY <2>3, <2>4, <2>6, <2>10 DEF t
<1>3. T \in SUBSET Seq(E)
  OBVIOUS
<1> HIDE DEF T
<1>4. list \in T
  BY <1>1, <1>2, <1>3, ListsByAppending
<1>5. QED
  BY <1>4 DEF T

\* Two folds agree as long as their lists do.
LEMMA FoldsAgree ==
    ASSUME NEW A, NEW E, NEW base \in A, NEW step \in [A \X E -> A],
           NEW s \in Seq(E), NEW t \in Seq(E), NEW f, NEW g,
           Folds(A, base, step, s, f), Folds(A, base, step, t, g),
           NEW n \in Nat, n <= Len(s), n <= Len(t),
           \A i \in 1 .. n : s[i] = t[i]
    PROVE  f[n] = g[n] /\ f[n] \in A
<1> DEFINE T == {k \in Nat : k <= n => f[k] = g[k] /\ f[k] \in A}
<1>1. 0 \in T
  BY DEF Folds
<1>2. ASSUME NEW k \in T, k + 1 <= n PROVE f[k + 1] = g[k + 1] /\ f[k + 1] \in A
  <2>1. k \in Nat /\ k <= n /\ f[k] = g[k] /\ f[k] \in A
    BY <1>2
  <2>2. k + 1 \in 1 .. Len(s) /\ k + 1 \in 1 .. Len(t) /\ k + 1 \in 1 .. n
    BY <1>2, <2>1, LenProperties
  <2>3. (k + 1) - 1 = k
    BY <2>1
  <2>4. f[k + 1] = step[<<f[k], s[k + 1]>>]
    BY <2>1, <2>2, <2>3 DEF Folds
  <2>5. g[k + 1] = step[<<g[k], t[k + 1]>>]
    BY <2>1, <2>2, <2>3 DEF Folds
  <2>6. s[k + 1] \in E /\ s[k + 1] = t[k + 1]
    BY <2>2, ElementOfSeq
  <2>7. QED
    BY <2>1, <2>4, <2>5, <2>6
<1>3. T \in SUBSET Nat /\ \A k \in T : k + 1 \in T
  BY <1>2
<1> HIDE DEF T
<1>4. n \in T
  BY <1>1, <1>3, ClosedIsNat
<1>5. QED
  BY <1>4 DEF T


LEMMA FoldsIn ==
    ASSUME NEW A, NEW E, NEW base \in A, NEW step \in [A \X E -> A],
           NEW s \in Seq(E), NEW f, Folds(A, base, step, s, f)
    PROVE  f[Len(s)] \in A
<1>1. PICK n \in Nat : n = Len(s)
  BY LenProperties
<1>2. n <= Len(s) /\ \A i \in 1 .. n : s[i] = s[i]
  BY <1>1
<1>3. f[n] \in A
  BY <1>2, FoldsAgree
<1>4. QED
  BY <1>1, <1>3

Continues(step, s, t, f, g) == g[Len(t)] = step[<<f[Len(s)], t[Len(t)]>>]

OneLonger(s, t) == Len(t) = Len(s) + 1 /\ \A i \in 1 .. Len(s) : s[i] = t[i]

LEMMA AppendsOne ==
    ASSUME NEW E, NEW s \in Seq(E), NEW x \in E
    PROVE  /\ Append(s, x) \in Seq(E)
           /\ OneLonger(s, Append(s, x))
           /\ Append(s, x)[Len(Append(s, x))] = x
  BY AppendProperties DEF OneLonger

LEMMA FoldsOnce ==
    ASSUME NEW A, NEW E, NEW base \in A, NEW step \in [A \X E -> A],
           NEW s \in Seq(E), NEW t \in Seq(E), OneLonger(s, t),
           NEW f, NEW g, Folds(A, base, step, s, f), Folds(A, base, step, t, g)
    PROVE  Continues(step, s, t, f, g)
<1>1. PICK n \in Nat : n = Len(s)
  BY LenProperties
<1>2. n <= Len(s) /\ n <= Len(t)
  BY <1>1 DEF OneLonger
<1>3. \A i \in 1 .. n : s[i] = t[i]
  BY <1>1 DEF OneLonger
<1>4. f[n] = g[n] /\ f[n] \in A
  BY <1>2, <1>3, FoldsAgree
<1>5. Len(t) \in 1 .. Len(t) /\ Len(t) - 1 = n
  BY <1>1 DEF OneLonger
<1>6. g[Len(t)] = step[<<g[n], t[Len(t)]>>]
  BY <1>4, <1>5 DEF Folds
<1>7. QED
  BY <1>1, <1>4, <1>6 DEF Continues
=============================================================================
