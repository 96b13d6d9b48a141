---------------------------- MODULE ListPageProofs ----------------------------
(* What the files of a deployment are, and what a list page makes of them. *)
EXTENDS ListPage, Induction

-----------------------------------------------------------------------------
(* The loops over lists *)

LEMMA KeptIs ==
    ASSUME NEW S, NEW set, NEW list \in Seq(S), NEW x \in S
    PROVE  /\ Kept(<<>>, set) = <<>>
           /\ Kept(list, set) \in Seq(S)
           /\ Kept(Append(list, x), set) =
                 IF x \in set THEN Append(Kept(list, set), x) ELSE Kept(list, set)
<1> DEFINE step == [p \in Seq(S) \X S |-> IF p[2] \in set THEN Append(p[1], p[2]) ELSE p[1]]
           Body(s, f) == [n \in 0 .. Len(s) |->
                            IF n = 0 THEN <<>>
                            ELSE IF s[n] \in set THEN Append(f[n - 1], s[n]) ELSE f[n - 1]]
           Keep(s) == CHOOSE f : f = Body(s, f)
<1>0. PICK none : none = <<>>
  OBVIOUS
<1>1. step \in [Seq(S) \X S -> Seq(S)] /\ none \in Seq(S)
  BY <1>0
<1>2. \A r \in Seq(S), y \in S :
         step[<<r, y>>] = IF y \in set THEN Append(r, y) ELSE r
  OBVIOUS
<1> HIDE DEF step
<1>3. ASSUME NEW s \in Seq(S)
      PROVE  Folds(Seq(S), none, step, s, Keep(s))
  <2>1. PICK f \in [0 .. Len(s) -> Seq(S)] : Folds(Seq(S), none, step, s, f)
    BY <1>1, FoldExists
  <2>2. ASSUME NEW n \in 1 .. Len(s)
        PROVE  f[n] = IF s[n] \in set THEN Append(f[n - 1], s[n]) ELSE f[n - 1]
    <3>1. n - 1 \in 0 .. Len(s) /\ s[n] \in S
      BY ElementOfSeq, LenProperties
    <3>2. f[n - 1] \in Seq(S)
      BY <3>1
    <3>3. f[n] = step[<<f[n - 1], s[n]>>]
      BY <2>1, <3>2 DEF Folds
    <3>4. QED
      BY <1>2, <3>1, <3>2, <3>3
  <2>3. f[0] = <<>>
    BY <1>0, <2>1 DEF Folds
  <2>4. f = Body(s, f)
    <3>1. f = [n \in 0 .. Len(s) |-> f[n]]
      OBVIOUS
    <3>2. ASSUME NEW n \in 0 .. Len(s)
          PROVE  f[n] = IF n = 0 THEN <<>>
                        ELSE IF s[n] \in set THEN Append(f[n - 1], s[n]) ELSE f[n - 1]
      <4>1. n # 0 => n \in 1 .. Len(s)
        BY LenProperties
      <4>2. QED
        BY <2>2, <2>3, <4>1
    <3>3. QED
      BY <3>1, <3>2
  <2>5. Keep(s) = Body(s, Keep(s))
    BY <2>4
  <2>6. PICK k : k = Keep(s)
    OBVIOUS
  <2>7. k = Body(s, k)
    BY <2>5, <2>6
  <2>8. k[0] = none
    BY <1>0, <2>7, LenProperties
  <2>9. ASSUME NEW n \in 1 .. Len(s), k[n - 1] \in Seq(S)
        PROVE  k[n] = step[<<k[n - 1], s[n]>>]
    <3>1. n \in 0 .. Len(s) /\ n # 0 /\ s[n] \in S
      BY ElementOfSeq, LenProperties
    <3>2. k[n] = IF s[n] \in set THEN Append(k[n - 1], s[n]) ELSE k[n - 1]
      BY <2>7, <3>1
    <3>3. QED
      BY <1>2, <2>9, <3>1, <3>2
  <2>10. Folds(Seq(S), none, step, s, k)
    BY <2>8, <2>9 DEF Folds
  <2>11. QED
    BY <2>6, <2>10
<1>4. \A s : Kept(s, set) = Keep(s)[Len(s)]
  BY DEF Kept
<1> HIDE DEF Keep
<1>5. ASSUME NEW s \in Seq(S) PROVE Kept(s, set) \in Seq(S)
  <2>1. PICK k : k = Keep(s)
    OBVIOUS
  <2>2. Folds(Seq(S), none, step, s, k)
    BY <1>3, <2>1
  <2>3. k[Len(s)] \in Seq(S)
    BY <1>1, <2>2, FoldsIn
  <2>4. QED
    BY <1>4, <2>1, <2>3
<1>6. Kept(<<>>, set) = <<>>
  <2>1. Len(<<>>) = 0 /\ <<>> \in Seq(S)
    BY EmptySeq
  <2>2. Folds(Seq(S), none, step, <<>>, Keep(<<>>))
    BY <1>3, <2>1
  <2>3. Keep(<<>>)[0] = none
    BY <2>2 DEF Folds
  <2>4. QED
    BY <1>0, <1>4, <2>1, <2>3
<1>7. Kept(Append(list, x), set) = step[<<Kept(list, set), x>>]
  <2>1. PICK t : t = Append(list, x)
    OBVIOUS
  <2>2. /\ t \in Seq(S)
        /\ OneLonger(list, t)
        /\ t[Len(t)] = x
    BY <2>1, AppendsOne
  <2>3. PICK k, l : k = Keep(list) /\ l = Keep(t)
    OBVIOUS
  <2>4. Folds(Seq(S), none, step, list, k) /\ Folds(Seq(S), none, step, t, l)
    BY <1>3, <2>2, <2>3
  <2>5. l[Len(t)] = step[<<k[Len(list)], t[Len(t)]>>]
    <3>1. t \in Seq(S)
      BY <2>2
    <3>2. OneLonger(list, t)
      BY <2>2
    <3>3. Folds(Seq(S), none, step, list, k)
      BY <2>4
    <3>4. Folds(Seq(S), none, step, t, l)
      BY <2>4
    <3>5. Continues(step, list, t, k, l)
      BY <1>1, <3>1, <3>2, <3>3, <3>4, FoldsOnce
    <3>6. QED
      BY <3>5 DEF Continues
  <2>6. QED
    BY <1>4, <2>1, <2>2, <2>3, <2>5
<1>8. QED
  BY <1>2, <1>5, <1>6, <1>7


LEMMA FlattenedIs ==
    ASSUME NEW S, NEW lists \in Seq(Seq(S)), NEW last \in Seq(S)
    PROVE  /\ FlattenSeq(<<>>) = <<>>
           /\ FlattenSeq(lists) \in Seq(S)
           /\ FlattenSeq(Append(lists, last)) = FlattenSeq(lists) \o last
<1>0. PICK none : none = <<>>
  OBVIOUS
<1> DEFINE step == [p \in Seq(S) \X Seq(S) |-> p[1] \o p[2]]
           Body(r, f) == [i \in 1 .. Len(r) |-> IF i = 1 THEN r[i] ELSE f[i - 1] \o r[i]]
           Flat(r) == CHOOSE f : f = Body(r, f)
           From(r) == [i \in 0 .. Len(r) |-> IF i = 0 THEN none ELSE Flat(r)[i]]
<1>1. step \in [Seq(S) \X Seq(S) -> Seq(S)] /\ none \in Seq(S)
  BY <1>0
<1>2. \A r \in Seq(S), y \in Seq(S) : step[<<r, y>>] = r \o y
  OBVIOUS
<1> HIDE DEF step
<1>3. ASSUME NEW r \in Seq(Seq(S))
      PROVE  Folds(Seq(S), none, step, r, From(r))
  <2>1. PICK f \in [0 .. Len(r) -> Seq(S)] : Folds(Seq(S), none, step, r, f)
    BY <1>1, FoldExists
  <2>2. ASSUME NEW i \in 1 .. Len(r) PROVE f[i] = f[i - 1] \o r[i]
    <3>1. i - 1 \in 0 .. Len(r) /\ r[i] \in Seq(S)
      BY ElementOfSeq, LenProperties
    <3>2. f[i - 1] \in Seq(S)
      BY <3>1
    <3>3. f[i] = step[<<f[i - 1], r[i]>>]
      BY <2>1, <3>2 DEF Folds
    <3>4. QED
      BY <1>2, <3>1, <3>2, <3>3
  <2>3. f[0] = <<>>
    BY <1>0, <2>1 DEF Folds
  <2> DEFINE g == [i \in 1 .. Len(r) |-> f[i]]
  <2>4. ASSUME NEW i \in 1 .. Len(r)
        PROVE  g[i] = IF i = 1 THEN r[i] ELSE g[i - 1] \o r[i]
    <3>1. g[i] = f[i] /\ r[i] \in Seq(S)
      BY ElementOfSeq
    <3>2. CASE i = 1
      <4>1. f[i] = <<>> \o r[i]
        <5>1. i - 1 = 0
          BY <3>2
        <5>2. f[i] = f[0] \o r[i]
          BY <2>2, <5>1
        <5>3. QED
          BY <2>3, <5>2
      <4>2. QED
        BY <3>1, <3>2, <4>1, ConcatEmptySeq
    <3>3. CASE i # 1
      <4>1. i - 1 \in 1 .. Len(r)
        BY <3>3, LenProperties
      <4>2. QED
        BY <2>2, <3>1, <3>3, <4>1
    <3>4. QED
      BY <3>2, <3>3
  <2>5. g = Body(r, g)
    BY <2>4
  <2> HIDE DEF g
  <2>6. Flat(r) = Body(r, Flat(r))
    BY <2>5
  <2>7. PICK k, h : k = Flat(r) /\ h = From(r)
    OBVIOUS
  <2>8. k = Body(r, k)
    BY <2>6, <2>7
  <2>9. h[0] = none /\ \A i \in 1 .. Len(r) : h[i] = k[i]
    <3>1. h = [i \in 0 .. Len(r) |-> IF i = 0 THEN none ELSE k[i]]
      BY <2>7
    <3>2. Len(r) \in Nat
      BY LenProperties
    <3>3. QED
      BY <3>1, <3>2
  <2>10. ASSUME NEW i \in 1 .. Len(r), h[i - 1] \in Seq(S)
         PROVE  h[i] = step[<<h[i - 1], r[i]>>]
    <3>1. r[i] \in Seq(S)
      BY ElementOfSeq
    <3>2. k[i] = IF i = 1 THEN r[i] ELSE k[i - 1] \o r[i]
      BY <2>8
    <3>3. CASE i = 1
      <4>1. h[i - 1] = none
        BY <2>9, <3>3
      <4>2. step[<<none, r[i]>>] = <<>> \o r[i]
        BY <1>0, <1>1, <1>2, <3>1
      <4>3. QED
        BY <2>9, <3>1, <3>2, <3>3, <4>1, <4>2, ConcatEmptySeq
    <3>4. CASE i # 1
      <4>1. i - 1 \in 1 .. Len(r)
        BY <3>4, LenProperties
      <4>2. h[i] = h[i - 1] \o r[i]
        BY <2>9, <3>2, <3>4, <4>1
      <4>3. QED
        BY <1>2, <2>10, <3>1, <4>2
    <3>5. QED
      BY <3>3, <3>4
  <2>11. Folds(Seq(S), none, step, r, h)
    BY <2>9, <2>10 DEF Folds
  <2>12. QED
    BY <2>7, <2>11
<1>4. ASSUME NEW r \in Seq(Seq(S)) PROVE FlattenSeq(r) = From(r)[Len(r)]
  <2>1. FlattenSeq(r) = IF Len(r) = 0 THEN r ELSE Flat(r)[Len(r)]
    BY DEF FlattenSeq
  <2>2. CASE Len(r) = 0
    <3>1. r = <<>> /\ From(r)[Len(r)] = none
      BY <2>2
    <3>2. QED
      BY <1>0, <2>1, <2>2, <3>1
  <2>3. CASE Len(r) # 0
    <3>1. Len(r) \in 0 .. Len(r)
      BY LenProperties
    <3>2. QED
      BY <2>1, <2>3, <3>1
  <2>4. QED
    BY <2>2, <2>3
<1> HIDE DEF From, Flat
<1>5. ASSUME NEW r \in Seq(Seq(S)) PROVE FlattenSeq(r) \in Seq(S)
  <2>1. PICK k : k = From(r)
    OBVIOUS
  <2>2. Folds(Seq(S), none, step, r, k)
    BY <1>3, <2>1
  <2>3. k[Len(r)] \in Seq(S)
    BY <1>1, <2>2, FoldsIn
  <2>4. QED
    BY <1>4, <2>1, <2>3
<1>6. FlattenSeq(<<>>) = <<>>
  BY DEF FlattenSeq
<1>7. FlattenSeq(Append(lists, last)) = step[<<FlattenSeq(lists), last>>]
  <2>1. PICK t : t = Append(lists, last)
    OBVIOUS
  <2>2. /\ t \in Seq(Seq(S))
        /\ OneLonger(lists, t)
        /\ t[Len(t)] = last
    BY <2>1, AppendsOne
  <2>3. PICK k, l : k = From(lists) /\ l = From(t)
    OBVIOUS
  <2>4. Folds(Seq(S), none, step, lists, k)
    BY <1>3, <2>3
  <2>5. Folds(Seq(S), none, step, t, l)
    BY <1>3, <2>2, <2>3
  <2>6. Continues(step, lists, t, k, l)
    <3>1. t \in Seq(Seq(S))
      BY <2>2
    <3>2. OneLonger(lists, t)
      BY <2>2
    <3>3. QED
      BY <1>1, <2>4, <2>5, <3>1, <3>2, FoldsOnce
  <2>7. l[Len(t)] = step[<<k[Len(lists)], t[Len(t)]>>]
    BY <2>6 DEF Continues
  <2>8. QED
    BY <1>4, <2>1, <2>2, <2>3, <2>7
<1>8. QED
  BY <1>2, <1>5, <1>6, <1>7

LEMMA FillIs ==
    ASSUME NEW S, NEW items \in Seq(S), NEW x \in S
    PROVE  /\ Fill(<<>>) = [written |-> <<>>, page |-> <<>>]
           /\ Fill(items) \in [written : Seq(Seq(S)), page : Seq(S)]
           /\ Fill(Append(items, x)) = Added(Fill(items), x)
<1>0. PICK none : none = [written |-> <<>>, page |-> <<>>]
  OBVIOUS
<1> DEFINE A == [written : Seq(Seq(S)), page : Seq(S)]
           step == [p \in A \X S |-> Added(p[1], p[2])]
           Body(s, f) == [n \in 0 .. Len(s) |->
                            IF n = 0 THEN [written |-> <<>>, page |-> <<>>]
                            ELSE Added(f[n - 1], s[n])]
           Filled(s) == CHOOSE f : f = Body(s, f)
<1>1. none \in A
  <2>1. <<>> \in Seq(Seq(S)) /\ <<>> \in Seq(S)
    OBVIOUS
  <2>2. QED
    BY <1>0, <2>1
<1>2. ASSUME NEW a \in A, NEW y \in S PROVE Added(a, y) \in A
  <2>1. Append(a.page, y) \in Seq(S)
    OBVIOUS
  <2>2. PICK p \in Seq(S) : p = Append(a.page, y)
    BY <2>1
  <2>3. Append(a.written, p) \in Seq(Seq(S)) /\ <<>> \in Seq(S)
    OBVIOUS
  <2>4. PICK w \in Seq(Seq(S)), e \in Seq(S) : w = Append(a.written, p) /\ e = <<>>
    BY <2>3
  <2>5. Added(a, y) = IF Len(p) = PageSize THEN [written |-> w, page |-> e]
                      ELSE [written |-> a.written, page |-> p]
    BY <2>2, <2>4 DEF Added
  <2>6. a.written \in Seq(Seq(S))
    OBVIOUS
  <2>7. QED
    BY <2>5, <2>6
<1> HIDE DEF A
<1>3. step \in [A \X S -> A] /\ \A a \in A, y \in S : step[<<a, y>>] = Added(a, y)
  BY <1>2
<1> HIDE DEF step
<1>4. ASSUME NEW s \in Seq(S)
      PROVE  Folds(A, none, step, s, Filled(s))
  <2>1. PICK f \in [0 .. Len(s) -> A] : Folds(A, none, step, s, f)
    BY <1>1, <1>3, FoldExists
  <2>2. ASSUME NEW n \in 1 .. Len(s) PROVE f[n] = Added(f[n - 1], s[n])
    <3>1. n - 1 \in 0 .. Len(s) /\ s[n] \in S
      BY ElementOfSeq, LenProperties
    <3>2. f[n - 1] \in A
      BY <3>1
    <3>3. f[n] = step[<<f[n - 1], s[n]>>]
      BY <2>1, <3>2 DEF Folds
    <3>4. QED
      BY <1>3, <3>1, <3>2, <3>3
  <2>3. f[0] = [written |-> <<>>, page |-> <<>>]
    BY <1>0, <2>1 DEF Folds
  <2>4. f = Body(s, f)
    <3>1. f = [n \in 0 .. Len(s) |-> f[n]]
      OBVIOUS
    <3>2. ASSUME NEW n \in 0 .. Len(s)
          PROVE  f[n] = IF n = 0 THEN [written |-> <<>>, page |-> <<>>]
                        ELSE Added(f[n - 1], s[n])
      <4>1. n # 0 => n \in 1 .. Len(s)
        BY LenProperties
      <4>2. QED
        BY <2>2, <2>3, <4>1
    <3>3. QED
      BY <3>1, <3>2
  <2>5. Filled(s) = Body(s, Filled(s))
    BY <2>4
  <2>6. PICK k : k = Filled(s)
    OBVIOUS
  <2>7. k = Body(s, k)
    BY <2>5, <2>6
  <2>8. k[0] = none
    BY <1>0, <2>7, LenProperties
  <2>9. ASSUME NEW n \in 1 .. Len(s), k[n - 1] \in A
        PROVE  k[n] = step[<<k[n - 1], s[n]>>]
    <3>1. n \in 0 .. Len(s) /\ n # 0 /\ s[n] \in S
      BY ElementOfSeq, LenProperties
    <3>2. k[n] = Added(k[n - 1], s[n])
      BY <2>7, <3>1
    <3>3. QED
      BY <1>3, <2>9, <3>1, <3>2
  <2>10. Folds(A, none, step, s, k)
    BY <2>8, <2>9 DEF Folds
  <2>11. QED
    BY <2>6, <2>10
<1>5. \A s : Fill(s) = Filled(s)[Len(s)]
  BY DEF Fill
<1> HIDE DEF Filled
<1>6. Fill(items) \in A
  <2>1. PICK k : k = Filled(items)
    OBVIOUS
  <2>2. Folds(A, none, step, items, k)
    BY <1>4, <2>1
  <2>3. k[Len(items)] \in A
    BY <1>1, <1>3, <2>2, FoldsIn
  <2>4. QED
    BY <1>5, <2>1, <2>3
<1>7. Fill(<<>>) = none
  <2>1. Len(<<>>) = 0 /\ <<>> \in Seq(S)
    BY EmptySeq
  <2>2. Folds(A, none, step, <<>>, Filled(<<>>))
    BY <1>4, <2>1
  <2>3. Filled(<<>>)[0] = none
    BY <2>2 DEF Folds
  <2>4. QED
    BY <1>5, <2>1, <2>3
<1>8. Fill(Append(items, x)) = step[<<Fill(items), x>>]
  <2>1. PICK t : t = Append(items, x)
    OBVIOUS
  <2>2. /\ t \in Seq(S)
        /\ OneLonger(items, t)
        /\ t[Len(t)] = x
    BY <2>1, AppendsOne
  <2>3. PICK k, l : k = Filled(items) /\ l = Filled(t)
    OBVIOUS
  <2>4. Folds(A, none, step, items, k)
    BY <1>4, <2>3
  <2>5. Folds(A, none, step, t, l)
    BY <1>4, <2>2, <2>3
  <2>6. Continues(step, items, t, k, l)
    <3>1. t \in Seq(S)
      BY <2>2
    <3>2. OneLonger(items, t)
      BY <2>2
    <3>3. QED
      BY <1>1, <1>3, <2>4, <2>5, <3>1, <3>2, FoldsOnce
  <2>7. l[Len(t)] = step[<<k[Len(items)], t[Len(t)]>>]
    BY <2>6 DEF Continues
  <2>8. QED
    BY <1>5, <2>1, <2>2, <2>3, <2>7
<1>9. QED
  BY <1>0, <1>3, <1>6, <1>7, <1>8 DEF A


-----------------------------------------------------------------------------
(* What the loops keep *)

LEMMA KeptOfNone ==
    ASSUME NEW set
    PROVE  Kept(<<>>, set) = <<>>
<1>1. PICK none : none = <<>>
  OBVIOUS
<1>2. none \in Seq(Nat) /\ 0 \in Nat
  BY <1>1, EmptySeq
<1>3. QED
  BY <1>2, KeptIs

LEMMA MembersOfAppended ==
    ASSUME NEW S, NEW s \in Seq(S), NEW x \in S
    PROVE  ToSet(Append(s, x)) = ToSet(s) \cup {x}
<1>1. PICK n \in Nat, t \in Seq(S) : n = Len(s) /\ t = Append(s, x)
  <2>1. Append(s, x) \in Seq(S) /\ Len(s) \in Nat
    BY LenProperties, AppendProperties
  <2>2. QED
    BY <2>1
<1>2. t \in Seq(S) /\ Len(t) = n + 1 /\ t[n + 1] = x /\ \A i \in 1 .. n : t[i] = s[i]
  BY <1>1, AppendProperties
<1>3. DOMAIN s = 1 .. n /\ DOMAIN t = 1 .. n + 1
  BY <1>1, <1>2, LenProperties
<1>4. ASSUME NEW y \in ToSet(t) PROVE y \in ToSet(s) \cup {x}
  <2>1. PICK i \in 1 .. n + 1 : y = t[i]
    BY <1>3 DEF ToSet
  <2>2. i \in 1 .. n \/ i = n + 1
    OBVIOUS
  <2>3. QED
    BY <1>2, <1>3, <2>1, <2>2 DEF ToSet
<1>5. ASSUME NEW y \in ToSet(s) \cup {x} PROVE y \in ToSet(t)
  <2>1. CASE y = x
    <3>1. n + 1 \in DOMAIN t
      BY <1>3
    <3>2. QED
      BY <1>2, <2>1, <3>1 DEF ToSet
  <2>2. CASE y \in ToSet(s)
    <3>1. PICK i \in 1 .. n : y = s[i]
      BY <1>3, <2>2 DEF ToSet
    <3>2. i \in DOMAIN t /\ t[i] = y
      BY <1>2, <1>3, <3>1
    <3>3. QED
      BY <3>2 DEF ToSet
  <2>3. QED
    BY <2>1, <2>2
<1>6. QED
  BY <1>1, <1>4, <1>5

\* What is kept is what was there and is in the set.
LEMMA KeptMembers ==
    ASSUME NEW S, NEW set, NEW list \in Seq(S)
    PROVE  ToSet(Kept(list, set)) = ToSet(list) \cap set
<1> DEFINE T == {s \in Seq(S) : ToSet(Kept(s, set)) = ToSet(s) \cap set}
<1>1. <<>> \in T
  <2>1. Kept(<<>>, set) = <<>>
    BY KeptOfNone
  <2>2. ToSet(<<>>) = {} /\ <<>> \in Seq(S)
    BY DEF ToSet
  <2>3. QED
    BY <2>1, <2>2
<1>2. ASSUME NEW s \in T, NEW x \in S PROVE Append(s, x) \in T
  <2>1. /\ s \in Seq(S)
        /\ ToSet(Kept(s, set)) = ToSet(s) \cap set
    OBVIOUS
  <2>2. PICK k : k = Kept(s, set)
    OBVIOUS
  <2>3. /\ k \in Seq(S)
        /\ Kept(Append(s, x), set) = IF x \in set THEN Append(k, x) ELSE k
    BY <2>1, <2>2, KeptIs
  <2>4. ToSet(Append(s, x)) = ToSet(s) \cup {x} /\ ToSet(Append(k, x)) = ToSet(k) \cup {x}
    BY <2>1, <2>3, MembersOfAppended
  <2>5. Append(s, x) \in Seq(S)
    BY <2>1, AppendProperties
  <2>6. CASE x \in set
    <3>1. ToSet(Kept(Append(s, x), set)) = ToSet(k) \cup {x}
      BY <2>3, <2>4, <2>6
    <3>2. QED
      BY <2>1, <2>2, <2>4, <2>5, <2>6, <3>1
  <2>7. CASE x \notin set
    <3>1. ToSet(Kept(Append(s, x), set)) = ToSet(k)
      BY <2>3, <2>7
    <3>2. QED
      BY <2>1, <2>2, <2>4, <2>5, <2>7, <3>1
  <2>8. QED
    BY <2>6, <2>7
<1>3. T \in SUBSET Seq(S)
  OBVIOUS
<1> HIDE DEF T
<1>4. list \in T
  BY <1>1, <1>2, <1>3, ListsByAppending
<1>5. QED
  BY <1>4 DEF T

LEMMA ListOfMembers ==
    ASSUME NEW S, NEW R, NEW s \in Seq(S), ToSet(s) \subseteq R
    PROVE  s \in Seq(R)
<1>1. PICK n \in Nat : n = Len(s)
  BY LenProperties
<1>2. DOMAIN s = 1 .. n /\ s \in [1 .. n -> S]
  BY <1>1, LenProperties
<1>3. \A i \in 1 .. n : s[i] \in R
  BY <1>2 DEF ToSet
<1>4. s \in [1 .. n -> R]
  BY <1>2, <1>3
<1>5. QED
  BY <1>4

LEMMA KeptAllOf ==
    ASSUME NEW S, NEW set, NEW list \in Seq(S), S \subseteq set
    PROVE  Kept(list, set) = list
<1> DEFINE T == {s \in Seq(S) : Kept(s, set) = s}
<1>1. <<>> \in T
  <2>1. <<>> \in Seq(S)
    OBVIOUS
  <2>2. QED
    BY <2>1, KeptOfNone
<1>2. ASSUME NEW s \in T, NEW x \in S PROVE Append(s, x) \in T
  <2>1. s \in Seq(S) /\ Kept(s, set) = s /\ x \in set
    OBVIOUS
  <2>2. Kept(Append(s, x), set) = Append(s, x)
    BY <2>1, KeptIs
  <2>3. QED
    BY <2>1, <2>2, AppendProperties
<1>3. T \in SUBSET Seq(S)
  OBVIOUS
<1> HIDE DEF T
<1>4. list \in T
  BY <1>1, <1>2, <1>3, ListsByAppending
<1>5. QED
  BY <1>4 DEF T

\* Sets that agree on the list keep the same of it.
LEMMA KeptAlike ==
    ASSUME NEW S, NEW list \in Seq(S), NEW A, NEW B, ToSet(list) \cap A = ToSet(list) \cap B
    PROVE  Kept(list, A) = Kept(list, B)
<1> DEFINE T == {s \in Seq(S) : ToSet(s) \cap A = ToSet(s) \cap B => Kept(s, A) = Kept(s, B)}
<1>1. <<>> \in T
  <2>1. <<>> \in Seq(S)
    OBVIOUS
  <2>2. QED
    BY <2>1, KeptOfNone
<1>2. ASSUME NEW s \in T, NEW x \in S PROVE Append(s, x) \in T
  <2>1. s \in Seq(S) /\ (ToSet(s) \cap A = ToSet(s) \cap B => Kept(s, A) = Kept(s, B))
    OBVIOUS
  <2>2. SUFFICES ASSUME ToSet(Append(s, x)) \cap A = ToSet(Append(s, x)) \cap B
                 PROVE  Kept(Append(s, x), A) = Kept(Append(s, x), B)
    BY <2>1, AppendProperties
  <2>3. ToSet(Append(s, x)) = ToSet(s) \cup {x}
    BY <2>1, MembersOfAppended
  <2>4. (x \in A <=> x \in B) /\ ToSet(s) \cap A = ToSet(s) \cap B
    BY <2>2, <2>3
  <2>5. Kept(s, A) = Kept(s, B)
    BY <2>1, <2>4
  <2>6. Kept(Append(s, x), A) = IF x \in A THEN Append(Kept(s, A), x) ELSE Kept(s, A)
    BY <2>1, KeptIs
  <2>7. Kept(Append(s, x), B) = IF x \in B THEN Append(Kept(s, B), x) ELSE Kept(s, B)
    BY <2>1, KeptIs
  <2>8. QED
    BY <2>4, <2>5, <2>6, <2>7
<1>3. T \in SUBSET Seq(S)
  OBVIOUS
<1> HIDE DEF T
<1>4. list \in T
  BY <1>1, <1>2, <1>3, ListsByAppending
<1>5. QED
  BY <1>4 DEF T


-----------------------------------------------------------------------------
(* Cutting a list into pages *)

Full(files) == \A n \in 1 .. Len(files) : Len(files[n]) = PageSize

\* Where the items of the pages are in the list.
Placed(files, items) ==
    \A n \in 1 .. Len(files), i \in 1 .. PageSize :
        /\ (n - 1) * PageSize + i \in 1 .. Len(items)
        /\ items[(n - 1) * PageSize + i] = files[n][i]

LEMMA FlattenedNone ==
    FlattenSeq(<<>>) = <<>>
  BY DEF FlattenSeq

LEMMA FullPlaced ==
    ASSUME NEW S, NEW files \in Seq(Seq(S)), Full(files)
    PROVE  /\ Len(FlattenSeq(files)) = Len(files) * PageSize
           /\ Placed(files, FlattenSeq(files))
<1> DEFINE Good(r) == /\ Len(FlattenSeq(r)) = Len(r) * PageSize
                      /\ Placed(r, FlattenSeq(r))
           T == {r \in Seq(Seq(S)) : Full(r) => Good(r)}
<1>0. PICK size \in Nat : size = PageSize
  BY PageSizeAssumption
<1>1. <<>> \in T
  <2>1. <<>> \in Seq(Seq(S)) /\ Len(<<>>) = 0 /\ FlattenSeq(<<>>) = <<>>
    BY FlattenedNone
  <2>2. Placed(<<>>, <<>>)
    BY DEF Placed
  <2>3. 0 = 0 * PageSize
    BY <1>0
  <2>4. QED
    BY <2>1, <2>2, <2>3
<1>2. ASSUME NEW r \in T, NEW s \in Seq(S) PROVE Append(r, s) \in T
  <2>1. r \in Seq(Seq(S)) /\ (Full(r) => Good(r))
    OBVIOUS
  <2>2. PICK m \in Nat, t \in Seq(Seq(S)) : t = Append(r, s) /\ m = Len(r)
    <3>1. Append(r, s) \in Seq(Seq(S)) /\ Len(r) \in Nat
      BY <2>1, LenProperties, AppendProperties
    <3>2. QED
      BY <3>1
  <2>3. t \in Seq(Seq(S)) /\ Len(t) = m + 1 /\ t[m + 1] = s /\ \A i \in 1 .. m : t[i] = r[i]
    BY <2>1, <2>2, AppendProperties
  <2>4. SUFFICES ASSUME Full(t) PROVE Good(t)
    BY <2>2, <2>3
  <2>5. Full(r) /\ Len(s) = size
    <3>1. ASSUME NEW i \in 1 .. m PROVE Len(r[i]) = PageSize
      <4>1. i \in 1 .. Len(t)
        BY <2>3
      <4>2. Len(t[i]) = PageSize
        BY <2>4, <4>1 DEF Full
      <4>3. QED
        BY <2>3, <4>2
    <3>2. Len(t[m + 1]) = PageSize
      <4>1. m + 1 \in 1 .. Len(t)
        BY <2>3
      <4>2. QED
        BY <2>4, <4>1 DEF Full
    <3>3. QED
      BY <1>0, <2>2, <2>3, <3>1, <3>2 DEF Full
  <2>6. PICK flat : flat = FlattenSeq(r)
    OBVIOUS
  <2>7. flat \in Seq(S) /\ FlattenSeq(t) = flat \o s
    BY <2>1, <2>2, <2>6, FlattenedIs
  <2>8. Len(flat) = m * size /\ Placed(r, flat)
    BY <1>0, <2>1, <2>2, <2>5, <2>6
  <2>9. PICK p \in Nat, all \in Seq(S) : all = flat \o s /\ p = m * size
    <3>1. m * size \in Nat
      OBVIOUS
    <3>2. QED
      BY <2>7, <3>1, ConcatProperties
  <2>10. /\ Len(all) = p + size
         /\ \A i \in 1 .. p : all[i] = flat[i]
         /\ \A i \in 1 .. size : all[p + i] = s[i]
    <3>1. /\ Len(all) = Len(flat) + Len(s)
          /\ \A i \in 1 .. Len(flat) + Len(s) :
                all[i] = IF i <= Len(flat) THEN flat[i] ELSE s[i - Len(flat)]
      BY <2>7, <2>9, ConcatProperties
    <3>2. Len(flat) = p /\ Len(s) = size
      BY <2>5, <2>8, <2>9
    <3>3. /\ Len(all) = p + size
          /\ \A i \in 1 .. p + size : all[i] = IF i <= p THEN flat[i] ELSE s[i - p]
      BY <3>1, <3>2
    <3>4. ASSUME NEW i \in 1 .. size PROVE all[p + i] = s[i]
      <4>1. p + i \in 1 .. p + size /\ ~(p + i <= p) /\ (p + i) - p = i
        OBVIOUS
      <4>2. QED
        BY <3>3, <4>1
    <3>5. \A i \in 1 .. p : i \in 1 .. p + size /\ i <= p
      OBVIOUS
    <3>6. QED
      BY <3>3, <3>4, <3>5
  <2>11. Len(all) = (m + 1) * size
    BY <2>9, <2>10
  <2>12. Placed(t, all)
    <3>1. ASSUME NEW n \in 1 .. m + 1, NEW i \in 1 .. size
          PROVE  /\ (n - 1) * size + i \in 1 .. p + size
                 /\ all[(n - 1) * size + i] = t[n][i]
      <4>1. CASE n = m + 1
        <5>1. (n - 1) * size + i = p + i
          BY <2>9, <4>1
        <5>2. p + i \in 1 .. p + size
          OBVIOUS
        <5>3. QED
          BY <2>3, <2>10, <4>1, <5>1, <5>2
      <4>2. CASE n \in 1 .. m
        <5>1. PICK k : k = (n - 1) * size + i
          OBVIOUS
        <5>2. k \in 1 .. p /\ flat[k] = r[n][i]
          BY <1>0, <2>2, <2>8, <2>9, <4>2, <5>1 DEF Placed
        <5>3. k \in 1 .. p + size
          BY <5>2
        <5>4. QED
          BY <2>3, <2>10, <4>2, <5>1, <5>2, <5>3
      <4>3. QED
        BY <4>1, <4>2
    <3>2. QED
      BY <1>0, <2>3, <2>10, <3>1 DEF Placed
  <2>13. QED
    BY <1>0, <2>3, <2>7, <2>9, <2>11, <2>12
<1>3. T \in SUBSET Seq(Seq(S))
  OBVIOUS
<1> HIDE DEF T
<1>4. files \in T
  BY <1>1, <1>2, <1>3, ListsByAppending
<1>5. QED
  BY <1>4 DEF T

LEMMA ConcatAppend ==
    ASSUME NEW S, NEW f \in Seq(S), NEW p \in Seq(S), NEW x \in S
    PROVE  f \o Append(p, x) = Append(f \o p, x)
<1>1. PICK one : one = <<x>>
  OBVIOUS
<1> one \in Seq(S)
  BY <1>1
<1>2. f \o p \in Seq(S)
  BY ConcatProperties
<1>3. Append(p, x) = p \o one /\ Append(f \o p, x) = (f \o p) \o one
  BY <1>1, <1>2, AppendIsConcat
<1>4. (f \o p) \o one = f \o (p \o one)
  BY ConcatAssociative
<1>5. QED
  BY <1>3, <1>4

\* After any number of items: the pages written are full, the one being filled is
\* not, and together they are the items so far.
LEMMA FillCuts ==
    ASSUME NEW S, NEW items \in Seq(S)
    PROVE  LET end == Fill(items)
           IN  /\ end.written \in Seq(Seq(S)) /\ end.page \in Seq(S)
               /\ Full(end.written)
               /\ Len(end.page) < PageSize
               /\ FlattenSeq(end.written) \o end.page = items
<1> DEFINE Cut(s, end) == /\ Full(end.written)
                          /\ Len(end.page) < PageSize
                          /\ FlattenSeq(end.written) \o end.page = s
           T == {s \in Seq(S) : Cut(s, Fill(s))}
<1>1. <<>> \in T
  <2>1. PICK none : none = <<>>
    OBVIOUS
  <2>2. none \in Seq(S) /\ Len(none) = 0
    BY <2>1
  <2>3. Fill(none).written = none /\ Fill(none).page = none
    <3>1. <<>> \in Seq(Nat) /\ 0 \in Nat
      OBVIOUS
    <3>2. Fill(<<>>) = [written |-> <<>>, page |-> <<>>]
      BY <3>1, FillIs
    <3>3. QED
      BY <2>1, <3>2
  <2>4. FlattenSeq(none) = none
    BY <2>1, FlattenedNone
  <2>5. none \o none = none
    BY <2>1, <2>2, ConcatEmptySeq
  <2>6. Full(none)
    BY <2>2 DEF Full
  <2>7. Cut(none, Fill(none))
    <3>1. 0 < PageSize
      BY PageSizeAssumption
    <3>2. QED
      BY <2>2, <2>3, <2>4, <2>5, <2>6, <3>1
  <2>8. QED
    BY <2>1, <2>2, <2>7
<1>2. ASSUME NEW s \in T, NEW x \in S PROVE Append(s, x) \in T
  <2>1. PICK w, p : w = Fill(s).written /\ p = Fill(s).page
    OBVIOUS
  <2>2. w \in Seq(Seq(S)) /\ p \in Seq(S) /\ s \in Seq(S)
    BY <2>1, FillIs
  <2>3. Full(w) /\ Len(p) < PageSize /\ FlattenSeq(w) \o p = s
    BY <2>1
  <2>4. PICK q : q = Append(p, x)
    OBVIOUS
  <2>5. q \in Seq(S) /\ Len(q) = Len(p) + 1
    BY <2>2, <2>4, AppendProperties
  <2>6. PICK flat \in Seq(S) : flat = FlattenSeq(w)
    BY <2>2, FlattenedIs
  <2>7. flat \o q = Append(s, x)
    <3>1. flat \o p = s
      BY <2>3, <2>6
    <3>2. p \in Seq(S)
      BY <2>2
    <3>3. flat \o Append(p, x) = Append(flat \o p, x)
      BY <3>2, ConcatAppend
    <3>4. QED
      BY <2>4, <3>1, <3>3
  <2>8. Fill(Append(s, x)) = Added(Fill(s), x)
    BY <2>2, FillIs
  <2>9. Append(s, x) \in Seq(S)
    BY <2>2, AppendProperties
  <2>10. CASE Len(q) = PageSize
    <3>1. PICK v, none : v = Append(w, q) /\ none = <<>>
      OBVIOUS
    <3>2. Fill(Append(s, x)) = [written |-> v, page |-> none]
      BY <2>1, <2>4, <2>8, <2>10, <3>1 DEF Added
    <3>3. v \in Seq(Seq(S)) /\ FlattenSeq(v) = flat \o q
      BY <2>2, <2>5, <2>6, <3>1, FlattenedIs, AppendProperties
    <3>4. Full(v)
      <4>1. Len(v) = Len(w) + 1 /\ v[Len(w) + 1] = q /\ \A i \in 1 .. Len(w) : v[i] = w[i]
        BY <2>2, <2>5, <3>1, AppendProperties
      <4>2. Len(w) \in Nat
        BY <2>2, LenProperties
      <4>3. ASSUME NEW n \in 1 .. Len(v) PROVE Len(v[n]) = PageSize
        <5>1. n \in 1 .. Len(w) \/ n = Len(w) + 1
          BY <4>1, <4>2
        <5>2. QED
          BY <2>3, <2>10, <4>1, <5>1 DEF Full
      <4>4. QED
        BY <4>3 DEF Full
    <3>5. (flat \o q) \o none = flat \o q
      BY <2>5, <2>6, <3>1, ConcatEmptySeq, ConcatProperties
    <3>6. Len(none) = 0
      BY <3>1
    <3>7. Cut(Append(s, x), [written |-> v, page |-> none])
      <4>1. 0 < PageSize
        BY PageSizeAssumption
      <4>2. FlattenSeq(v) \o none = Append(s, x)
        BY <2>7, <3>3, <3>5
      <4>3. QED
        BY <3>4, <3>6, <4>1, <4>2
    <3>8. QED
      BY <2>9, <3>2, <3>7
  <2>11. CASE Len(q) # PageSize
    <3>1. Fill(Append(s, x)) = [written |-> w, page |-> q]
      BY <2>1, <2>4, <2>8, <2>11 DEF Added
    <3>2. Len(q) < PageSize
      <4>1. Len(p) \in Nat
        BY <2>2, LenProperties
      <4>2. QED
        BY <2>3, <2>5, <2>11, <4>1, PageSizeAssumption
    <3>3. Cut(Append(s, x), [written |-> w, page |-> q])
      BY <2>3, <2>6, <2>7, <3>2
    <3>4. QED
      BY <2>9, <3>1, <3>3
  <2>12. QED
    BY <2>10, <2>11
<1>3. T \in SUBSET Seq(S)
  OBVIOUS
<1> HIDE DEF T
<1>4. items \in T
  BY <1>1, <1>2, <1>3, ListsByAppending
<1>5. Fill(items).written \in Seq(Seq(S)) /\ Fill(items).page \in Seq(S)
  <2>1. CASE S = {}
    <3>1. items = <<>>
      BY <2>1
    <3>2. PICK none : none = <<>>
      OBVIOUS
    <3>3. none \in Seq(S) /\ none \in Seq(Seq(S))
      BY <3>2
    <3>4. <<>> \in Seq(Nat) /\ 0 \in Nat
      OBVIOUS
    <3>5. Fill(<<>>) = [written |-> <<>>, page |-> <<>>]
      BY <3>4, FillIs
    <3>6. Fill(items).written = none /\ Fill(items).page = none
      BY <3>1, <3>2, <3>5
    <3>7. QED
      BY <3>3, <3>6
  <2>2. CASE S # {}
    <3>1. PICK x \in S : TRUE
      BY <2>2
    <3>2. Fill(items) \in [written : Seq(Seq(S)), page : Seq(S)]
      BY <3>1, FillIs
    <3>3. QED
      BY <3>2
  <2>3. QED
    BY <2>1, <2>2
<1>6. QED
  BY <1>4, <1>5 DEF T


LEMMA PartIs ==
    ASSUME NEW S, NEW items \in Seq(S), NEW p \in Nat, NEW file \in Seq(S),
           p + Len(file) <= Len(items),
           \A i \in 1 .. Len(file) : items[p + i] = file[i]
    PROVE  SubSeq(items, p + 1, p + Len(file)) = file
<1>1. PICK k \in Nat : k = Len(file)
  BY LenProperties
<1>2. ASSUME NEW j \in p + 1 .. p + k PROVE items[j] \in S
  <2>1. j \in 1 .. Len(items)
    BY <1>1
  <2>2. QED
    BY <2>1, ElementOfSeq
<1>3. PICK m \in Int, n \in Int : m = p + 1 /\ n = p + k
  OBVIOUS
<1>4. \A j \in m .. n : items[j] \in S
  BY <1>2, <1>3
<1>5. PICK part : part = SubSeq(items, m, n)
  OBVIOUS
<1>6. /\ part \in Seq(S)
      /\ Len(part) = IF m <= n THEN n - m + 1 ELSE 0
      /\ \A i \in 1 .. n - m + 1 : part[i] = items[m + i - 1]
  BY <1>4, <1>5, SubSeqProperties
<1>7. Len(part) = k /\ \A i \in 1 .. k : part[i] = items[p + i]
  <2>1. Len(part) = k
    BY <1>3, <1>6
  <2>2. ASSUME NEW i \in 1 .. k PROVE part[i] = items[p + i]
    <3>1. i \in 1 .. n - m + 1 /\ m + i - 1 = p + i
      BY <1>3
    <3>2. QED
      BY <1>6, <3>1
  <2>3. QED
    BY <2>1, <2>2
<1>8. part = file
  BY <1>1, <1>6, <1>7, SeqEqual
<1>9. QED
  BY <1>1, <1>3, <1>5, <1>8

\* Page n of a list of so many items goes from the one number to the other.
Part(items, n) == SubSeq(items, (n - 1) * PageSize + 1, Smaller(n * PageSize, Len(items)))

LEMMA FolderIs ==
    ASSUME NEW S, NEW items \in Seq(S)
    PROVE  LET f == Folder(items)
           IN  /\ f.files \in Seq(Seq(S))
               /\ f.total = Len(items)
               /\ f.pages = Larger(1, Len(f.files))
               /\ FlattenSeq(f.files) = items
               /\ \A n \in 1 .. Len(f.files) :
                     /\ IF n < Len(f.files) THEN Len(f.files[n]) = PageSize
                                            ELSE Len(f.files[n]) \in 1 .. PageSize
                     /\ f.files[n] = Part(items, n)
<1>0. PICK size \in Nat : size = PageSize /\ size >= 1
  BY PageSizeAssumption
<1>1. PICK w \in Seq(Seq(S)), last \in Seq(S) : w = Fill(items).written /\ last = Fill(items).page
  BY FillCuts
<1>2. Full(w) /\ Len(last) < size
  BY <1>0, <1>1, FillCuts
<1>3. PICK flat \in Seq(S) : flat = FlattenSeq(w) /\ flat \o last = items
  <2>1. FlattenSeq(w) \in Seq(S)
    <3>1. <<>> \in Seq(S)
      OBVIOUS
    <3>2. QED
      BY <3>1, FlattenedIs
  <2>2. FlattenSeq(w) \o last = items
    BY <1>1, FillCuts
  <2>3. QED
    BY <2>1, <2>2
<1>4. PICK m \in Nat, k \in Nat, p \in Nat : m = Len(w) /\ k = Len(last) /\ p = m * size
  <2>1. Len(w) * size \in Nat
    BY LenProperties
  <2>2. QED
    BY <2>1, LenProperties
<1>5. Len(flat) = p /\ Placed(w, flat)
  BY <1>0, <1>2, <1>3, <1>4, FullPlaced
<1>6. /\ Len(items) = p + k
      /\ \A i \in 1 .. p : items[i] = flat[i]
      /\ \A i \in 1 .. k : items[p + i] = last[i]
  <2>1. /\ Len(items) = Len(flat) + Len(last)
        /\ \A i \in 1 .. Len(flat) + Len(last) :
              items[i] = IF i <= Len(flat) THEN flat[i] ELSE last[i - Len(flat)]
    BY <1>3, ConcatProperties
  <2>2. /\ Len(items) = p + k
        /\ \A i \in 1 .. p + k : items[i] = IF i <= p THEN flat[i] ELSE last[i - p]
    BY <1>4, <1>5, <2>1
  <2>3. ASSUME NEW i \in 1 .. k PROVE items[p + i] = last[i]
    <3>1. p + i \in 1 .. p + k /\ ~(p + i <= p) /\ (p + i) - p = i
      OBVIOUS
    <3>2. QED
      BY <2>2, <3>1
  <2>4. \A i \in 1 .. p : i \in 1 .. p + k /\ i <= p
    OBVIOUS
  <2>5. QED
    BY <2>2, <2>3, <2>4
<1>7. ASSUME NEW n \in 1 .. m PROVE Len(w[n]) = size /\ w[n] = Part(items, n)
  <2>1. w[n] \in Seq(S) /\ Len(w[n]) = size
    BY <1>0, <1>2, <1>4, ElementOfSeq DEF Full
  <2>2. PICK q \in Nat, file \in Seq(S) : q = (n - 1) * size /\ file = w[n]
    <3>1. (n - 1) * size \in Nat
      OBVIOUS
    <3>2. QED
      BY <2>1, <3>1
  <2>3. \A i \in 1 .. size : q + i \in 1 .. p /\ flat[q + i] = file[i]
    BY <1>0, <1>4, <1>5, <2>2 DEF Placed
  <2>4. \A i \in 1 .. size : items[q + i] = file[i]
    BY <1>6, <2>3
  <2>5. q + size <= p
    <3>1. size \in 1 .. size
      BY <1>0
    <3>2. q + size \in 1 .. p
      BY <2>3, <3>1
    <3>3. QED
      BY <3>2
  <2>6. Len(file) = size /\ q + size <= Len(items)
    BY <1>6, <2>1, <2>2, <2>5
  <2>7. SubSeq(items, q + 1, q + size) = file
    BY <2>4, <2>6, PartIs
  <2>8. n * size = q + size
    BY <2>2
  <2>9. Smaller(n * size, Len(items)) = q + size
    BY <1>6, <2>5, <2>8 DEF Smaller
  <2>10. QED
    BY <1>0, <2>1, <2>2, <2>7, <2>9 DEF Part
<1>8. Folder(items).total = Len(items)
  BY DEF Folder
<1>9. CASE last = <<>>
  <2>1. Folder(items).files = w
    BY <1>1, <1>9 DEF Folder
  <2>2. Folder(items).pages = IF m = 0 THEN 1 ELSE m
    <3>1. (m + 1) - 1 = m
      OBVIOUS
    <3>2. QED
      BY <1>1, <1>4, <1>9, <3>1 DEF Folder
  <2>3. Folder(items).pages = Larger(1, Len(w))
    BY <1>4, <2>2 DEF Larger
  <2>4. FlattenSeq(w) = items
    BY <1>3, <1>9, ConcatEmptySeq
  <2>5. QED
    BY <1>0, <1>4, <1>7, <1>8, <2>1, <2>3, <2>4
<1>10. CASE last # <<>>
  <2>1. PICK files : files = Append(w, last)
    OBVIOUS
  <2>2. /\ files \in Seq(Seq(S))
        /\ Len(files) = m + 1
        /\ files[m + 1] = last
        /\ \A n \in 1 .. m : files[n] = w[n]
    BY <1>4, <2>1, AppendProperties
  <2>3. Folder(items).files = files
    BY <1>1, <1>10, <2>1 DEF Folder
  <2>4. Folder(items).pages = Larger(1, m + 1)
    <3>1. (m + 1) - 0 = m + 1 /\ m + 1 # 0 /\ Larger(1, m + 1) = m + 1
      BY DEF Larger
    <3>2. QED
      BY <1>1, <1>4, <1>10, <3>1 DEF Folder
  <2>5. FlattenSeq(files) = items
    BY <1>3, <2>1, FlattenedIs
  <2>6. k \in 1 .. size
    <3>1. k # 0
      BY <1>4, <1>10, EmptySeq
    <3>2. QED
      BY <1>2, <1>4, <3>1
  <2>7. last = Part(items, m + 1)
    <3>1. SubSeq(items, p + 1, p + k) = last
      <4>1. p + Len(last) <= Len(items) /\ \A i \in 1 .. Len(last) : items[p + i] = last[i]
        BY <1>4, <1>6
      <4>2. SubSeq(items, p + 1, p + Len(last)) = last
        BY <4>1, PartIs
      <4>3. QED
        BY <1>4, <4>2
    <3>2. (m + 1) * size = p + size /\ ((m + 1) - 1) * size = p
      BY <1>4
    <3>3. Smaller((m + 1) * size, Len(items)) = p + k
      BY <1>2, <1>4, <1>6, <3>2 DEF Smaller
    <3>4. QED
      BY <1>0, <3>1, <3>2, <3>3 DEF Part
  <2>8. ASSUME NEW n \in 1 .. m + 1
        PROVE  /\ IF n < m + 1 THEN Len(files[n]) = PageSize
                               ELSE Len(files[n]) \in 1 .. PageSize
               /\ files[n] = Part(items, n)
    <3>1. CASE n \in 1 .. m
      <4>1. files[n] = w[n] /\ n < m + 1
        BY <2>2, <3>1
      <4>2. Len(w[n]) = size /\ w[n] = Part(items, n)
        BY <1>7, <3>1
      <4>3. QED
        BY <1>0, <4>1, <4>2
    <3>2. CASE n = m + 1
      BY <1>0, <1>4, <2>2, <2>6, <2>7, <3>2
    <3>3. QED
      BY <3>1, <3>2
  <2>9. QED
    BY <1>8, <2>2, <2>3, <2>4, <2>5, <2>8
<1>11. QED
  BY <1>9, <1>10


-----------------------------------------------------------------------------
(* The lists of a data set and their files *)

Marks == {Mark[k] : k \in DOMAIN Mark}

\* The items as they come out of the data set.
NewItem == [id : ItemIds, key : Keys, status : Keys \cup {"OPEN"}]

LEMMA MarksAre ==
    ASSUME NEW status
    PROVE  status \in Marks <=>
              \/ status = "Acknowledged" \/ status = "Settled"
              \/ status = "Disputed"     \/ status = "Released"
<1>1. DOMAIN Mark = {"acknowledge", "bulk", "settle", "dispute", "release"}
  BY DEF Mark
<1>2. /\ Mark["acknowledge"] = "Acknowledged" /\ Mark["bulk"] = "Acknowledged"
      /\ Mark["settle"] = "Settled" /\ Mark["dispute"] = "Disputed"
      /\ Mark["release"] = "Released"
  BY DEF Mark
<1>3. QED
  BY <1>1, <1>2 DEF Marks

\* No item comes out of the data set with the status that an action puts on it.
LEMMA NoMarks ==
    ASSUME NEW x \in NewItem
    PROVE  x \in Item /\ x.status \notin Marks
<1>1. x.status \in Keys \cup {"OPEN"}
  BY DEF NewItem
<1>2. x.status # "Acknowledged"
  BY <1>1 DEF Keys
<1>3. x.status # "Settled"
  BY <1>1 DEF Keys
<1>4. x.status # "Disputed"
  BY <1>1 DEF Keys
<1>5. x.status # "Released"
  BY <1>1 DEF Keys
<1>6. x.status \notin Marks
  BY <1>2, <1>3, <1>4, <1>5, MarksAre, Zenon
<1>7. x \in Item
  BY DEF NewItem, Item
<1>8. QED
  BY <1>6, <1>7

LEMMA NewItemIs ==
    ASSUME NEW id \in ItemIds, NEW key \in Keys, NEW status \in Keys \cup {"OPEN"}
    PROVE  <<[id |-> id, key |-> key, status |-> status]>> \in Seq(NewItem)
<1>1. [id |-> id, key |-> key, status |-> status] \in NewItem
  BY DEF NewItem
<1>2. QED
  BY <1>1

LEMMA IdsAre ==
    ASSUME NEW i \in Nat
    PROVE  /\ \A type \in {"S", "T", "R", "F", "M", "A"} : <<type, i>> \in ItemIds
           /\ \A order \in Order : <<"E", order>> \in ItemIds
  BY DEF ItemIds

LEMMA StatusIsKnown ==
    ASSUME NEW row \in CsvRow
    PROVE  statusOf(row) \in {"IN_TRANSIT", "DELAYED", "DELIVERED", "CANCELLED", "CREATED"}
<1>1. DOMAIN STATUS_MAP = {"Advance", "Late", "OnTime", "Canceled"}
  BY DEF STATUS_MAP
<1>2. /\ STATUS_MAP["Advance"] = "IN_TRANSIT" /\ STATUS_MAP["Late"] = "DELAYED"
      /\ STATUS_MAP["OnTime"] = "DELIVERED" /\ STATUS_MAP["Canceled"] = "CANCELLED"
  BY DEF STATUS_MAP
<1>3. QED
  BY <1>1, <1>2 DEF statusOf

\* What build-dataset.mjs:160-260 makes of a row.
LEMMA OfRowIs ==
    ASSUME NEW e, NEW row \in CsvRow, NEW i \in Nat
    PROVE  OfRow(e, row, i) \in Seq(NewItem)
<1>1. ShipmentsOf(row, i) \in Seq(NewItem)
  <2>1. statusOf(row) \in Keys
    BY StatusIsKnown DEF Keys
  <2>2. QED
    BY <2>1, NewItemIs, IdsAre DEF ShipmentsOf
<1>2. AlertsOf(row, i) \in Seq(NewItem)
  <2> DEFINE raise(flag, type, severity) ==
          IF flag = 1
          THEN <<[id |-> <<type, i>>, key |-> severity, status |-> "OPEN"]>>
          ELSE <<>>
  <2>1. ASSUME NEW flag, NEW type \in {"T", "R", "F", "M"}, NEW severity \in Keys
        PROVE  raise(flag, type, severity) \in Seq(NewItem)
    <3>1. "OPEN" \in Keys \cup {"OPEN"}
      OBVIOUS
    <3>2. <<type, i>> \in ItemIds
      BY IdsAre
    <3>3. <<[id |-> <<type, i>>, key |-> severity, status |-> "OPEN"]>> \in Seq(NewItem)
      BY <3>1, <3>2, NewItemIs
    <3>4. <<>> \in Seq(NewItem)
      OBVIOUS
    <3>5. QED
      BY <3>3, <3>4
  <2>2. AlertsOf(row, i) =
          raise(row.temp, "T", "CRITICAL") \o raise(row.route, "R", "WARNING") \o
          raise(row.fraud, "F", "CRITICAL") \o raise(row.origin, "M", "CRITICAL")
    BY DEF AlertsOf
  <2> HIDE DEF raise
  <2>3. /\ raise(row.temp, "T", "CRITICAL") \in Seq(NewItem)
        /\ raise(row.route, "R", "WARNING") \in Seq(NewItem)
        /\ raise(row.fraud, "F", "CRITICAL") \in Seq(NewItem)
        /\ raise(row.origin, "M", "CRITICAL") \in Seq(NewItem)
    <3>1. "CRITICAL" \in Keys /\ "WARNING" \in Keys
      BY DEF Keys
    <3>2. QED
      BY <2>1, <3>1
  <2>4. \A r \in Seq(NewItem), t \in Seq(NewItem) : r \o t \in Seq(NewItem)
    BY ConcatProperties
  <2>5. PICK a, b, c, d : /\ a = raise(row.temp, "T", "CRITICAL")
                         /\ b = raise(row.route, "R", "WARNING")
                         /\ c = raise(row.fraud, "F", "CRITICAL")
                         /\ d = raise(row.origin, "M", "CRITICAL")
    OBVIOUS
  <2>6. ((a \o b) \o c) \o d \in Seq(NewItem)
    BY <2>3, <2>4, <2>5
  <2>7. QED
    BY <2>2, <2>5, <2>6
<1>3. EscrowsOf(row, i) \in Seq(NewItem)
  <2> DEFINE status == IF statusOf(row) \in {"DELIVERED", "CANCELLED"} THEN "RELEASED" ELSE "HELD"
  <2>1. status \in Keys \cup {"OPEN"} /\ status \in Keys
    BY DEF Keys
  <2>2. <<"E", row.order>> \in ItemIds
    BY IdsAre DEF CsvRow
  <2>3. EscrowsOf(row, i) = <<[id |-> <<"E", row.order>>, key |-> status, status |-> status]>>
    BY DEF EscrowsOf
  <2> HIDE DEF status
  <2>4. QED
    BY <2>1, <2>2, <2>3, NewItemIs
<1>4. AuditsOf(row, i) \in Seq(NewItem)
  <2> DEFINE findings == row.temp + row.humid + row.route + row.fraud + row.origin
             status == IF findings = 0 THEN "Passed"
                       ELSE IF row.fraud = 1 THEN "Failed" ELSE "Warning"
  <2>1. status \in Keys \cup {"OPEN"} /\ status \in Keys
    BY DEF Keys
  <2>2. <<"A", i>> \in ItemIds
    BY IdsAre
  <2>3. AuditsOf(row, i) = <<[id |-> <<"A", i>>, key |-> status, status |-> status]>>
    BY DEF AuditsOf
  <2> HIDE DEF status
  <2>4. QED
    BY <2>1, <2>2, <2>3, NewItemIs
<1>5. QED
  BY <1>1, <1>2, <1>3, <1>4, Zenon DEF OfRow

LEMMA ItemsAre ==
    ASSUME NEW e, NEW rows \in Seq(CsvRow)
    PROVE  Items(e, rows) \in Seq(NewItem)
<1> DEFINE lists == [i \in DOMAIN rows |-> OfRow(e, rows[i], i)]
<1>1. lists \in Seq(Seq(NewItem))
  <2>1. PICK n \in Nat : n = Len(rows)
    BY LenProperties
  <2>2. DOMAIN rows = 1 .. n /\ \A i \in 1 .. n : rows[i] \in CsvRow
    BY <2>1, LenProperties, ElementOfSeq
  <2>3. \A i \in 1 .. n : OfRow(e, rows[i], i) \in Seq(NewItem)
    BY <2>2, OfRowIs
  <2>4. lists \in [1 .. n -> Seq(NewItem)]
    BY <2>2, <2>3
  <2>5. QED
    BY <2>4
<1>2. Items(e, rows) = FlattenSeq(lists)
  BY DEF Items
<1> HIDE DEF lists
<1>3. <<>> \in Seq(NewItem)
  OBVIOUS
<1>4. QED
  BY <1>1, <1>2, <1>3, FlattenedIs

LEMMA GroupIs ==
    ASSUME NEW S, NEW items \in Seq(S), NEW key
    PROVE  /\ Group(items, key) \in Seq(S)
           /\ ToSet(Group(items, key)) = {x \in ToSet(items) : key = "all" \/ x.key = key}
<1> DEFINE set == {x \in ToSet(items) : key = "all" \/ x.key = key}
<1>1. Group(items, key) = Kept(items, set) /\ ToSet(items) \cap set = set
  BY DEF Group
<1>2. Kept(items, set) \in Seq(S)
  <2>1. CASE items = <<>>
    <3>1. Kept(items, set) = items
      BY <2>1, KeptOfNone
    <3>2. QED
      BY <3>1
  <2>2. CASE items # <<>>
    <3>1. PICK x \in S : TRUE
      BY <2>2
    <3> HIDE DEF set
    <3>2. QED
      BY KeptIs
  <2>3. QED
    BY <2>1, <2>2
<1> HIDE DEF set
<1>3. ToSet(Kept(items, set)) = ToSet(items) \cap set
  BY KeptMembers
<1>4. QED
  BY <1>1, <1>2, <1>3 DEF set

LEMMA FoldersAre ==
    ASSUME NEW e, NEW rows \in Seq(CsvRow)
    PROVE  LET items   == Items(e, rows)
               folders == paginateAndWrite(e, rows)
           IN  /\ DOMAIN folders = {"all"} \cup {items[i].key : i \in DOMAIN items}
               /\ \A key \in DOMAIN folders :
                     /\ folders[key] = Folder(Group(items, key))
                     /\ Group(items, key) \in Seq(NewItem)
<1>1. PICK items \in Seq(NewItem) : items = Items(e, rows)
  BY ItemsAre
<1> DEFINE keys == {"all"} \cup {items[i].key : i \in DOMAIN items}
<1>2. paginateAndWrite(e, rows) = [key \in keys |-> Folder(Group(items, key))]
  BY <1>1 DEF paginateAndWrite
<1> HIDE DEF keys
<1>3. \A key \in keys : Group(items, key) \in Seq(NewItem)
  BY <1>1, GroupIs
<1>4. QED
  BY <1>1, <1>2, <1>3 DEF keys

\* build-dataset.mjs:69-124: whatever the rows, the files of a list are the list,
\* group by group, cut into pages that are full but for the last.
THEOREM FilesAreTheLists ==
    ASSUME NEW e \in Entity, NEW rows \in Seq(CsvRow)
    PROVE  PagesAreTheGroup(Items(e, rows), paginateAndWrite(e, rows))
<1>1. PICK items, folders :
         items \in Seq(NewItem) /\ items = Items(e, rows) /\ folders = paginateAndWrite(e, rows)
  BY ItemsAre
<1>2. /\ DOMAIN folders = {"all"} \cup {items[i].key : i \in DOMAIN items}
      /\ \A key \in DOMAIN folders :
            folders[key] = Folder(Group(items, key)) /\ Group(items, key) \in Seq(NewItem)
  <2>1. LET its == Items(e, rows)
            fs  == paginateAndWrite(e, rows)
        IN  /\ DOMAIN fs = {"all"} \cup {its[i].key : i \in DOMAIN its}
            /\ \A key \in DOMAIN fs :
                  fs[key] = Folder(Group(its, key)) /\ Group(its, key) \in Seq(NewItem)
    BY FoldersAre
  <2>2. QED
    BY <1>1, <2>1, Zenon
<1>3. ASSUME NEW key \in DOMAIN folders
      PROVE  LET f == folders[key]
             IN  /\ FlattenSeq(f.files) = Group(items, key)
                 /\ f.total = Len(Group(items, key))
                 /\ \A n \in DOMAIN f.files :
                      IF n < Len(f.files) THEN Len(f.files[n]) = PageSize
                                          ELSE Len(f.files[n]) \in 1..PageSize
                 /\ f.pages = Larger(1, Len(f.files))
  <2>1. PICK group, f : group \in Seq(NewItem) /\ group = Group(items, key) /\ f = Folder(group)
    BY <1>2
  <2>2. folders[key] = f
    BY <1>2, <2>1
  <2>3. DOMAIN f.files = 1 .. Len(f.files)
    <3>1. f.files \in Seq(Seq(NewItem))
      BY <2>1, FolderIs
    <3>2. QED
      BY <3>1, LenProperties
  <2>4. /\ FlattenSeq(f.files) = group
        /\ f.total = Len(group)
        /\ f.pages = Larger(1, Len(f.files))
    BY <2>1, FolderIs
  <2>5. \A n \in 1 .. Len(f.files) : IF n < Len(f.files) THEN Len(f.files[n]) = PageSize
                                     ELSE Len(f.files[n]) \in 1 .. PageSize
    BY <2>1, FolderIs
  <2>6. QED
    BY <2>1, <2>2, <2>3, <2>4, <2>5
<1>4. QED
  BY <1>1, <1>2, <1>3 DEF PagesAreTheGroup


-----------------------------------------------------------------------------
(* The statistics *)

LEMMA KeptInList ==
    ASSUME NEW S, NEW set, NEW list \in Seq(S)
    PROVE  Kept(list, set) \in Seq(S)
<1>1. CASE list = <<>>
  <2>1. Kept(list, set) = list
    BY <1>1, KeptOfNone
  <2>2. QED
    BY <2>1
<1>2. CASE list # <<>>
  <2>1. PICK x \in S : TRUE
    BY <1>2
  <2>2. QED
    BY KeptIs
<1>3. QED
  BY <1>1, <1>2

HowMany(list, set) == Len(Kept(list, set))

LEMMA HowManyOfOne ==
    ASSUME NEW x, NEW set
    PROVE  HowMany(<<x>>, set) = IF x \in set THEN 1 ELSE 0
<1>1. PICK none, one : none = <<>> /\ one = <<x>>
  OBVIOUS
<1>2. none \in Seq({x}) /\ x \in {x} /\ one = Append(none, x) /\ Len(none) = 0 /\ Len(one) = 1
  BY <1>1
<1>3. Kept(none, set) = none
  BY <1>1, KeptOfNone
<1>4. Kept(Append(none, x), set) = IF x \in set THEN Append(none, x) ELSE none
  <2>1. PICK R : x \in R /\ none \in Seq(R)
    BY <1>2
  <2>2. Kept(Append(none, x), set) = IF x \in set THEN Append(Kept(none, set), x)
                                                 ELSE Kept(none, set)
    BY <2>1, KeptIs
  <2>3. QED
    BY <1>3, <2>2
<1>5. Kept(one, set) = IF x \in set THEN one ELSE none
  BY <1>2, <1>4
<1>6. QED
  BY <1>1, <1>2, <1>5 DEF HowMany

LEMMA HowManyOfAppended ==
    ASSUME NEW S, NEW s \in Seq(S), NEW x \in S, NEW set
    PROVE  /\ HowMany(s, set) \in Nat
           /\ HowMany(Append(s, x), set) = HowMany(s, set) + (IF x \in set THEN 1 ELSE 0)
<1>1. PICK k : k = Kept(s, set)
  OBVIOUS
<1>2. k \in Seq(S)
  BY <1>1, KeptInList
<1>3. Kept(Append(s, x), set) = IF x \in set THEN Append(k, x) ELSE k
  BY <1>1, KeptIs
<1>4. Len(Append(k, x)) = Len(k) + 1 /\ Len(k) \in Nat
  BY <1>2, AppendProperties, LenProperties
<1>5. QED
  BY <1>1, <1>3, <1>4 DEF HowMany

LEMMA HowManyOfBoth ==
    ASSUME NEW S, NEW a \in Seq(S), NEW b \in Seq(S), NEW set
    PROVE  /\ HowMany(a, set) \in Nat
           /\ HowMany(a \o b, set) = HowMany(a, set) + HowMany(b, set)
<1> DEFINE T == {s \in Seq(S) : HowMany(a \o s, set) = HowMany(a, set) + HowMany(s, set)}
<1>0. \A s \in Seq(S) : HowMany(s, set) \in Nat
  BY KeptInList, LenProperties DEF HowMany
<1>1. <<>> \in T
  <2>1. PICK none : none = <<>>
    OBVIOUS
  <2>2. none \in Seq(S) /\ a \o none = a
    BY <2>1, ConcatEmptySeq
  <2>3. HowMany(none, set) = 0
    BY <2>1, KeptOfNone DEF HowMany
  <2>4. HowMany(a \o none, set) = HowMany(a, set) + HowMany(none, set)
    BY <1>0, <2>2, <2>3
  <2>5. QED
    BY <2>1, <2>2, <2>4
<1>2. ASSUME NEW s \in T, NEW x \in S PROVE Append(s, x) \in T
  <2>1. s \in Seq(S) /\ HowMany(a \o s, set) = HowMany(a, set) + HowMany(s, set)
    OBVIOUS
  <2>2. PICK c : c = a \o s
    OBVIOUS
  <2>3. c \in Seq(S) /\ a \o Append(s, x) = Append(c, x)
    <3>1. PICK one : one = <<x>>
      OBVIOUS
    <3>2. one \in Seq(S)
      BY <3>1
    <3>3. c \in Seq(S)
      BY <2>1, <2>2, ConcatProperties
    <3>4. Append(s, x) = s \o one /\ Append(c, x) = c \o one
      BY <2>1, <3>1, <3>3, AppendIsConcat
    <3>5. (a \o s) \o one = a \o (s \o one)
      BY <2>1, <3>2, ConcatAssociative
    <3>6. QED
      BY <2>2, <3>3, <3>4, <3>5
  <2>4. PICK d \in {0, 1} : d = IF x \in set THEN 1 ELSE 0
    OBVIOUS
  <2>5. HowMany(Append(c, x), set) = HowMany(c, set) + d
    BY <2>3, <2>4, HowManyOfAppended
  <2>6. HowMany(Append(s, x), set) = HowMany(s, set) + d
    BY <2>1, <2>4, HowManyOfAppended
  <2>7. HowMany(a \o Append(s, x), set) = HowMany(a, set) + HowMany(Append(s, x), set)
    BY <1>0, <2>1, <2>2, <2>3, <2>5, <2>6
  <2>8. Append(s, x) \in Seq(S)
    BY <2>1, AppendProperties
  <2>9. QED
    BY <2>7, <2>8
<1>3. T \in SUBSET Seq(S)
  OBVIOUS
<1> HIDE DEF T
<1>4. b \in T
  BY <1>1, <1>2, <1>3, ListsByAppending
<1>5. QED
  BY <1>0, <1>4 DEF T

LEMMA ItemsOfMore ==
    ASSUME NEW e, NEW rows \in Seq(CsvRow), NEW row \in CsvRow
    PROVE  Items(e, Append(rows, row)) = Items(e, rows) \o OfRow(e, row, Len(rows) + 1)
<1> DEFINE lists(r) == [i \in DOMAIN r |-> OfRow(e, r[i], i)]
<1>1. PICK n \in Nat, more \in Seq(CsvRow) : n = Len(rows) /\ more = Append(rows, row)
  <2>1. Append(rows, row) \in Seq(CsvRow) /\ Len(rows) \in Nat
    BY LenProperties, AppendProperties
  <2>2. QED
    BY <2>1
<1>2. /\ more \in Seq(CsvRow) /\ Len(more) = n + 1 /\ more[n + 1] = row
      /\ \A i \in 1 .. n : more[i] = rows[i]
  BY <1>1, AppendProperties
<1>3. DOMAIN rows = 1 .. n /\ DOMAIN more = 1 .. n + 1
  BY <1>1, <1>2, LenProperties
<1>4. \A i \in 1 .. n : rows[i] \in CsvRow
  BY <1>1, ElementOfSeq
<1>5. PICK before, after, last : /\ before = lists(rows) /\ after = lists(more)
                                 /\ last = OfRow(e, row, n + 1)
  OBVIOUS
<1>6. before = [i \in 1 .. n |-> OfRow(e, rows[i], i)]
  BY <1>3, <1>5
<1>7. after = [i \in 1 .. n + 1 |-> OfRow(e, more[i], i)]
  BY <1>3, <1>5
<1>8. last \in Seq(NewItem) /\ \A i \in 1 .. n : OfRow(e, rows[i], i) \in Seq(NewItem)
  BY <1>4, <1>5, OfRowIs
<1>9. before \in Seq(Seq(NewItem)) /\ Len(before) = n
  BY <1>6, <1>8
<1>10. after = Append(before, last)
  <2>1. PICK s : s = Append(before, last)
    OBVIOUS
  <2>2. /\ s \in Seq(Seq(NewItem)) /\ Len(s) = n + 1 /\ s[n + 1] = last
        /\ \A i \in 1 .. n : s[i] = before[i]
    BY <1>8, <1>9, <2>1, AppendProperties
  <2>3. DOMAIN s = 1 .. n + 1 /\ s = [i \in 1 .. n + 1 |-> s[i]]
    BY <2>2, LenProperties
  <2>4. ASSUME NEW i \in 1 .. n + 1 PROVE s[i] = OfRow(e, more[i], i)
    <3>1. CASE i = n + 1
      BY <1>2, <1>5, <2>2, <3>1
    <3>2. CASE i \in 1 .. n
      BY <1>2, <1>6, <2>2, <3>2
    <3>3. QED
      BY <3>1, <3>2
  <2>5. QED
    BY <1>7, <2>1, <2>3, <2>4
<1>11. FlattenSeq(after) = FlattenSeq(before) \o last
  BY <1>8, <1>9, <1>10, FlattenedIs
<1>12. Items(e, rows) = FlattenSeq(before) /\ Items(e, more) = FlattenSeq(after)
  BY <1>5 DEF Items
<1>13. QED
  BY <1>1, <1>5, <1>11, <1>12


OfKey(key) == {x \in Item : x.key = key}

LEMMA GroupCount ==
    ASSUME NEW items \in Seq(NewItem), NEW key, key # "all"
    PROVE  Len(Group(items, key)) = HowMany(items, OfKey(key))
<1> DEFINE set == {x \in ToSet(items) : key = "all" \/ x.key = key}
<1>1. ToSet(items) \subseteq NewItem
  BY LenProperties, ElementOfSeq DEF ToSet
<1>2. ToSet(items) \subseteq Item
  BY <1>1, NoMarks
<1>3. ToSet(items) \cap set = ToSet(items) \cap OfKey(key)
  BY <1>2 DEF OfKey
<1>4. Group(items, key) = Kept(items, set)
  BY DEF Group
<1> HIDE DEF set
<1>5. Kept(items, set) = Kept(items, OfKey(key))
  BY <1>3, KeptAlike
<1>6. QED
  BY <1>4, <1>5 DEF HowMany

LEMMA GroupOfAll ==
    ASSUME NEW S, NEW items \in Seq(S)
    PROVE  Group(items, "all") = items
<1> DEFINE set == {x \in ToSet(items) : "all" = "all" \/ x.key = "all"}
<1>1. set = ToSet(items)
  OBVIOUS
<1>2. Group(items, "all") = Kept(items, set)
  BY DEF Group
<1> HIDE DEF set
<1>3. items \in Seq(ToSet(items))
  BY ListOfMembers
<1>4. Kept(items, ToSet(items)) = items
  BY <1>3, KeptAllOf
<1>5. QED
  BY <1>1, <1>2, <1>4

Flagging(flag) == {r \in CsvRow : r[flag] = 1}

LEMMA FlaggedIs ==
    ASSUME NEW rows \in Seq(CsvRow), NEW flag
    PROVE  Flagged(rows, flag) = HowMany(rows, Flagging(flag))
<1> DEFINE set == {r \in ToSet(rows) : r[flag] = 1}
<1>1. ToSet(rows) \subseteq CsvRow
  BY LenProperties, ElementOfSeq DEF ToSet
<1>2. ToSet(rows) \cap set = ToSet(rows) \cap Flagging(flag)
  BY <1>1 DEF Flagging
<1>3. Flagged(rows, flag) = Len(Kept(rows, set))
  BY DEF Flagged
<1> HIDE DEF set
<1>4. Kept(rows, set) = Kept(rows, Flagging(flag))
  BY <1>2, KeptAlike
<1>5. QED
  BY <1>3, <1>4 DEF HowMany

LEMMA OneItem ==
    ASSUME NEW id \in ItemIds, NEW k \in Keys, NEW status \in Keys \cup {"OPEN"}, NEW key
    PROVE  LET list == <<[id |-> id, key |-> k, status |-> status]>>
           IN  /\ list \in Seq(NewItem)
               /\ Len(list) = 1
               /\ HowMany(list, OfKey(key)) = IF k = key THEN 1 ELSE 0
<1>1. PICK x : x = [id |-> id, key |-> k, status |-> status]
  OBVIOUS
<1>2. x \in NewItem /\ x.key = k
  BY <1>1 DEF NewItem
<1>3. x \in OfKey(key) <=> k = key
  BY <1>2, NoMarks DEF OfKey
<1>4. HowMany(<<x>>, OfKey(key)) = IF k = key THEN 1 ELSE 0
  BY <1>3, HowManyOfOne
<1>5. <<x>> \in Seq(NewItem) /\ Len(<<x>>) = 1
  BY <1>2
<1>6. QED
  BY <1>1, <1>4, <1>5

Joined(a, b, c) ==
    /\ Len(c) = Len(a) + Len(b)
    /\ \A set : HowMany(c, set) = HowMany(a, set) + HowMany(b, set)

LEMMA BothCounted ==
    ASSUME NEW a \in Seq(NewItem), NEW b \in Seq(NewItem)
    PROVE  a \o b \in Seq(NewItem) /\ Joined(a, b, a \o b)
<1>1. a \o b \in Seq(NewItem) /\ Len(a \o b) = Len(a) + Len(b)
  BY ConcatProperties
<1>2. ASSUME NEW set PROVE HowMany(a \o b, set) = HowMany(a, set) + HowMany(b, set)
  BY HowManyOfBoth
<1>3. QED
  BY <1>1, <1>2 DEF Joined

\* build-dataset.mjs:187-235: an alert for each flag of a row.
LEMMA AlertsCounted ==
    ASSUME NEW row \in CsvRow, NEW i \in Nat
    PROVE  LET alerts == AlertsOf(row, i)
           IN  /\ Len(alerts) = row.temp + row.route + row.fraud + row.origin
               /\ HowMany(alerts, OfKey("CRITICAL")) = row.temp + row.fraud + row.origin
               /\ HowMany(alerts, OfKey("WARNING")) = row.route
<1> DEFINE raise(flag, type, severity) ==
        IF flag = 1
        THEN <<[id |-> <<type, i>>, key |-> severity, status |-> "OPEN"]>>
        ELSE <<>>
<1>1. ASSUME NEW flag \in {0, 1}, NEW type \in {"T", "R", "F", "M"},
             NEW severity \in {"CRITICAL", "WARNING"}, NEW key
      PROVE  LET list == raise(flag, type, severity)
             IN  /\ list \in Seq(NewItem)
                 /\ Len(list) = flag
                 /\ HowMany(list, OfKey(key)) = IF severity = key THEN flag ELSE 0
  <2>1. CASE flag = 1
    <3>1. severity \in Keys /\ "OPEN" \in Keys \cup {"OPEN"} /\ <<type, i>> \in ItemIds
      BY IdsAre DEF Keys
    <3>2. PICK list : list = <<[id |-> <<type, i>>, key |-> severity, status |-> "OPEN"]>>
      OBVIOUS
    <3>3. /\ list \in Seq(NewItem)
          /\ Len(list) = 1
          /\ HowMany(list, OfKey(key)) = IF severity = key THEN 1 ELSE 0
      BY <3>1, <3>2, OneItem
    <3>4. raise(flag, type, severity) = list
      BY <2>1, <3>2
    <3>5. QED
      BY <2>1, <3>3, <3>4
  <2>2. CASE flag = 0
    <3>1. PICK none : none = <<>>
      OBVIOUS
    <3>2. none \in Seq(NewItem) /\ Len(none) = 0
      BY <3>1
    <3>3. HowMany(none, OfKey(key)) = 0
      BY <3>1, <3>2, KeptOfNone DEF HowMany
    <3>4. raise(flag, type, severity) = none
      BY <2>2, <3>1
    <3>5. QED
      BY <2>2, <3>2, <3>3, <3>4
  <2>3. QED
    BY <2>1, <2>2
<1>2. /\ row.temp \in {0, 1} /\ row.route \in {0, 1}
      /\ row.fraud \in {0, 1} /\ row.origin \in {0, 1}
  BY DEF CsvRow
<1>3. PICK a, b, c, d : /\ a = raise(row.temp, "T", "CRITICAL")
                       /\ b = raise(row.route, "R", "WARNING")
                       /\ c = raise(row.fraud, "F", "CRITICAL")
                       /\ d = raise(row.origin, "M", "CRITICAL")
  OBVIOUS
<1>4. AlertsOf(row, i) = ((a \o b) \o c) \o d
  BY <1>3 DEF AlertsOf
<1> HIDE DEF raise
<1>5. /\ a \in Seq(NewItem) /\ Len(a) = row.temp
      /\ b \in Seq(NewItem) /\ Len(b) = row.route
      /\ c \in Seq(NewItem) /\ Len(c) = row.fraud
      /\ d \in Seq(NewItem) /\ Len(d) = row.origin
  BY <1>1, <1>2, <1>3
<1>6. PICK ab, abc, all : ab = a \o b /\ abc = ab \o c /\ all = abc \o d
  OBVIOUS
<1>7. /\ ab \in Seq(NewItem) /\ Joined(a, b, ab)
      /\ abc \in Seq(NewItem) /\ Joined(ab, c, abc)
      /\ all \in Seq(NewItem) /\ Joined(abc, d, all)
  <2>1. a \in Seq(NewItem) /\ b \in Seq(NewItem) /\ c \in Seq(NewItem) /\ d \in Seq(NewItem)
    BY <1>5
  <2>2. ab \in Seq(NewItem) /\ Joined(a, b, ab)
    BY <1>6, <2>1, BothCounted
  <2>3. abc \in Seq(NewItem) /\ Joined(ab, c, abc)
    BY <1>6, <2>1, <2>2, BothCounted
  <2>4. all \in Seq(NewItem) /\ Joined(abc, d, all)
    BY <1>6, <2>1, <2>3, BothCounted
  <2>5. QED
    BY <2>2, <2>3, <2>4
<1>8. /\ Len(ab) = Len(a) + Len(b)
      /\ Len(abc) = Len(ab) + Len(c)
      /\ Len(all) = Len(abc) + Len(d)
  BY <1>7 DEF Joined
<1>9. \A set : /\ HowMany(ab, set) = HowMany(a, set) + HowMany(b, set)
               /\ HowMany(abc, set) = HowMany(ab, set) + HowMany(c, set)
               /\ HowMany(all, set) = HowMany(abc, set) + HowMany(d, set)
  BY <1>7 DEF Joined
<1>10. Len(all) = row.temp + row.route + row.fraud + row.origin
  BY <1>2, <1>5, <1>8
<1>11. "CRITICAL" # "WARNING"
  OBVIOUS
<1>12. HowMany(all, OfKey("CRITICAL")) = row.temp + row.fraud + row.origin
  <2>1. PICK set : set = OfKey("CRITICAL")
    OBVIOUS
  <2>2. /\ HowMany(a, set) = row.temp /\ HowMany(b, set) = 0
        /\ HowMany(c, set) = row.fraud /\ HowMany(d, set) = row.origin
    BY <1>1, <1>2, <1>3, <1>11, <2>1
  <2>3. HowMany(all, set) = ((row.temp + 0) + row.fraud) + row.origin
    BY <1>9, <2>2
  <2>4. QED
    BY <1>2, <2>1, <2>3
<1>13. HowMany(all, OfKey("WARNING")) = row.route
  <2>1. PICK set : set = OfKey("WARNING")
    OBVIOUS
  <2>2. /\ HowMany(a, set) = 0 /\ HowMany(b, set) = row.route
        /\ HowMany(c, set) = 0 /\ HowMany(d, set) = 0
    BY <1>1, <1>2, <1>3, <1>11, <2>1
  <2>3. HowMany(all, set) = ((0 + row.route) + 0) + 0
    BY <1>9, <2>2
  <2>4. QED
    BY <1>2, <2>1, <2>3
<1>14. QED
  BY <1>4, <1>6, <1>10, <1>12, <1>13

\* build-dataset.mjs:248-259: one audit for each row.
LEMMA AuditsCounted ==
    ASSUME NEW row \in CsvRow, NEW i \in Nat
    PROVE  LET audits == AuditsOf(row, i)
           IN  /\ Len(audits) = 1
               /\ HowMany(audits, OfKey("Passed")) + HowMany(audits, OfKey("Warning"))
                      + HowMany(audits, OfKey("Failed")) = 1
               /\ HowMany(audits, OfKey("Failed")) = row.fraud
               /\ (AlertsOf(row, i) # <<>> => audits[1].status # "Passed")
<1>1. PICK findings \in Nat :
         /\ findings = row.temp + row.humid + row.route + row.fraud + row.origin
         /\ row.fraud \in {0, 1}
         /\ (findings = 0 => row.temp + row.route + row.fraud + row.origin = 0)
         /\ (findings = 0 => row.fraud = 0)
  <2>1. /\ row.temp \in {0, 1} /\ row.humid \in {0, 1} /\ row.route \in {0, 1}
        /\ row.fraud \in {0, 1} /\ row.origin \in {0, 1}
    BY DEF CsvRow
  <2>2. QED
    BY <2>1
<1>2. PICK status : status = IF findings = 0 THEN "Passed"
                             ELSE IF row.fraud = 1 THEN "Failed" ELSE "Warning"
  OBVIOUS
<1>3. status \in Keys /\ <<"A", i>> \in ItemIds
  BY <1>2, IdsAre DEF Keys
<1>4. PICK audits : audits = <<[id |-> <<"A", i>>, key |-> status, status |-> status]>>
  OBVIOUS
<1>5. AuditsOf(row, i) = audits
  BY <1>1, <1>2, <1>4 DEF AuditsOf
<1>6. /\ Len(audits) = 1
      /\ \A key : HowMany(audits, OfKey(key)) = IF status = key THEN 1 ELSE 0
      /\ audits[1].status = status
  BY <1>3, <1>4, OneItem
<1>7. \/ status = "Passed" /\ findings = 0
      \/ status = "Failed" /\ findings # 0 /\ row.fraud = 1
      \/ status = "Warning" /\ findings # 0 /\ row.fraud = 0
  BY <1>1, <1>2
<1>8. "Passed" # "Failed" /\ "Passed" # "Warning" /\ "Failed" # "Warning"
  OBVIOUS
<1>9. /\ HowMany(audits, OfKey("Passed")) + HowMany(audits, OfKey("Warning"))
           + HowMany(audits, OfKey("Failed")) = 1
      /\ HowMany(audits, OfKey("Failed")) = row.fraud
  <2>1. CASE status = "Passed" /\ findings = 0
    BY <1>1, <1>6, <1>8, <2>1
  <2>2. CASE status = "Failed" /\ row.fraud = 1
    BY <1>6, <1>8, <2>2
  <2>3. CASE status = "Warning" /\ row.fraud = 0
    BY <1>6, <1>8, <2>3
  <2>4. QED
    BY <1>7, <2>1, <2>2, <2>3
<1>10. ASSUME AlertsOf(row, i) # <<>> PROVE status # "Passed"
  <2>1. Len(AlertsOf(row, i)) # 0
    <3>1. AlertsOf(row, i) = OfRow("alerts", row, i)
      BY DEF OfRow
    <3>2. AlertsOf(row, i) \in Seq(NewItem)
      BY <3>1, OfRowIs
    <3>3. QED
      BY <1>10, <3>2, EmptySeq
  <2>2. row.temp + row.route + row.fraud + row.origin # 0
    BY <2>1, AlertsCounted
  <2>3. findings # 0
    BY <1>1, <2>2
  <2>4. QED
    BY <1>7, <1>8, <2>3
<1>11. QED
  BY <1>5, <1>6, <1>9, <1>10


Flags(rows, flag) == HowMany(rows, Flagging(flag))

LEMMA FlagsOfMore ==
    ASSUME NEW rows \in Seq(CsvRow), NEW row \in CsvRow,
           NEW flag \in {"temp", "route", "fraud", "origin"}
    PROVE  /\ Flags(rows, flag) \in Nat
           /\ row[flag] \in {0, 1}
           /\ Flags(Append(rows, row), flag) = Flags(rows, flag) + row[flag]
<1>1. row[flag] \in {0, 1}
  BY DEF CsvRow
<1>2. row \in Flagging(flag) <=> row[flag] = 1
  BY DEF Flagging
<1>3. PICK set : set = Flagging(flag)
  OBVIOUS
<1>4. /\ HowMany(rows, set) \in Nat
      /\ HowMany(Append(rows, row), set) = HowMany(rows, set) + (IF row \in set THEN 1 ELSE 0)
  BY HowManyOfAppended
<1>5. (IF row \in set THEN 1 ELSE 0) = row[flag]
  BY <1>1, <1>2, <1>3
<1>6. QED
  BY <1>1, <1>3, <1>4, <1>5 DEF Flags

AlertsMatch(rows) ==
    LET alerts == Items("alerts", rows)
    IN  /\ Len(alerts) = Flags(rows, "temp") + Flags(rows, "route")
                           + Flags(rows, "fraud") + Flags(rows, "origin")
        /\ HowMany(alerts, OfKey("CRITICAL")) =
              Flags(rows, "temp") + Flags(rows, "fraud") + Flags(rows, "origin")
        /\ HowMany(alerts, OfKey("WARNING")) = Flags(rows, "route")

AuditsMatch(rows) ==
    LET audits == Items("audits", rows)
    IN  /\ Len(audits) = Len(rows)
        /\ HowMany(audits, OfKey("Passed")) + HowMany(audits, OfKey("Warning"))
              + HowMany(audits, OfKey("Failed")) = Len(rows)
        /\ HowMany(audits, OfKey("Failed")) = Flags(rows, "fraud")

LEMMA NothingOfNone ==
    /\ \A e : Items(e, <<>>) = <<>>
    /\ \A set : HowMany(<<>>, set) = 0
<1>1. ASSUME NEW e PROVE Items(e, <<>>) = <<>>
  <2>1. PICK none, lists : none = <<>> /\ lists = [i \in DOMAIN none |-> OfRow(e, none[i], i)]
    OBVIOUS
  <2>2. none \in Seq({}) /\ DOMAIN none = 1 .. 0
    BY <2>1
  <2>3. lists \in [1 .. 0 -> {}]
    BY <2>1, <2>2
  <2>4. lists \in Seq({}) /\ Len(lists) = 0
    BY <2>3
  <2>5. lists = <<>>
    BY <2>4
  <2>6. Items(e, none) = FlattenSeq(lists)
    BY <2>1 DEF Items
  <2>7. QED
    BY <2>1, <2>5, <2>6, FlattenedNone
<1>2. ASSUME NEW set PROVE HowMany(<<>>, set) = 0
  BY KeptOfNone DEF HowMany
<1>3. QED
  BY <1>1, <1>2

LEMMA ItemsJoined ==
    ASSUME NEW e, NEW rows \in Seq(CsvRow), NEW row \in CsvRow
    PROVE  Joined(Items(e, rows), OfRow(e, row, Len(rows) + 1), Items(e, Append(rows, row)))
<1>1. PICK a, b : a = Items(e, rows) /\ b = OfRow(e, row, Len(rows) + 1)
  OBVIOUS
<1>2. a \in Seq(NewItem) /\ b \in Seq(NewItem)
  <2>1. Len(rows) + 1 \in Nat
    BY LenProperties
  <2>2. QED
    BY <1>1, <2>1, ItemsAre, OfRowIs
<1>3. Joined(a, b, a \o b)
  BY <1>2, BothCounted
<1>4. QED
  BY <1>1, <1>3, ItemsOfMore

LEMMA HowManyIsNat ==
    ASSUME NEW S, NEW s \in Seq(S), NEW set
    PROVE  HowMany(s, set) \in Nat
  BY KeptInList, LenProperties DEF HowMany

LEMMA AlertsMatchAlways ==
    ASSUME NEW rows \in Seq(CsvRow)
    PROVE  AlertsMatch(rows)
<1> DEFINE T == {r \in Seq(CsvRow) : AlertsMatch(r)}
<1>1. <<>> \in T
  <2>1. PICK none : none = <<>>
    OBVIOUS
  <2>2. Items("alerts", none) = none /\ Len(none) = 0 /\ \A set : HowMany(none, set) = 0
    BY <2>1, NothingOfNone
  <2>3. \A flag : Flags(none, flag) = 0
    BY <2>2 DEF Flags
  <2>4. AlertsMatch(none)
    <3>1. /\ Len(Items("alerts", none)) = 0
          /\ HowMany(Items("alerts", none), OfKey("CRITICAL")) = 0
          /\ HowMany(Items("alerts", none), OfKey("WARNING")) = 0
      BY <2>2
    <3>2. /\ Flags(none, "temp") = 0 /\ Flags(none, "route") = 0
          /\ Flags(none, "fraud") = 0 /\ Flags(none, "origin") = 0
      BY <2>3
    <3>3. QED
      BY <3>1, <3>2 DEF AlertsMatch
  <2>5. none \in Seq(CsvRow)
    BY <2>1
  <2>6. QED
    BY <2>1, <2>4, <2>5
<1>2. ASSUME NEW r \in T, NEW row \in CsvRow PROVE Append(r, row) \in T
  <2>1. r \in Seq(CsvRow) /\ AlertsMatch(r)
    OBVIOUS
  <2>2. PICK more : more = Append(r, row)
    OBVIOUS
  <2>3. more \in Seq(CsvRow)
    BY <2>1, <2>2, AppendProperties
  <2>4. PICK a, b, c : /\ a = Items("alerts", r) /\ c = Items("alerts", more)
                       /\ b = AlertsOf(row, Len(r) + 1)
    OBVIOUS
  <2>5. Joined(a, b, c)
    <3>1. OfRow("alerts", row, Len(r) + 1) = AlertsOf(row, Len(r) + 1)
      BY DEF OfRow
    <3>2. QED
      BY <2>1, <2>2, <2>4, <3>1, ItemsJoined
  <2>6. PICK t \in Nat, o \in Nat, f \in Nat, g \in Nat :
           /\ t = Flags(r, "temp") /\ o = Flags(r, "route")
           /\ f = Flags(r, "fraud") /\ g = Flags(r, "origin")
    BY <2>1, FlagsOfMore
  <2>7. PICK t1 \in {0, 1}, o1 \in {0, 1}, f1 \in {0, 1}, g1 \in {0, 1} :
           /\ t1 = row.temp /\ o1 = row.route /\ f1 = row.fraud /\ g1 = row.origin
    BY DEF CsvRow
  <2>8. /\ Flags(more, "temp") = t + t1 /\ Flags(more, "route") = o + o1
        /\ Flags(more, "fraud") = f + f1 /\ Flags(more, "origin") = g + g1
    BY <2>1, <2>2, <2>6, <2>7, FlagsOfMore
  <2>9. /\ Len(b) = t1 + o1 + f1 + g1
        /\ HowMany(b, OfKey("CRITICAL")) = t1 + f1 + g1
        /\ HowMany(b, OfKey("WARNING")) = o1
    <3>1. Len(r) + 1 \in Nat
      BY <2>1, LenProperties
    <3>2. QED
      BY <2>4, <2>7, <3>1, AlertsCounted
  <2>10. /\ Len(a) = t + o + f + g
         /\ HowMany(a, OfKey("CRITICAL")) = t + f + g
         /\ HowMany(a, OfKey("WARNING")) = o
    BY <2>1, <2>4, <2>6 DEF AlertsMatch
  <2>11. /\ Len(c) = (t + t1) + (o + o1) + (f + f1) + (g + g1)
         /\ HowMany(c, OfKey("CRITICAL")) = (t + t1) + (f + f1) + (g + g1)
         /\ HowMany(c, OfKey("WARNING")) = o + o1
    <3>1. Len(c) = Len(a) + Len(b)
      BY <2>5 DEF Joined
    <3>2. \A set : HowMany(c, set) = HowMany(a, set) + HowMany(b, set)
      BY <2>5 DEF Joined
    <3>3. Len(c) = (t + o + f + g) + (t1 + o1 + f1 + g1)
      BY <2>9, <2>10, <3>1
    <3>4. HowMany(c, OfKey("CRITICAL")) = (t + f + g) + (t1 + f1 + g1)
      BY <2>9, <2>10, <3>2
    <3>5. HowMany(c, OfKey("WARNING")) = o + o1
      BY <2>9, <2>10, <3>2
    <3>6. QED
      BY <3>3, <3>4, <3>5
  <2>12. AlertsMatch(more)
    BY <2>4, <2>8, <2>11 DEF AlertsMatch
  <2>13. QED
    BY <2>2, <2>3, <2>12
<1>3. T \in SUBSET Seq(CsvRow)
  OBVIOUS
<1> HIDE DEF T
<1>4. rows \in T
  BY <1>1, <1>2, <1>3, ListsByAppending
<1>5. QED
  BY <1>4 DEF T

LEMMA AuditsMatchAlways ==
    ASSUME NEW rows \in Seq(CsvRow)
    PROVE  AuditsMatch(rows)
<1> DEFINE T == {r \in Seq(CsvRow) : AuditsMatch(r)}
<1>1. <<>> \in T
  <2>1. PICK none : none = <<>>
    OBVIOUS
  <2>2. Items("audits", none) = none /\ Len(none) = 0 /\ \A set : HowMany(none, set) = 0
    BY <2>1, NothingOfNone
  <2>3. \A flag : Flags(none, flag) = 0
    BY <2>2 DEF Flags
  <2>4. AuditsMatch(none)
    BY <2>2, <2>3 DEF AuditsMatch
  <2>5. none \in Seq(CsvRow)
    BY <2>1
  <2>6. QED
    BY <2>1, <2>4, <2>5
<1>2. ASSUME NEW r \in T, NEW row \in CsvRow PROVE Append(r, row) \in T
  <2>1. r \in Seq(CsvRow) /\ AuditsMatch(r)
    OBVIOUS
  <2>2. PICK more : more = Append(r, row)
    OBVIOUS
  <2>3. more \in Seq(CsvRow) /\ Len(more) = Len(r) + 1
    BY <2>1, <2>2, AppendProperties
  <2>4. PICK n \in Nat, f \in Nat, f1 \in {0, 1} :
           n = Len(r) /\ f = Flags(r, "fraud") /\ f1 = row.fraud
    <3>1. Flags(r, "fraud") \in Nat /\ row.fraud \in {0, 1}
      BY <2>1, FlagsOfMore DEF CsvRow
    <3>2. QED
      BY <2>1, <3>1, LenProperties
  <2>5. Flags(more, "fraud") = f + f1
    BY <2>1, <2>2, <2>4, FlagsOfMore
  <2>6. PICK a, b, c : /\ a = Items("audits", r) /\ c = Items("audits", more)
                       /\ b = AuditsOf(row, n + 1)
    OBVIOUS
  <2>7. Joined(a, b, c)
    <3>1. OfRow("audits", row, Len(r) + 1) = AuditsOf(row, Len(r) + 1)
      BY DEF OfRow
    <3>2. QED
      BY <2>1, <2>2, <2>4, <2>6, <3>1, ItemsJoined
  <2>8. a \in Seq(NewItem) /\ b \in Seq(NewItem)
    <3>1. AuditsOf(row, n + 1) = OfRow("audits", row, n + 1)
      BY DEF OfRow
    <3>2. QED
      BY <2>1, <2>6, <3>1, ItemsAre, OfRowIs
  <2>9. PICK p \in Nat, w \in Nat, x \in Nat :
           /\ p = HowMany(a, OfKey("Passed")) /\ w = HowMany(a, OfKey("Warning"))
           /\ x = HowMany(a, OfKey("Failed"))
    BY <2>8, HowManyIsNat
  <2>10. PICK p1 \in Nat, w1 \in Nat, x1 \in Nat :
           /\ p1 = HowMany(b, OfKey("Passed")) /\ w1 = HowMany(b, OfKey("Warning"))
           /\ x1 = HowMany(b, OfKey("Failed"))
    BY <2>8, HowManyIsNat
  <2>11. Len(b) = 1 /\ p1 + w1 + x1 = 1 /\ x1 = f1
    BY <2>4, <2>6, <2>10, AuditsCounted
  <2>12. Len(a) = n /\ p + w + x = n /\ x = f
    BY <2>1, <2>4, <2>6, <2>9 DEF AuditsMatch
  <2>13. /\ Len(c) = n + 1
         /\ HowMany(c, OfKey("Passed")) = p + p1
         /\ HowMany(c, OfKey("Warning")) = w + w1
         /\ HowMany(c, OfKey("Failed")) = x + x1
    <3>1. Len(c) = Len(a) + Len(b) /\ \A set : HowMany(c, set) = HowMany(a, set) + HowMany(b, set)
      BY <2>7 DEF Joined
    <3>2. QED
      BY <2>9, <2>10, <2>11, <2>12, <3>1
  <2>14. (p + p1) + (w + w1) + (x + x1) = n + 1 /\ x + x1 = f + f1
    BY <2>11, <2>12
  <2>15. AuditsMatch(more)
    BY <2>3, <2>4, <2>5, <2>6, <2>13, <2>14 DEF AuditsMatch
  <2>16. QED
    BY <2>2, <2>3, <2>15
<1>3. T \in SUBSET Seq(CsvRow)
  OBVIOUS
<1> HIDE DEF T
<1>4. rows \in T
  BY <1>1, <1>2, <1>3, ListsByAppending
<1>5. QED
  BY <1>4 DEF T

\* build-dataset.mjs:279-332: whatever the rows, the statistics are those of the lists.
THEOREM NumbersAreOfTheLists ==
    ASSUME NEW rows \in Seq(CsvRow)
    PROVE  StatsMatchLists(rows)
<1> DEFINE total(e, key) == Folder(Group(Items(e, rows), key)).total
<1>1. ASSUME NEW e, NEW key PROVE total(e, key) = Len(Group(Items(e, rows), key))
  BY DEF Folder
<1>2. ASSUME NEW e PROVE total(e, "all") = Len(Items(e, rows))
  BY <1>1, ItemsAre, GroupOfAll
<1>3. ASSUME NEW e, NEW key, key # "all"
      PROVE  Count(e, rows, key) = HowMany(Items(e, rows), OfKey(key))
  BY <1>3, ItemsAre, GroupCount DEF Count
<1> HIDE DEF total
<1>4. \A flag : Flagged(rows, flag) = Flags(rows, flag)
  BY FlaggedIs DEF Flags
<1>5. PICK t \in Nat, o \in Nat, f \in Nat, g \in Nat, n \in Nat :
         /\ t = Flags(rows, "temp") /\ o = Flags(rows, "route")
         /\ f = Flags(rows, "fraud") /\ g = Flags(rows, "origin")
         /\ n = Len(rows)
  BY HowManyIsNat, LenProperties DEF Flags
<1>6. /\ Count("alerts", rows, "CRITICAL") = t + f + g
      /\ Count("alerts", rows, "WARNING") = o
      /\ Len(Items("alerts", rows)) = t + o + f + g
  <2>1. /\ HowMany(Items("alerts", rows), OfKey("CRITICAL")) = t + f + g
        /\ HowMany(Items("alerts", rows), OfKey("WARNING")) = o
        /\ Len(Items("alerts", rows)) = t + o + f + g
    BY <1>5, AlertsMatchAlways DEF AlertsMatch
  <2>2. "CRITICAL" # "all" /\ "WARNING" # "all"
    OBVIOUS
  <2>3. QED
    BY <1>3, <2>1, <2>2
<1>7. PICK p \in Nat, w \in Nat, x \in Nat :
         /\ p = Count("audits", rows, "Passed") /\ w = Count("audits", rows, "Warning")
         /\ x = Count("audits", rows, "Failed")
         /\ p + w + x = n /\ x = f
         /\ Len(Items("audits", rows)) = n
  <2>1. PICK items \in Seq(NewItem) : items = Items("audits", rows)
    BY ItemsAre
  <2>2. /\ HowMany(items, OfKey("Passed")) \in Nat
        /\ HowMany(items, OfKey("Warning")) \in Nat
        /\ HowMany(items, OfKey("Failed")) \in Nat
    BY HowManyIsNat
  <2>3. "Passed" # "all" /\ "Warning" # "all" /\ "Failed" # "all"
    OBVIOUS
  <2>4. /\ Count("audits", rows, "Passed") = HowMany(items, OfKey("Passed"))
        /\ Count("audits", rows, "Warning") = HowMany(items, OfKey("Warning"))
        /\ Count("audits", rows, "Failed") = HowMany(items, OfKey("Failed"))
    BY <1>3, <2>1, <2>3
  <2>5. AuditsMatch(rows)
    BY AuditsMatchAlways
  <2>6. QED
    BY <1>5, <2>1, <2>2, <2>4, <2>5 DEF AuditsMatch
<1>8. PICK s : s = Stats(rows)
  OBVIOUS
<1>9. /\ s.totalShipments = n /\ s.totalAlerts = Len(Items("alerts", rows))
      /\ s.fraudCount = f /\ s.tempViolations = t
      /\ s.routeDeviations = o /\ s.originMismatches = g
      /\ s.passedAudits = p /\ s.failedAudits = x
      /\ s.criticalAlerts = t + f + g /\ s.warningAlerts = o
      /\ s.pendingAudits = w + x
  BY <1>4, <1>5, <1>6, <1>7, <1>8 DEF Stats
<1>10. s.statusCounts = [k \in {statusOf(rows[i]) : i \in DOMAIN rows} |-> Count("shipments", rows, k)]
  BY <1>8 DEF Stats
<1>11. \A k \in DOMAIN s.statusCounts : s.statusCounts[k] = total("shipments", k)
  BY <1>1, <1>10 DEF Count
<1>12. ASSUME NEW i \in DOMAIN rows, AlertsOf(rows[i], i) # <<>>
       PROVE  AuditsOf(rows[i], i)[1].status # "Passed"
  <2>1. i \in Nat /\ rows[i] \in CsvRow
    BY LenProperties, ElementOfSeq
  <2>2. QED
    BY <1>12, <2>1, AuditsCounted
<1>13. /\ s.totalAlerts = total("alerts", "all")
       /\ s.criticalAlerts = s.tempViolations + s.fraudCount + s.originMismatches
       /\ s.warningAlerts = s.routeDeviations
       /\ s.criticalAlerts + s.warningAlerts = s.totalAlerts
       /\ s.passedAudits + s.pendingAudits = total("audits", "all")
       /\ s.totalShipments = total("audits", "all")
       /\ s.failedAudits = s.fraudCount
  <2>1. total("alerts", "all") = t + o + f + g /\ total("audits", "all") = n
    BY <1>2, <1>6, <1>7
  <2>2. (t + f + g) + o = t + o + f + g /\ p + (w + x) = n
    BY <1>7
  <2>3. QED
    BY <1>6, <1>7, <1>9, <2>1, <2>2
<1>14. QED
  BY <1>8, <1>11, <1>12, <1>13 DEF StatsMatchLists, total


-----------------------------------------------------------------------------
(* What a list page is sent *)

\* The site holds the lists and the files that build-dataset.mjs makes of some rows.
SiteIs ==
    /\ entity \in Entity
    /\ live \in BOOLEAN
    /\ site.rows \in Seq(CsvRow)
    /\ site.list = Items(entity, site.rows)
    /\ site.folders = paginateAndWrite(entity, site.rows)

LEMMA SiteIsWhole ==
    ASSUME SiteIs
    PROVE  DatasetIsWhole /\ site.list \in Seq(NewItem)
<1>1. PagesAreTheGroup(site.list, site.folders)
  BY FilesAreTheLists DEF SiteIs
<1>2. StatsMatchLists(site.rows)
  BY NumbersAreOfTheLists DEF SiteIs
<1>3. site.list \in Seq(NewItem)
  BY ItemsAre DEF SiteIs
<1>4. QED
  BY <1>1, <1>2, <1>3 DEF DatasetIsWhole

GroupOf(f) == IF live THEN site.list ELSE Group(site.list, IF f = "" THEN "all" ELSE f)

First(res) == (res.page - 1) * res.pageSize + 1
Last_(res) == Smaller(res.page * res.pageSize, res.total)

\* An answer is the page it says it is of the group that was asked for.
PageOf(res, f) ==
    /\ res.total = Len(GroupOf(f))
    /\ res.page \in 1 .. res.totalPages
    /\ res.data = SubSeq(GroupOf(f), First(res), Last_(res))

NewPage == [data : Seq(NewItem), total : Nat, page : Nat, totalPages : Nat, pageSize : Nat]

LEMMA NewPageIs ==
    ASSUME NEW data \in Seq(NewItem), NEW total \in Nat, NEW p \in Nat, NEW pages \in Nat,
           NEW size \in Nat
    PROVE  [data |-> data, total |-> total, page |-> p, totalPages |-> pages,
            pageSize |-> size] \in NewPage
  BY DEF NewPage

LEMMA AnswersOfService ==
    ASSUME SiteIs, live, NEW load, NEW answer \in Answers(load)
    PROVE  answer \in NewPage /\ PageOf(answer, load.filter)
<1>1. PICK list \in Seq(NewItem) : list = site.list
  BY SiteIsWhole
<1>2. PICK n \in Nat : n = Len(list)
  BY <1>1, LenProperties
<1>3. answer = [data |-> list, total |-> n, page |-> 1, totalPages |-> 1, pageSize |-> n]
  BY <1>1, <1>2 DEF Answers
<1>4. answer \in NewPage
  BY <1>3, NewPageIs
<1>5. First(answer) = 1 /\ Last_(answer) = n
  <2>1. (1 - 1) * n + 1 = 1 /\ 1 * n = n
    OBVIOUS
  <2>2. QED
    BY <1>3, <2>1 DEF First, Last_, Smaller
<1>6. GroupOf(load.filter) = list
  BY <1>1 DEF GroupOf
<1>7. SubSeq(list, 1, n) = list
  BY <1>2, SubSeqFull
<1>8. PageOf(answer, load.filter)
  BY <1>2, <1>3, <1>5, <1>6, <1>7 DEF PageOf
<1>9. QED
  BY <1>4, <1>8

LEMMA AnswersOfFiles ==
    ASSUME SiteIs, ~live, NEW load, load.page \in Nat \ {0}, NEW answer \in Answers(load)
    PROVE  answer \in NewPage /\ PageOf(answer, load.filter)
<1>0. PICK folders : folders = site.folders
  OBVIOUS
<1>1. PICK list \in Seq(NewItem) : list = site.list
  BY SiteIsWhole
<1>2. /\ DOMAIN folders = {"all"} \cup {list[i].key : i \in DOMAIN list}
      /\ \A key \in DOMAIN folders : folders[key] = Folder(Group(list, key))
  <2>1. PICK rows \in Seq(CsvRow), e \in Entity : e = entity /\ rows = site.rows
    BY DEF SiteIs
  <2>2. list = Items(e, rows) /\ folders = paginateAndWrite(e, rows)
    BY <1>0, <1>1, <2>1 DEF SiteIs
  <2>3. LET its == Items(e, rows)
            fs  == paginateAndWrite(e, rows)
        IN  /\ DOMAIN fs = {"all"} \cup {its[i].key : i \in DOMAIN its}
            /\ \A key \in DOMAIN fs :
                  fs[key] = Folder(Group(its, key)) /\ Group(its, key) \in Seq(NewItem)
    BY FoldersAre
  <2>4. QED
    BY <2>2, <2>3, Zenon
<1>3. PICK key : key = IF load.filter = "" THEN "all" ELSE load.filter
  OBVIOUS
<1>4. PICK group : group = Group(list, key)
  OBVIOUS
<1>5. /\ group \in Seq(NewItem)
      /\ ToSet(group) = {x \in ToSet(list) : key = "all" \/ x.key = key}
  BY <1>4, GroupIs
<1>6. GroupOf(load.filter) = group
  BY <1>1, <1>3, <1>4 DEF GroupOf
<1>7. PICK size \in Nat, n \in Nat : size = PageSize /\ n = Len(group) /\ size >= 1
  BY <1>5, LenProperties, PageSizeAssumption
<1>8. answer \in staticPage(folders, load.filter, load.page)
  BY <1>0, <1>1 DEF Answers
<1>9. CASE key \notin DOMAIN folders
  <2>1. answer = [data |-> <<>>, total |-> 0, page |-> 1, totalPages |-> 1, pageSize |-> size]
    BY <1>3, <1>7, <1>8, <1>9 DEF staticPage
  <2>2. group = <<>>
    <3>1. ToSet(group) = {}
      <4>1. key # "all" /\ \A i \in DOMAIN list : list[i].key # key
        BY <1>2, <1>9
      <4>2. QED
        BY <1>5, <4>1 DEF ToSet
    <3>2. Len(group) = 0
      BY <1>5, <3>1, LenProperties DEF ToSet
    <3>3. QED
      BY <1>5, <3>2
  <2>3. PICK none : none = <<>>
    OBVIOUS
  <2>4. none \in Seq(NewItem) /\ Len(none) = 0
    BY <2>3
  <2>5. answer \in NewPage
    BY <2>1, <2>3, <2>4, NewPageIs
  <2>6. First(answer) = 1 /\ Last_(answer) = 0
    <3>1. (1 - 1) * size + 1 = 1 /\ 1 * size = size
      OBVIOUS
    <3>2. QED
      BY <1>7, <2>1, <3>1 DEF First, Last_, Smaller
  <2>7. SubSeq(group, 1, 0) = <<>>
    BY SubSeqEmpty
  <2>8. answer.total = Len(group)
    BY <2>1, <2>2, <2>3, <2>4
  <2>9. answer.page \in 1 .. answer.totalPages /\ answer.data = <<>>
    BY <2>1
  <2>10. PageOf(answer, load.filter)
    BY <1>6, <2>6, <2>7, <2>8, <2>9 DEF PageOf
  <2>11. QED
    BY <2>5, <2>10
<1>10. CASE key \in DOMAIN folders
  <2>1. PICK f : f = Folder(group) /\ f = folders[key]
    BY <1>2, <1>4, <1>10
  <2>2. /\ f.files \in Seq(Seq(NewItem))
        /\ f.total = n
        /\ f.pages = Larger(1, Len(f.files))
        /\ \A i \in 1 .. Len(f.files) : f.files[i] = Part(group, i)
    BY <1>5, <1>7, <2>1, FolderIs
  <2>3. PICK p : p = Larger(1, Smaller(load.page, f.pages))
    OBVIOUS
  <2>4. PICK pages \in Nat : pages = f.pages /\ pages >= 1
    BY <2>2, LenProperties DEF Larger
  <2>5. p \in 1 .. pages
    BY <2>3, <2>4 DEF Larger, Smaller
  <2>6. /\ p \in DOMAIN f.files
        /\ answer = [data |-> f.files[p], total |-> n, page |-> p, totalPages |-> pages,
                     pageSize |-> size]
    BY <1>3, <1>7, <1>8, <1>10, <2>1, <2>2, <2>3, <2>4 DEF staticPage
  <2>7. PICK file \in Seq(NewItem) : file = f.files[p] /\ file = Part(group, p)
    <3>1. p \in 1 .. Len(f.files)
      BY <2>2, <2>6, LenProperties
    <3>2. f.files[p] \in Seq(NewItem)
      BY <2>2, <3>1, ElementOfSeq
    <3>3. QED
      BY <2>2, <3>1, <3>2
  <2>8. answer \in NewPage
    <3>1. answer = [data |-> file, total |-> n, page |-> p, totalPages |-> pages,
                    pageSize |-> size]
      BY <2>6, <2>7
    <3>2. QED
      BY <2>5, <3>1, NewPageIs
  <2>9. First(answer) = (p - 1) * size + 1 /\ Last_(answer) = Smaller(p * size, n)
    BY <2>6 DEF First, Last_
  <2>10. answer.data = SubSeq(group, First(answer), Last_(answer))
    BY <1>7, <2>6, <2>7, <2>9 DEF Part
  <2>11. PageOf(answer, load.filter)
    BY <1>6, <1>7, <2>5, <2>6, <2>10 DEF PageOf
  <2>12. QED
    BY <2>8, <2>11
<1>11. QED
  BY <1>9, <1>10


-----------------------------------------------------------------------------
(* What an action leaves of the rows *)

LEMMA IdsOfRows ==
    ASSUME NEW data
    PROVE  Ids(data) = {x.id : x \in ToSet(data)}
  BY DEF Ids, ToSet

LEMMA NewItemsAreItems == NewItem \subseteq Item /\ NewPage \subseteq Page
<1>1. NewItem \subseteq Item
  BY DEF NewItem, Item
<1>2. Seq(NewItem) \subseteq Seq(Item)
  BY <1>1
<1>3. NewPage \subseteq Page
  BY <1>2 DEF NewPage, Page
<1>4. QED
  BY <1>1, <1>3

\* Marking a row changes its status only, and only of a row that was acted on; a
\* row that goes was ignored.
MarkedBy(act, y, x) ==
    /\ act.kind \in DOMAIN Mark
    /\ y.id = x.id
    /\ y.status = Mark[act.kind]
    /\ x.id \in act.ids \/ (act.kind = "bulk" /\ x.status = "OPEN")

LEMMA MarkedIs ==
    ASSUME NEW act \in Act, NEW data \in Seq(Item)
    PROVE  /\ Marked(act, data) \in Seq(Item)
           /\ \A y \in ToSet(Marked(act, data)) :
                 y \in ToSet(data) \/ \E x \in ToSet(data) : MarkedBy(act, y, x)
           /\ \A x \in ToSet(data) :
                 \/ act.kind = "ignore" /\ x.id \in act.ids
                 \/ \E y \in ToSet(Marked(act, data)) : y.id = x.id
<1>1. CASE act.kind = "ignore"
  <2> DEFINE set == {x \in ToSet(data) : x.id \notin act.ids}
  <2>1. Marked(act, data) = Kept(data, set)
    BY <1>1 DEF Marked
  <2>2. Kept(data, set) \in Seq(Item) /\ ToSet(Kept(data, set)) = ToSet(data) \cap set
    BY KeptInList, KeptMembers
  <2>3. QED
    BY <1>1, <2>1, <2>2
<1>2. CASE act.kind = "request"
  <2>1. Marked(act, data) = data
    BY <1>2 DEF Marked
  <2>2. QED
    BY <2>1
<1>3. CASE act.kind \notin {"ignore", "request"}
  <2>1. PICK n \in Nat : n = Len(data) /\ DOMAIN data = 1 .. n
    BY LenProperties
  <2>2. act.kind \in DOMAIN Mark /\ Mark[act.kind] \in Marks
    BY <1>3 DEF Act, Mark, Marks
  <2>3. PICK mark : mark = Mark[act.kind] /\ mark \in Marks
    BY <2>2
  <2> DEFINE hit(x) == IF act.kind = "bulk" THEN x.status = "OPEN" ELSE x.id \in act.ids
             new(x) == IF hit(x) THEN [x EXCEPT !.status = mark] ELSE x
  <2>4. Marked(act, data) = [i \in 1 .. n |-> new(data[i])]
    BY <1>3, <2>1, <2>3 DEF Marked
  <2>5. ASSUME NEW x \in Item
        PROVE  /\ new(x) \in Item /\ new(x).id = x.id
               /\ new(x) = x \/ MarkedBy(act, new(x), x)
    <3>1. CASE hit(x)
      <4>1. /\ [x EXCEPT !.status = mark] \in Item
            /\ [x EXCEPT !.status = mark].id = x.id
            /\ [x EXCEPT !.status = mark].status = mark
        BY <2>3 DEF Item, Marks
      <4>2. QED
        BY <2>2, <2>3, <3>1, <4>1 DEF MarkedBy
    <3>2. CASE ~hit(x)
      BY <3>2
    <3>3. QED
      BY <3>1, <3>2
  <2> HIDE DEF new
  <2>6. \A i \in 1 .. n : data[i] \in Item
    BY <2>1, ElementOfSeq
  <2>7. PICK f : f = [i \in 1 .. n |-> new(data[i])]
    OBVIOUS
  <2>8. f \in Seq(Item) /\ DOMAIN f = 1 .. n /\ \A i \in 1 .. n : f[i] = new(data[i])
    <3>1. f \in [1 .. n -> Item]
      BY <2>5, <2>6, <2>7
    <3>2. QED
      BY <2>7, <3>1
  <2>9. ASSUME NEW y \in ToSet(f)
        PROVE  y \in ToSet(data) \/ \E x \in ToSet(data) : MarkedBy(act, y, x)
    <3>1. PICK i \in 1 .. n : y = new(data[i])
      BY <2>8 DEF ToSet
    <3>2. data[i] \in ToSet(data)
      BY <2>1 DEF ToSet
    <3>3. QED
      BY <2>5, <2>6, <3>1, <3>2
  <2>10. ASSUME NEW x \in ToSet(data)
         PROVE  \E y \in ToSet(f) : y.id = x.id
    <3>1. PICK i \in 1 .. n : x = data[i]
      BY <2>1 DEF ToSet
    <3>2. f[i] \in ToSet(f) /\ f[i] = new(data[i])
      BY <2>8 DEF ToSet
    <3>3. QED
      BY <2>5, <2>6, <3>1, <3>2
  <2>11. QED
    BY <2>4, <2>7, <2>8, <2>9, <2>10
<1>4. QED
  BY <1>1, <1>2, <1>3

LEMMA MarkedNone ==
    ASSUME NEW act \in Act
    PROVE  Marked(act, <<>>) = <<>>
<1>1. PICK none : none = <<>>
  OBVIOUS
<1>2. none \in Seq(Item) /\ ToSet(none) = {}
  BY <1>1 DEF ToSet
<1>3. PICK s : s = Marked(act, none)
  OBVIOUS
<1>4. s \in Seq(Item) /\ ToSet(s) = {}
  BY <1>2, <1>3, MarkedIs
<1>5. Len(s) = 0
  BY <1>4, LenProperties DEF ToSet
<1>6. QED
  BY <1>1, <1>3, <1>4, <1>5


-----------------------------------------------------------------------------
(* The rows of a page: the three properties, said of the set of the rows *)

Ignored(as) == UNION {as[n].ids : n \in {m \in DOMAIN as : as[m].kind = "ignore"}}

Chosen(ls) == {ls[n].filter : n \in DOMAIN ls}

\* The rows are a page of the group of f, but for those that were ignored.
RowsOf(res, f, ignored) ==
    LET there == Ids(SubSeq(GroupOf(f), First(res), Last_(res)))
    IN  /\ res.total = Len(GroupOf(f))
        /\ res.page \in 1 .. res.totalPages
        /\ Ids(res.data) \subseteq there
        /\ there \ ignored \subseteq Ids(res.data)

LEMMA ShownIs ==
    ShownIsOnePage <=>
        (result # NoPage => \E f \in Chosen(loads) : RowsOf(result, f, Ignored(acts)))
  BY DEF ShownIsOnePage, Chosen, RowsOf, Ignored, GroupOf, First, Last_

Earned(x, as) ==
    x.status \in Marks =>
        \E n \in DOMAIN as :
           /\ as[n].pc = "ok"
           /\ as[n].kind \in DOMAIN Mark /\ Mark[as[n].kind] = x.status
           /\ \/ x.id \in as[n].ids
              \/ as[n].kind = "bulk" /\ x.id \in as[n].met

LEMMA EarnedIs == MarkIsEarned <=> \A x \in ToSet(result.data) : Earned(x, acts)
  BY DEF MarkIsEarned, Earned, ToSet, Marks

\* What a bulk action that is away will mark was sent with it, or came since.
Covered(act, rows) ==
    act.pc = "sent" /\ act.kind = "bulk" =>
        \A x \in rows : x.status = "OPEN" => x.id \in act.ids \cup act.met

BulkCovers == \A n \in DOMAIN acts : Covered(acts[n], ToSet(result.data))

PageInv == ListTypeOK /\ SiteIs /\ ShownIsOnePage /\ MarkIsEarned /\ BulkCovers

-----------------------------------------------------------------------------
(* Loads and actions are only added, and what was answered stays answered *)

LoadsStay(ls, ms) ==
    DOMAIN ls \subseteq DOMAIN ms /\ \A n \in DOMAIN ls : ms[n].filter = ls[n].filter

ActsStay(as, bs) ==
    /\ DOMAIN as \subseteq DOMAIN bs
    /\ \A n \in DOMAIN as :
          /\ bs[n].kind = as[n].kind
          /\ bs[n].ids = as[n].ids
          /\ as[n].met \subseteq bs[n].met
          /\ as[n].pc = "ok" => bs[n].pc = "ok"

LEMMA ChosenStay ==
    ASSUME NEW ls, NEW ms, LoadsStay(ls, ms)
    PROVE  Chosen(ls) \subseteq Chosen(ms)
  BY DEF LoadsStay, Chosen

LEMMA IgnoredStay ==
    ASSUME NEW as, NEW bs, ActsStay(as, bs)
    PROVE  Ignored(as) \subseteq Ignored(bs)
<1>1. ASSUME NEW id \in Ignored(as) PROVE id \in Ignored(bs)
  <2>1. PICK n \in DOMAIN as : as[n].kind = "ignore" /\ id \in as[n].ids
    BY DEF Ignored
  <2>2. n \in DOMAIN bs /\ bs[n].kind = "ignore" /\ id \in bs[n].ids
    BY <2>1 DEF ActsStay
  <2>3. QED
    BY <2>2 DEF Ignored
<1>2. QED
  BY <1>1

LEMMA EarnedStays ==
    ASSUME NEW as, NEW bs, ActsStay(as, bs), NEW x, Earned(x, as)
    PROVE  Earned(x, bs)
  BY DEF ActsStay, Earned

LEMMA RowsStay ==
    ASSUME NEW res, NEW f, NEW as, NEW bs, ActsStay(as, bs), RowsOf(res, f, Ignored(as))
    PROVE  RowsOf(res, f, Ignored(bs))
  BY IgnoredStay DEF RowsOf

LEMMA Longer ==
    ASSUME NEW S, NEW s \in Seq(S), NEW x \in S
    PROVE  /\ Append(s, x) \in Seq(S)
           /\ Len(Append(s, x)) = Len(s) + 1
           /\ DOMAIN s \subseteq DOMAIN Append(s, x)
           /\ \A n \in DOMAIN s : Append(s, x)[n] = s[n]
           /\ \A n \in DOMAIN Append(s, x) : n \in DOMAIN s \/ Append(s, x)[n] = x
<1>1. PICK n \in Nat : n = Len(s) /\ DOMAIN s = 1 .. n
  BY LenProperties
<1>2. PICK t : t = Append(s, x)
  OBVIOUS
<1>3. t \in Seq(S) /\ Len(t) = n + 1 /\ t[n + 1] = x /\ \A i \in 1 .. n : t[i] = s[i]
  BY <1>1, <1>2, AppendProperties
<1>4. DOMAIN t = 1 .. n + 1
  BY <1>3, LenProperties
<1>5. \A i \in 1 .. n + 1 : i \in 1 .. n \/ i = n + 1
  OBVIOUS
<1>6. QED
  BY <1>1, <1>2, <1>3, <1>4, <1>5

LEMMA Replaced ==
    ASSUME NEW S, NEW s \in Seq(S), NEW n \in DOMAIN s, NEW x \in S
    PROVE  /\ [s EXCEPT ![n] = x] \in Seq(S)
           /\ Len([s EXCEPT ![n] = x]) = Len(s)
           /\ DOMAIN [s EXCEPT ![n] = x] = DOMAIN s
           /\ \A m \in DOMAIN s : [s EXCEPT ![n] = x][m] = IF m = n THEN x ELSE s[m]
<1>1. PICK l \in Nat : l = Len(s) /\ DOMAIN s = 1 .. l
  BY LenProperties
<1>2. QED
  BY <1>1, ExceptSeq

-----------------------------------------------------------------------------
(* Steps that leave the rows as they are *)

\* The open rows are those a new bulk action is sent for.
RowsLeft ==
    /\ UNCHANGED <<entity, live, site, result>>
    /\ LoadsStay(loads, loads')
    /\ ActsStay(acts, acts')
    /\ \A n \in DOMAIN acts' :
          \/ n \in DOMAIN acts /\ acts'[n] = acts[n]
          \/ Covered(acts'[n], ToSet(result.data))

LEMMA RowsLeftStay ==
    ASSUME SiteIs, ShownIsOnePage, MarkIsEarned, BulkCovers, RowsLeft
    PROVE  SiteIs' /\ ShownIsOnePage' /\ MarkIsEarned' /\ BulkCovers'
<1>1. SiteIs'
  BY DEF SiteIs, RowsLeft
<1>2. (result # NoPage => \E f \in Chosen(loads) : RowsOf(result, f, Ignored(acts)))'
  <2>1. SUFFICES ASSUME result # NoPage
                 PROVE  \E f \in Chosen(loads)' : RowsOf(result, f, Ignored(acts))'
    BY DEF RowsLeft
  <2>2. PICK f \in Chosen(loads) : RowsOf(result, f, Ignored(acts))
    BY <2>1, ShownIs
  <2>3. RowsOf(result, f, Ignored(acts'))
    BY <2>2, RowsStay DEF RowsLeft
  <2>4. RowsOf(result, f, Ignored(acts))'
    BY <2>3 DEF RowsOf, RowsLeft, GroupOf
  <2>5. f \in Chosen(loads')
    BY ChosenStay DEF RowsLeft
  <2>6. QED
    BY <2>4, <2>5
<1>3. (\A x \in ToSet(result.data) : Earned(x, acts))'
  <2>1. ASSUME NEW x \in ToSet(result.data) PROVE Earned(x, acts')
    BY EarnedIs, EarnedStays DEF RowsLeft
  <2>2. QED
    BY <2>1 DEF RowsLeft
<1>4. BulkCovers'
  BY DEF BulkCovers, RowsLeft
<1>5. ShownIsOnePage'
  BY <1>2, ShownIs, PTL
<1>6. MarkIsEarned'
  BY <1>3, EarnedIs, PTL
<1>7. QED
  BY <1>1, <1>4, <1>5, <1>6


LEMMA NothingSent ==
    ASSUME UNCHANGED <<entity, live, site, result, loads, acts>>
    PROVE  RowsLeft
  BY DEF RowsLeft, LoadsStay, ActsStay

LEMMA LoadsGrow ==
    ASSUME ListTypeOK, NEW load \in Load, loads' = Append(loads, load),
           UNCHANGED <<entity, live, site, result, acts>>
    PROVE  /\ RowsLeft
           /\ loads' \in Seq(Load) /\ Len(loads') = Len(loads) + 1
<1>1. loads \in Seq(Load)
  BY DEF ListTypeOK
<1>2. PICK ls, ms : ls = loads /\ ms = loads'
  OBVIOUS
<1>3. /\ ms \in Seq(Load) /\ Len(ms) = Len(ls) + 1
      /\ DOMAIN ls \subseteq DOMAIN ms /\ \A n \in DOMAIN ls : ms[n] = ls[n]
  BY <1>1, <1>2, Longer
<1>4. LoadsStay(ls, ms)
  BY <1>3 DEF LoadsStay
<1>5. QED
  BY <1>2, <1>3, <1>4 DEF RowsLeft, ActsStay

LEMMA ActsGrow ==
    ASSUME ListTypeOK, NEW act \in Act, acts' = Append(acts, act),
           Covered(act, ToSet(result.data)),
           UNCHANGED <<entity, live, site, result, loads>>
    PROVE  /\ RowsLeft
           /\ acts' \in Seq(Act) /\ Len(acts') = Len(acts) + 1
<1>1. acts \in Seq(Act)
  BY DEF ListTypeOK
<1>2. PICK as, bs : as = acts /\ bs = acts'
  OBVIOUS
<1>3. /\ bs \in Seq(Act) /\ Len(bs) = Len(as) + 1
      /\ DOMAIN as \subseteq DOMAIN bs /\ \A n \in DOMAIN as : bs[n] = as[n]
      /\ \A n \in DOMAIN bs : n \in DOMAIN as \/ bs[n] = act
  BY <1>1, <1>2, Longer
<1>4. ActsStay(as, bs)
  BY <1>3 DEF ActsStay
<1>5. \A n \in DOMAIN bs : (n \in DOMAIN as /\ bs[n] = as[n]) \/ Covered(bs[n], ToSet(result.data))
  BY <1>3
<1>6. QED
  BY <1>2, <1>3, <1>4, <1>5 DEF RowsLeft, LoadsStay

LEMMA IdsKnown ==
    ASSUME ListTypeOK
    PROVE  /\ Ids(result.data) \subseteq ItemIds
           /\ \A x \in ToSet(result.data) : x \in Item /\ x.id \in Ids(result.data)
           /\ result.page \in Nat /\ result.totalPages \in Nat
<1>1. PICK data : data = result.data
  OBVIOUS
<1>2. data \in Seq(Item) /\ result.page \in Nat /\ result.totalPages \in Nat
  BY <1>1 DEF ListTypeOK, Page
<1>3. ToSet(data) \subseteq Item
  BY <1>2 DEF ToSet
<1>4. \A x \in Item : x.id \in ItemIds
  BY DEF Item
<1>5. QED
  BY <1>1, <1>2, <1>3, <1>4, IdsOfRows

-----------------------------------------------------------------------------
(* The steps *)

LEMMA FilterKnown ==
    ASSUME NEW e \in Entity
    PROVE  "" \in Filters[e] /\ \A f \in Filters[e] : f \in UNION {Filters[d] : d \in Entity}
<1>1. "" \in Filters[e]
  <2>1. /\ "" \in Filters["shipments"] /\ "" \in Filters["alerts"]
        /\ "" \in Filters["escrows"]   /\ "" \in Filters["audits"]
    BY DEF Filters
  <2>2. QED
    BY <2>1 DEF Entity
<1>2. \A f \in Filters[e] : f \in UNION {Filters[d] : d \in Entity}
  OBVIOUS
<1>3. QED
  BY <1>1, <1>2

LEMMA ShowStays ==
    ASSUME ListTypeOK, NEW p \in Nat \ {0}, NEW f \in Filters[entity], Show(p, f)
    PROVE  ListTypeOK' /\ RowsLeft
<1>1. CASE p = page /\ f = filter
  <2>1. UNCHANGED listVars
    BY <1>1 DEF Show, listVars
  <2>2. QED
    BY <2>1, NothingSent DEF listVars, ListTypeOK
<1>2. CASE ~(p = page /\ f = filter)
  <2>1. /\ Len(loads) + Len(acts) < MaxCalls
        /\ loads' = Append(loads, NewLoad(p, f))
        /\ loading' = TRUE /\ selected' = None
    BY <1>2 DEF Show
  <2>2. /\ page' = p /\ filter' = f
        /\ UNCHANGED <<entity, live, site, result, stats, processing, acts, menu>>
    BY DEF Show
  <2>3. PICK load : load = NewLoad(p, f)
    OBVIOUS
  <2>4. load \in Load
    BY <2>3, FilterKnown DEF NewLoad, Load, ListTypeOK
  <2>5. RowsLeft /\ loads' \in Seq(Load) /\ Len(loads') = Len(loads) + 1
    BY <2>1, <2>2, <2>3, <2>4, LoadsGrow
  <2>6. Len(loads') + Len(acts') \in 1 .. MaxCalls
    <3>1. PICK l \in Nat, a \in Nat, m \in Nat :
             l = Len(loads) /\ a = Len(acts) /\ m = MaxCalls /\ l + a < m
      BY <2>1, LenProperties, ListAssumption DEF ListTypeOK
    <3>2. Len(loads') = l + 1 /\ Len(acts') = a
      BY <2>2, <2>5, <3>1
    <3>3. l + 1 + a \in 1 .. m
      BY <3>1
    <3>4. QED
      BY <3>1, <3>2, <3>3
  <2>7. ListTypeOK'
    BY <2>1, <2>2, <2>5, <2>6 DEF ListTypeOK
  <2>8. QED
    BY <2>5, <2>7
<1>3. QED
  BY <1>1, <1>2

LEMMA PagesStay ==
    ASSUME ListTypeOK, Prev \/ Next_ \/ \E p \in PageNumbers : GoTo(p)
    PROVE  ListTypeOK' /\ RowsLeft
<1>0. page \in Nat \ {0} /\ filter \in Filters[entity]
  BY DEF ListTypeOK
<1>1. PICK shown \in Nat, pages \in Nat, asked \in Nat \ {0} :
         shown = result.page /\ pages = result.totalPages /\ asked = page
  BY <1>0, IdsKnown
<1>2. CASE Prev
  <2>1. Larger(1, asked - 1) \in Nat \ {0}
    BY DEF Larger
  <2>2. Show(Larger(1, asked - 1), filter)
    BY <1>1, <1>2 DEF Prev
  <2>3. QED
    BY <1>0, <2>1, <2>2, ShowStays
<1>3. CASE Next_
  <2>1. shown < pages /\ Show(Smaller(pages, asked + 1), filter)
    BY <1>1, <1>3 DEF Next_
  <2>2. Smaller(pages, asked + 1) \in Nat \ {0}
    BY <2>1 DEF Smaller
  <2>3. QED
    BY <1>0, <2>1, <2>2, ShowStays
<1>4. CASE \E p \in PageNumbers : GoTo(p)
  <2>1. PICK p \in PageNumbers : Show(p, filter)
    BY <1>4 DEF GoTo
  <2>2. PICK first \in Int, last \in Int :
           first = Larger(1, shown - 2) /\ last = Smaller(pages, shown + 2)
    BY DEF Larger, Smaller
  <2>3. p \in first .. last \/ p = 1 \/ (p = pages /\ last < pages)
    BY <1>1, <2>1, <2>2 DEF PageNumbers
  <2>4. first >= 1 /\ (last < pages => pages > 0)
    BY <2>2 DEF Larger, Smaller
  <2>5. p \in Nat \ {0}
    BY <2>3, <2>4
  <2>6. QED
    BY <1>0, <2>1, <2>5, ShowStays
<1>5. QED
  BY <1>2, <1>3, <1>4


LEMMA SendStays ==
    ASSUME ListTypeOK, NEW kind, NEW ids, NEW busy \in ItemIds \cup {None, Bulk, Request},
           kind \in {"acknowledge", "ignore", "bulk", "settle", "dispute", "release", "request"},
           ids \subseteq ItemIds \cup {Request},
           kind = "bulk" => \A x \in ToSet(result.data) : x.status = "OPEN" => x.id \in ids,
           processing' = busy, Send(kind, ids)
    PROVE  ListTypeOK' /\ RowsLeft
<1>1. PICK act : act = [kind |-> kind, ids |-> ids, pc |-> "sent", met |-> {}]
  OBVIOUS
<1>2. act \in Act
  BY <1>1 DEF Act
<1>3. Covered(act, ToSet(result.data))
  BY <1>1 DEF Covered
<1>4. /\ acts' = Append(acts, act)
      /\ Len(loads) + Len(acts) < MaxCalls
      /\ UNCHANGED <<entity, live, site, filter, page, result, stats, loading, loads,
                     menu, selected>>
  BY <1>1 DEF Send
<1>5. RowsLeft /\ acts' \in Seq(Act) /\ Len(acts') = Len(acts) + 1
  BY <1>2, <1>3, <1>4, ActsGrow
<1>6. Len(loads') + Len(acts') \in 1 .. MaxCalls
  <2>1. PICK l \in Nat, a \in Nat, m \in Nat :
           l = Len(loads) /\ a = Len(acts) /\ m = MaxCalls /\ l + a < m
    BY <1>4, LenProperties, ListAssumption DEF ListTypeOK
  <2>2. Len(loads') = l /\ Len(acts') = a + 1
    BY <1>4, <1>5, <2>1
  <2>3. l + (a + 1) \in 1 .. m
    BY <2>1
  <2>4. QED
    BY <2>1, <2>2, <2>3
<1>7. ListTypeOK'
  BY <1>4, <1>5, <1>6 DEF ListTypeOK
<1>8. QED
  BY <1>5, <1>7

LEMMA OneItemActsStay ==
    ASSUME ListTypeOK, NEW id \in Ids(result.data),
           \/ handleAcknowledge(id)
           \/ handleIgnore(id)
           \/ \E kind \in {"settle", "dispute", "release"} : handleEscrow(kind, id)
    PROVE  ListTypeOK' /\ RowsLeft
<1>1. id \in ItemIds /\ {id} \subseteq ItemIds \cup {Request}
  BY IdsKnown
<1>2. CASE handleAcknowledge(id)
  <2>1. processing' = id /\ Send("acknowledge", {id})
    BY <1>2 DEF handleAcknowledge
  <2>2. QED
    BY <1>1, <2>1, SendStays
<1>3. CASE handleIgnore(id)
  <2>1. processing' = id /\ Send("ignore", {id})
    BY <1>3 DEF handleIgnore
  <2>2. QED
    BY <1>1, <2>1, SendStays
<1>4. CASE \E kind \in {"settle", "dispute", "release"} : handleEscrow(kind, id)
  <2>1. PICK kind \in {"settle", "dispute", "release"} : handleEscrow(kind, id)
    BY <1>4
  <2>2. PICK busy \in ItemIds \cup {None, Bulk, Request} : processing' = busy
    BY <2>1 DEF handleEscrow, ListTypeOK
  <2>3. Send(kind, {id})
    BY <2>1 DEF handleEscrow
  <2>4. QED
    BY <1>1, <2>2, <2>3, SendStays
<1>5. QED
  BY <1>2, <1>3, <1>4

LEMMA BulkStays ==
    ASSUME ListTypeOK, handleBulkAcknowledge
    PROVE  ListTypeOK' /\ RowsLeft
<1> DEFINE open == {id \in Ids(result.data) : StatusIs(id, "OPEN")}
<1>1. processing' = Bulk /\ Send("bulk", open)
  BY DEF handleBulkAcknowledge
<1>2. open \subseteq ItemIds \cup {Request}
  BY IdsKnown
<1>3. \A x \in ToSet(result.data) : x.status = "OPEN" => x.id \in open
  BY DEF StatusIs, ToSet, Ids
<1> HIDE DEF open
<1>4. QED
  BY <1>1, <1>2, <1>3, SendStays

LEMMA RequestStays ==
    ASSUME ListTypeOK, handleRequestAudit
    PROVE  ListTypeOK' /\ RowsLeft
<1>1. processing' = Request /\ Send("request", {Request})
  BY DEF handleRequestAudit
<1>2. QED
  BY <1>1, SendStays

LEMMA ScreenStays ==
    ASSUME ListTypeOK,
           \/ StatsAnswered
           \/ onCloseShipment
           \/ \E id \in Ids(result.data) : ToggleMenu(id) \/ handleShipmentClick(id)
    PROVE  ListTypeOK' /\ RowsLeft
<1>0. Ids(result.data) \subseteq ItemIds
  BY IdsKnown
<1>1. CASE StatsAnswered
  BY <1>1, NothingSent DEF StatsAnswered, ListTypeOK
<1>2. CASE onCloseShipment
  BY <1>2, NothingSent DEF onCloseShipment, ListTypeOK
<1>3. ASSUME NEW id \in Ids(result.data), ToggleMenu(id)
      PROVE  ListTypeOK' /\ RowsLeft
  BY <1>0, <1>3, NothingSent DEF ToggleMenu, ListTypeOK
<1>4. ASSUME NEW id \in Ids(result.data), handleShipmentClick(id)
      PROVE  ListTypeOK' /\ RowsLeft
  BY <1>0, <1>4, NothingSent DEF handleShipmentClick, ListTypeOK
<1>5. QED
  BY <1>1, <1>2, <1>3, <1>4

LEMMA UserActsStay ==
    ASSUME ListTypeOK, UserActs
    PROVE  ListTypeOK' /\ RowsLeft
<1>1. ASSUME NEW f \in Filters[entity], handleFilterChange(f)
      PROVE  ListTypeOK' /\ RowsLeft
  <2>1. Show(1, f) /\ 1 \in Nat \ {0}
    BY <1>1 DEF handleFilterChange
  <2>2. QED
    BY <2>1, ShowStays
<1>2. QED
  BY <1>1, PagesStay, OneItemActsStay, BulkStays, RequestStays, ScreenStays DEF UserActs

\* A request of an action that failed.
LEMMA ActFailedStays ==
    ASSUME ListTypeOK, NEW n \in DOMAIN acts, ActFailed(n)
    PROVE  ListTypeOK' /\ RowsLeft
<1>1. /\ acts[n].pc = "sent"
      /\ acts' = [acts EXCEPT ![n].pc = "failed"]
      /\ UNCHANGED <<entity, live, site, filter, page, result, stats, loading, loads,
                     processing, menu, selected>>
  BY DEF ActFailed
<1>2. PICK as \in Seq(Act) : as = acts
  BY DEF ListTypeOK
<1>3. PICK act : act = [as[n] EXCEPT !.pc = "failed"]
  OBVIOUS
<1>4. as[n] \in Act
  BY <1>2, ElementOfSeq, LenProperties
<1>5. /\ act \in Act /\ act.pc = "failed" /\ act.kind = as[n].kind /\ act.ids = as[n].ids
      /\ act.met = as[n].met
  BY <1>3, <1>4 DEF Act
<1>6. PICK bs : bs = [as EXCEPT ![n] = act]
  OBVIOUS
<1>7. acts' = bs
  BY <1>1, <1>2, <1>3, <1>6
<1>8. /\ bs \in Seq(Act) /\ Len(bs) = Len(as) /\ DOMAIN bs = DOMAIN as
      /\ \A m \in DOMAIN as : bs[m] = IF m = n THEN act ELSE as[m]
  BY <1>2, <1>5, <1>6, Replaced
<1>9. ActsStay(as, bs)
  BY <1>1, <1>2, <1>5, <1>8 DEF ActsStay
<1>10. \A m \in DOMAIN bs :
          (m \in DOMAIN as /\ bs[m] = as[m]) \/ Covered(bs[m], ToSet(result.data))
  BY <1>5, <1>8 DEF Covered
<1>11. RowsLeft
  BY <1>1, <1>2, <1>7, <1>9, <1>10 DEF RowsLeft, LoadsStay
<1>12. ListTypeOK'
  BY <1>1, <1>2, <1>7, <1>8 DEF ListTypeOK
<1>13. QED
  BY <1>11, <1>12


LEMMA LoadDone ==
    ASSUME ListTypeOK, NEW n \in DOMAIN loads,
           loads' = [loads EXCEPT ![n].pc = "done"]
    PROVE  loads' \in Seq(Load) /\ Len(loads') = Len(loads) /\ LoadsStay(loads, loads')
<1>1. PICK ls \in Seq(Load) : ls = loads
  BY DEF ListTypeOK
<1>2. PICK load : load = [ls[n] EXCEPT !.pc = "done"]
  OBVIOUS
<1>3. ls[n] \in Load
  BY <1>1, ElementOfSeq, LenProperties
<1>4. load \in Load /\ load.filter = ls[n].filter
  BY <1>2, <1>3 DEF Load
<1>5. PICK ms : ms = [ls EXCEPT ![n] = load]
  OBVIOUS
<1>6. /\ ms \in Seq(Load) /\ Len(ms) = Len(ls) /\ DOMAIN ms = DOMAIN ls
      /\ \A m \in DOMAIN ls : ms[m] = IF m = n THEN load ELSE ls[m]
  BY <1>1, <1>4, <1>5, Replaced
<1>7. LoadsStay(ls, ms)
  BY <1>4, <1>6 DEF LoadsStay
<1>8. QED
  BY <1>1, <1>2, <1>5, <1>6, <1>7

\* The actions that are away meet what came.
Met(as, ids) ==
    [a \in DOMAIN as |-> IF as[a].pc = "sent" THEN [as[a] EXCEPT !.met = @ \cup ids] ELSE as[a]]

LEMMA MetIs ==
    ASSUME NEW as \in Seq(Act), NEW ids \in SUBSET ItemIds
    PROVE  /\ Met(as, ids) \in Seq(Act)
           /\ Len(Met(as, ids)) = Len(as)
           /\ ActsStay(as, Met(as, ids))
           /\ \A n \in DOMAIN Met(as, ids) : Met(as, ids)[n].pc = "sent" => ids \subseteq Met(as, ids)[n].met
<1>1. PICK l \in Nat : l = Len(as) /\ DOMAIN as = 1 .. l
  BY LenProperties
<1>2. \A n \in 1 .. l : as[n] \in Act
  BY <1>1, ElementOfSeq
<1> DEFINE new(act) == IF act.pc = "sent" THEN [act EXCEPT !.met = @ \cup ids] ELSE act
<1>3. ASSUME NEW act \in Act
      PROVE  /\ new(act) \in Act
             /\ new(act).kind = act.kind /\ new(act).ids = act.ids /\ new(act).pc = act.pc
             /\ act.met \subseteq new(act).met
             /\ new(act).pc = "sent" => ids \subseteq new(act).met
  BY DEF Act
<1>4. PICK bs : bs = [n \in 1 .. l |-> new(as[n])]
  OBVIOUS
<1>5. Met(as, ids) = bs
  BY <1>1, <1>4 DEF Met
<1> HIDE DEF new
<1>6. bs \in Seq(Act) /\ Len(bs) = l /\ DOMAIN bs = 1 .. l /\ \A n \in 1 .. l : bs[n] = new(as[n])
  <2>1. bs \in [1 .. l -> Act]
    BY <1>2, <1>3, <1>4
  <2>2. PICK ks \in [1 .. l -> Act] : ks = bs
    BY <2>1
  <2>3. ks \in Seq(Act) /\ Len(ks) = l
    OBVIOUS
  <2>4. DOMAIN bs = 1 .. l /\ \A n \in 1 .. l : bs[n] = new(as[n])
    BY <1>4, Zenon
  <2>5. QED
    BY <2>2, <2>3, <2>4
<1>7. ActsStay(as, bs)
  <2>1. ASSUME NEW n \in 1 .. l
        PROVE  /\ bs[n].kind = as[n].kind /\ bs[n].ids = as[n].ids /\ bs[n].pc = as[n].pc
               /\ as[n].met \subseteq bs[n].met
    <3>1. as[n] \in Act /\ bs[n] = new(as[n])
      BY <1>2, <1>6
    <3>2. QED
      BY <1>3, <3>1
  <2>2. QED
    BY <1>1, <1>6, <2>1 DEF ActsStay
<1>8. \A n \in DOMAIN bs : bs[n].pc = "sent" => ids \subseteq bs[n].met
  <2>1. ASSUME NEW n \in 1 .. l PROVE bs[n].pc = "sent" => ids \subseteq bs[n].met
    <3>1. as[n] \in Act /\ bs[n] = new(as[n])
      BY <1>2, <1>6
    <3>2. QED
      BY <1>3, <3>1
  <2>2. QED
    BY <1>6, <2>1
<1>9. QED
  BY <1>1, <1>5, <1>6, <1>7, <1>8

LEMMA PageIsRows ==
    ASSUME NEW answer \in NewPage, NEW f, PageOf(answer, f), NEW ignored
    PROVE  RowsOf(answer, f, ignored)
  BY DEF PageOf, RowsOf

\* What an answer to a load shows is a page of the group it was asked for.
LEMMA ListAnsweredStays ==
    ASSUME ListTypeOK, SiteIs, ShownIsOnePage, MarkIsEarned, BulkCovers,
           NEW n \in DOMAIN loads, ListAnswered(n)
    PROVE  ListTypeOK' /\ SiteIs' /\ ShownIsOnePage' /\ MarkIsEarned' /\ BulkCovers'
<1>1. /\ loads' = [loads EXCEPT ![n].pc = "done"]
      /\ loading' = FALSE
      /\ UNCHANGED <<entity, live, site, filter, page, stats, processing, menu, selected>>
  BY DEF ListAnswered
<1>2. loads' \in Seq(Load) /\ Len(loads') = Len(loads) /\ LoadsStay(loads, loads')
  BY <1>1, LoadDone
<1>3. CASE UNCHANGED <<result, acts>>
  <2>1. RowsLeft
    BY <1>1, <1>2, <1>3 DEF RowsLeft, ActsStay
  <2>2. ListTypeOK'
    BY <1>1, <1>2, <1>3 DEF ListTypeOK
  <2>3. QED
    BY <2>1, <2>2, RowsLeftStay
<1>4. CASE \E answer \in Answers(loads[n]) :
              /\ result' = answer
              /\ acts' = [a \in DOMAIN acts |->
                            IF acts[a].pc = "sent"
                            THEN [acts[a] EXCEPT !.met = @ \cup Ids(answer.data)]
                            ELSE acts[a]]
  <2>1. PICK answer \in Answers(loads[n]) :
           result' = answer /\ acts' = Met(acts, Ids(answer.data))
    BY <1>4 DEF Met
  <2>2. loads[n] \in Load
    <3>1. PICK ls \in Seq(Load) : ls = loads
      BY DEF ListTypeOK
    <3>2. ls[n] \in Load
      BY <3>1, ElementOfSeq, LenProperties
    <3>3. QED
      BY <3>1, <3>2
  <2>3. answer \in NewPage /\ PageOf(answer, loads[n].filter)
    <3>1. loads[n].page \in Nat \ {0}
      BY <2>2 DEF Load
    <3>2. QED
      BY <3>1, AnswersOfService, AnswersOfFiles
  <2>4. PICK rows : rows = ToSet(answer.data) /\ rows \subseteq NewItem
    <3>1. answer.data \in Seq(NewItem)
      BY <2>3 DEF NewPage
    <3>2. PICK data \in Seq(NewItem) : data = answer.data
      BY <3>1
    <3>3. \A i \in DOMAIN data : data[i] \in NewItem
      BY LenProperties, ElementOfSeq
    <3>4. ToSet(data) \subseteq NewItem
      BY <3>3 DEF ToSet
    <3>5. QED
      BY <3>2, <3>4
  <2>5. PICK ids \in SUBSET ItemIds : ids = Ids(answer.data) /\ ids = {x.id : x \in rows}
    <3>1. Ids(answer.data) = {x.id : x \in rows}
      BY <2>4, IdsOfRows
    <3>2. \A x \in NewItem : x.id \in ItemIds
      BY DEF NewItem
    <3>3. QED
      BY <2>4, <3>1, <3>2
  <2>6. PICK as \in Seq(Act), bs \in Seq(Act) : as = acts /\ bs = Met(as, ids) /\ bs = acts'
    BY <2>1, <2>5, MetIs DEF ListTypeOK
  <2>7. /\ Len(bs) = Len(as) /\ ActsStay(as, bs)
        /\ \A m \in DOMAIN bs : bs[m].pc = "sent" => ids \subseteq bs[m].met
    BY <2>6, MetIs
  <2>8. ListTypeOK'
    <3>1. result' \in Page
      BY <2>1, <2>3, NewItemsAreItems
    <3>2. acts' \in Seq(Act) /\ Len(acts') = Len(acts)
      BY <2>6, <2>7
    <3>3. QED
      BY <1>1, <1>2, <3>1, <3>2 DEF ListTypeOK
  <2>9. SiteIs'
    BY <1>1 DEF SiteIs
  <2>10. ShownIsOnePage'
    <3>1. loads[n].filter \in Chosen(loads')
      <4>1. LoadsStay(loads, loads')
        BY <1>2
      <4>2. loads[n].filter \in Chosen(loads)
        BY DEF Chosen
      <4>3. QED
        BY <4>1, <4>2, ChosenStay
    <3>2. RowsOf(answer, loads[n].filter, Ignored(acts'))
      BY <2>3, PageIsRows
    <3>3. \E f \in Chosen(loads') : (RowsOf(result', f, Ignored(acts')))
      BY <2>1, <3>1, <3>2
    <3>4. (result # NoPage => \E f \in Chosen(loads) : RowsOf(result, f, Ignored(acts)))'
      BY <1>1, <3>3 DEF RowsOf, GroupOf
    <3>5. QED
      BY <3>4, ShownIs, PTL
  <2>11. MarkIsEarned'
    <3>1. ASSUME NEW x \in rows PROVE Earned(x, bs)
      BY <2>4, NoMarks DEF Earned
    <3>2. (\A x \in ToSet(result.data) : Earned(x, acts))'
      BY <2>1, <2>4, <2>6, <3>1
    <3>3. QED
      BY <3>2, EarnedIs, PTL
  <2>12. BulkCovers'
    <3>1. \A m \in DOMAIN bs : Covered(bs[m], rows)
      BY <2>5, <2>7 DEF Covered
    <3>2. QED
      BY <2>1, <2>4, <2>6, <3>1 DEF BulkCovers
  <2>13. QED
    BY <2>8, <2>9, <2>10, <2>11, <2>12
<1>5. QED
  BY <1>3, <1>4 DEF ListAnswered


\* An action that is answered marks the rows it was sent for, or, in bulk, those
\* that are open: they were sent with it or have come since.
LEMMA ActAnsweredStays ==
    ASSUME ListTypeOK, SiteIs, ShownIsOnePage, MarkIsEarned, BulkCovers,
           NEW n \in DOMAIN acts, ActAnswered(n)
    PROVE  ListTypeOK' /\ SiteIs' /\ ShownIsOnePage' /\ MarkIsEarned' /\ BulkCovers'
<1>1. /\ acts[n].pc = "sent"
      /\ acts' = [acts EXCEPT ![n].pc = "ok"]
      /\ result' = [result EXCEPT !.data = Marked(acts[n], @)]
      /\ processing' = None
      /\ menu' = IF entity = "escrows" THEN None ELSE menu
      /\ UNCHANGED <<entity, live, site, filter, page, stats, loading, loads, selected>>
  BY DEF ActAnswered
<1>2. PICK as \in Seq(Act) : as = acts
  BY DEF ListTypeOK
<1>3. PICK sent \in Act : sent = as[n] /\ sent = acts[n]
  BY <1>2, ElementOfSeq, LenProperties
<1>4. PICK act : act = [sent EXCEPT !.pc = "ok"]
  OBVIOUS
<1>5. /\ act \in Act /\ act.pc = "ok" /\ act.kind = sent.kind /\ act.ids = sent.ids
      /\ act.met = sent.met
  BY <1>3, <1>4 DEF Act
<1>6. PICK bs : bs = [as EXCEPT ![n] = act]
  OBVIOUS
<1>7. acts' = bs
  BY <1>1, <1>2, <1>3, <1>4, <1>6
<1>8. /\ bs \in Seq(Act) /\ Len(bs) = Len(as) /\ DOMAIN bs = DOMAIN as
      /\ \A m \in DOMAIN as : bs[m] = IF m = n THEN act ELSE as[m]
  BY <1>2, <1>5, <1>6, Replaced
<1>9. n \in DOMAIN as /\ bs[n] = act
  BY <1>2, <1>8
<1>10. ActsStay(as, bs)
  BY <1>1, <1>2, <1>3, <1>5, <1>8 DEF ActsStay
<1>11. PICK res \in Page : res = result
  BY DEF ListTypeOK
<1>12. PICK data \in Seq(Item) : data = res.data
  BY <1>11 DEF Page
<1>13. PICK left \in Seq(Item) : left = Marked(sent, data)
  BY <1>12, MarkedIs
<1>14. PICK rows, kept : rows = ToSet(data) /\ kept = ToSet(left)
  OBVIOUS
<1>15. /\ rows \subseteq Item
       /\ \A y \in kept : y \in rows \/ \E x \in rows : MarkedBy(sent, y, x)
       /\ \A x \in rows : \/ sent.kind = "ignore" /\ x.id \in sent.ids
                          \/ \E y \in kept : y.id = x.id
  <2>1. \A i \in DOMAIN data : data[i] \in Item
    BY LenProperties, ElementOfSeq
  <2>2. rows \subseteq Item
    BY <1>14, <2>1 DEF ToSet
  <2>3. QED
    BY <1>13, <1>14, <2>2, MarkedIs
<1>16. PICK new \in Page : new = [res EXCEPT !.data = left]
  BY <1>11, <1>13 DEF Page
<1>17. /\ new.data = left /\ new.page = res.page /\ new.total = res.total
       /\ new.totalPages = res.totalPages /\ new.pageSize = res.pageSize
  BY <1>11, <1>16 DEF Page
<1>18. result' = new
  BY <1>1, <1>3, <1>11, <1>12, <1>13, <1>16
<1>19. Ids(data) = {x.id : x \in rows} /\ Ids(left) = {x.id : x \in kept}
  BY <1>14, IdsOfRows
<1>20. Ids(left) \subseteq Ids(data)
  BY <1>15, <1>19 DEF MarkedBy
<1>21. \A id \in Ids(data) : id \in Ids(left) \/ id \in Ignored(bs)
  <2>1. ASSUME NEW x \in rows PROVE x.id \in Ids(left) \/ x.id \in Ignored(bs)
    <3>1. CASE sent.kind = "ignore" /\ x.id \in sent.ids
      <4>1. n \in DOMAIN bs /\ bs[n].kind = "ignore" /\ x.id \in bs[n].ids
        BY <1>5, <1>8, <1>9, <3>1
      <4>2. QED
        BY <4>1 DEF Ignored
    <3>2. CASE \E y \in kept : y.id = x.id
      BY <1>19, <3>2
    <3>3. QED
      BY <1>15, <3>1, <3>2
  <2>2. QED
    BY <1>19, <2>1
<1>22. ListTypeOK'
  <2>1. result' \in Page
    BY <1>18
  <2>2. acts' \in Seq(Act) /\ Len(acts') = Len(acts)
    BY <1>2, <1>7, <1>8
  <2>3. menu' \in ItemIds \cup {None}
    BY <1>1 DEF ListTypeOK
  <2>4. QED
    BY <1>1, <2>1, <2>2, <2>3 DEF ListTypeOK
<1>23. SiteIs'
  BY <1>1 DEF SiteIs
<1>24. ShownIsOnePage'
  <2>1. ASSUME res = NoPage PROVE new = NoPage
    <3>1. left = <<>>
      BY <1>12, <1>13, <2>1, MarkedNone DEF NoPage
    <3>2. res.data = <<>>
      BY <2>1 DEF NoPage
    <3>3. QED
      BY <1>11, <1>16, <2>1, <3>1, <3>2 DEF NoPage
  <2>2. ASSUME res # NoPage PROVE \E f \in Chosen(loads) : RowsOf(new, f, Ignored(bs))
    <3>1. PICK f \in Chosen(loads) : RowsOf(res, f, Ignored(as))
      BY <1>2, <1>11, <2>2, ShownIs
    <3>2. RowsOf(res, f, Ignored(bs))
      BY <1>10, <3>1, RowsStay
    <3>3. RowsOf(new, f, Ignored(bs))
      <4>1. PICK there : there = Ids(SubSeq(GroupOf(f), First(res), Last_(res)))
        OBVIOUS
      <4>2. /\ res.total = Len(GroupOf(f))
            /\ res.page \in 1 .. res.totalPages
            /\ Ids(data) \subseteq there
            /\ there \ Ignored(bs) \subseteq Ids(data)
        BY <1>12, <3>2, <4>1 DEF RowsOf
      <4>3. Ids(left) \subseteq there /\ there \ Ignored(bs) \subseteq Ids(left)
        BY <1>20, <1>21, <4>2
      <4>4. First(new) = First(res) /\ Last_(new) = Last_(res)
        BY <1>17 DEF First, Last_
      <4>5. QED
        BY <1>17, <4>1, <4>2, <4>3, <4>4 DEF RowsOf
    <3>4. QED
      BY <3>3
  <2>3. (result # NoPage => \E f \in Chosen(loads) : RowsOf(result, f, Ignored(acts)))'
    BY <1>1, <1>7, <1>18, <2>1, <2>2 DEF RowsOf, GroupOf
  <2>4. QED
    BY <2>3, ShownIs, PTL
<1>25. /\ \A x \in rows : Earned(x, as)
       /\ \A m \in DOMAIN as : Covered(as[m], rows)
  <2>1. rows = ToSet(result.data)
    BY <1>11, <1>12, <1>14
  <2>2. QED
    BY <1>2, <2>1, EarnedIs DEF BulkCovers
<1>26. MarkIsEarned'
  <2>1. ASSUME NEW y \in kept PROVE Earned(y, bs)
    <3>1. CASE y \in rows
      BY <1>10, <1>25, <3>1, EarnedStays
    <3>2. ASSUME NEW x \in rows, MarkedBy(sent, y, x) PROVE Earned(y, bs)
      <4>1. x.id \in sent.ids \/ (sent.kind = "bulk" /\ x.id \in sent.ids \cup sent.met)
        BY <1>1, <1>3, <1>9, <1>25, <3>2 DEF MarkedBy, Covered
      <4>2. n \in DOMAIN bs /\ bs[n].pc = "ok" /\ bs[n].kind = sent.kind
            /\ bs[n].ids = sent.ids /\ bs[n].met = sent.met
        BY <1>5, <1>8, <1>9
      <4>3. sent.kind \in DOMAIN Mark /\ Mark[sent.kind] = y.status /\ y.id = x.id
        BY <3>2 DEF MarkedBy
      <4>4. QED
        BY <4>1, <4>2, <4>3 DEF Earned
    <3>3. QED
      BY <1>15, <3>1, <3>2
  <2>2. (\A x \in ToSet(result.data) : Earned(x, acts))'
    BY <1>7, <1>14, <1>17, <1>18, <2>1
  <2>3. QED
    BY <2>2, EarnedIs, PTL
<1>27. BulkCovers'
  <2>1. ASSUME NEW m \in DOMAIN bs PROVE Covered(bs[m], kept)
    <3>1. CASE m = n
      <4>1. bs[m].pc = "ok"
        BY <1>5, <1>9, <3>1
      <4>2. QED
        BY <4>1 DEF Covered
    <3>2. CASE m # n
      <4>1. bs[m] = as[m] /\ Covered(as[m], rows)
        BY <1>8, <1>25, <3>2
      <4>2. \A y \in kept : y.status = "OPEN" => y \in rows
        <5>1. ASSUME NEW y \in kept, NEW x \in rows, MarkedBy(sent, y, x)
              PROVE  y.status # "OPEN"
          <6>1. y.status \in Marks
            BY <5>1 DEF MarkedBy, Marks
          <6>2. \/ y.status = "Acknowledged" \/ y.status = "Settled"
                \/ y.status = "Disputed"     \/ y.status = "Released"
            BY <6>1, MarksAre
          <6>3. QED
            BY <6>2
        <5>2. QED
          BY <1>15, <5>1
      <4>3. QED
        BY <4>1, <4>2 DEF Covered
    <3>3. QED
      BY <3>1, <3>2
  <2>2. QED
    BY <1>7, <1>14, <1>17, <1>18, <2>1 DEF BulkCovers
<1>28. QED
  BY <1>22, <1>23, <1>24, <1>26, <1>27

-----------------------------------------------------------------------------
(* The invariant *)

LEMMA PageBegins ==
    ASSUME ListInit
    PROVE  PageInv
<1>1. PICK rows \in Deployment :
         site = [rows |-> rows, list |-> Items(entity, rows),
                 folders |-> paginateAndWrite(entity, rows)]
  BY DEF ListInit
<1>2. rows \in Seq(CsvRow)
  BY ListAssumption
<1>3. SiteIs
  BY <1>1, <1>2 DEF SiteIs, ListInit
<1>4. PICK list \in Seq(NewItem) : list = site.list
  BY <1>3, SiteIsWhole
<1>5. list \in Seq(Item)
  BY NewItemsAreItems
<1>6. PICK none : none = <<>>
  OBVIOUS
<1>7. none \in Seq(Item) /\ none \in Seq(Act) /\ Len(none) = 0 /\ DOMAIN none = {}
  BY <1>6
<1>8. PICK load : load = NewLoad(1, "")
  OBVIOUS
<1>9. load \in Load
  <2>1. "" \in UNION {Filters[e] : e \in Entity}
    <3>1. PICK e : e \in Entity
      BY DEF Entity
    <3>2. QED
      BY <3>1, FilterKnown
  <2>2. load = [filter |-> "", page |-> 1, pc |-> "sent"]
    BY <1>8 DEF NewLoad
  <2>3. QED
    <3>1. PICK f \in UNION {Filters[e] : e \in Entity} : f = ""
      BY <2>1
    <3>2. load = [filter |-> f, page |-> 1, pc |-> "sent"]
      BY <2>2, <3>1, Zenon
    <3>3. QED
      BY <3>2 DEF Load
<1>10. loads \in Seq(Load) /\ Len(loads) = 1
  <2>1. PICK ls : ls = <<load>>
    OBVIOUS
  <2>2. ls \in Seq(Load) /\ Len(ls) = 1
    BY <1>9, <2>1
  <2>3. loads = ls
    BY <1>8, <2>1 DEF ListInit
  <2>4. QED
    BY <2>2, <2>3
<1>11. result \in Page /\ result.data = none
  BY <1>6, <1>7 DEF ListInit, NoPage, Page
<1>12. acts = none
  BY <1>6 DEF ListInit
<1>13. Len(loads) + Len(acts) \in 1 .. MaxCalls
  <2>1. PICK m \in Nat : m = MaxCalls /\ m >= 1
    BY ListAssumption
  <2>2. 1 + 0 \in 1 .. m
    BY <2>1
  <2>3. QED
    BY <1>7, <1>10, <1>12, <2>1, <2>2
<1>14. ListTypeOK
  <2>1. "" \in Filters[entity]
    BY FilterKnown DEF ListInit
  <2>2. /\ entity \in Entity /\ live \in BOOLEAN /\ filter \in Filters[entity]
        /\ page \in Nat \ {0} /\ stats \in {None, "ok", "error"} /\ loading \in BOOLEAN
    <3>1. entity \in Entity /\ live \in BOOLEAN /\ filter = "" /\ page = 1
          /\ stats = None /\ loading = TRUE
      BY DEF ListInit
    <3>2. 1 \in Nat \ {0}
      OBVIOUS
    <3>3. QED
      BY <2>1, <3>1, <3>2, Zenon
  <2>3. /\ processing \in ItemIds \cup {None, Bulk, Request}
        /\ menu \in ItemIds \cup {None} /\ selected \in ItemIds \cup {None}
    BY DEF ListInit
  <2>4. site.list \in Seq(Item) /\ result \in Page /\ loads \in Seq(Load) /\ acts \in Seq(Act)
    BY <1>4, <1>5, <1>7, <1>10, <1>11, <1>12
  <2>5. QED
    BY <1>13, <2>2, <2>3, <2>4 DEF ListTypeOK
<1>15. ShownIsOnePage
  BY ShownIs DEF ListInit
<1>16. MarkIsEarned
  BY <1>7, <1>11 DEF MarkIsEarned
<1>17. BulkCovers
  BY <1>7, <1>12 DEF BulkCovers
<1>18. QED
  BY <1>3, <1>14, <1>15, <1>16, <1>17 DEF PageInv

LEMMA PageStays ==
    ASSUME PageInv, [ListNext]_listVars
    PROVE  PageInv'
<1>0. ListTypeOK /\ SiteIs /\ ShownIsOnePage /\ MarkIsEarned /\ BulkCovers
  BY DEF PageInv
<1>1. ASSUME ListTypeOK', RowsLeft PROVE PageInv'
  BY <1>0, <1>1, RowsLeftStay DEF PageInv
<1>2. CASE UNCHANGED listVars
  <2>1. ListTypeOK'
    BY <1>0, <1>2 DEF ListTypeOK, listVars
  <2>2. RowsLeft
    BY <1>2, NothingSent DEF listVars
  <2>3. QED
    BY <1>1, <2>1, <2>2
<1>3. CASE UserActs
  BY <1>0, <1>1, <1>3, UserActsStay
<1>4. ASSUME NEW n \in DOMAIN loads, ListAnswered(n) PROVE PageInv'
  <2>1. ListTypeOK' /\ SiteIs' /\ ShownIsOnePage' /\ MarkIsEarned' /\ BulkCovers'
    BY <1>0, <1>4, ListAnsweredStays
  <2>2. QED
    BY <2>1 DEF PageInv
<1>5. CASE StatsAnswered
  BY <1>0, <1>1, <1>5, ScreenStays
<1>6. ASSUME NEW n \in DOMAIN acts, ActAnswered(n) PROVE PageInv'
  <2>1. ListTypeOK' /\ SiteIs' /\ ShownIsOnePage' /\ MarkIsEarned' /\ BulkCovers'
    BY <1>0, <1>6, ActAnsweredStays
  <2>2. QED
    BY <2>1 DEF PageInv
<1>7. ASSUME NEW n \in DOMAIN acts, ActFailed(n) PROVE PageInv'
  BY <1>0, <1>1, <1>7, ActFailedStays
<1>8. QED
  BY <1>2, <1>3, <1>4, <1>5, <1>6, <1>7 DEF ListNext

\* In whatever order loads and actions are answered, the table, the marks on its
\* rows and the requests that are away fit together (app/alerts/page.tsx,
\* app/shipments/page.tsx, app/crypto/page.tsx, app/audits/page.tsx).
THEOREM PageInvariance == ListSpec => []PageInv
<1>1. QED
  BY PageBegins, PageStays, PTL DEF ListSpec

\* The parts of a list page stay in their types, and the calls within the bound.
THEOREM ListTypes == ListSpec => []ListTypeOK
<1>1. PageInv => ListTypeOK
  BY DEF PageInv
<1>2. QED
  BY <1>1, PageInvariance, PTL

\* Whatever the order of the answers (setResult in the pages), the rows that are
\* shown are one page of one list, but for the alerts that were ignored.
THEOREM PagesAreNotMixed == ListSpec => []ShownIsOnePage
<1>1. PageInv => ShownIsOnePage
  BY DEF PageInv
<1>2. QED
  BY <1>1, PageInvariance, PTL

\* A status that an action puts on a row was earned by an action that was answered.
THEOREM MarksAreEarned == ListSpec => []MarkIsEarned
<1>1. PageInv => MarkIsEarned
  BY DEF PageInv
<1>2. QED
  BY <1>1, PageInvariance, PTL

\* The files and the statistics of every data set are those of its lists.
THEOREM DatasetsAreWhole == ListSpec => []DatasetIsWhole
<1>1. PageInv => DatasetIsWhole
  BY SiteIsWhole DEF PageInv
<1>2. QED
  BY <1>1, PageInvariance, PTL
=============================================================================
