-------------------------- MODULE DiscoveryProofs ---------------------------
(***************************************************************************)
(* Theorems about Discovery and Addr for any interfaces, binds, urls and   *)
(* hosts.                                                                  *)
(***************************************************************************)
EXTENDS Discovery, FiniteSetTheorems, SequenceTheorems, TLAPS

-----------------------------------------------------------------------------
(* Induction over the natural numbers, for a set of them, and recursion.   *)

\* A set of natural numbers has a least one: 1 .. k, for k in the set, are
\* finite sets, which strict inclusion orders well.
LEMMA LeastNumber ==
    ASSUME NEW C \in SUBSET Nat, NEW n \in C
    PROVE  \E m \in C : \A k \in C : m <= k
<1> DEFINE D == {k \in C : k <= n}  T == {1 .. k : k \in D}
           R == StrictSubsetOrdering(1 .. n)
<1>1. IsFiniteSet(1 .. n)
  BY FS_Interval
<1>2. FiniteSubsetsOf(1 .. n) = SUBSET (1 .. n)
  BY <1>1, FS_FiniteSubsetsOfFinite
<1>3. IsWellFoundedOn(R, SUBSET (1 .. n))
  BY <1>2, FS_StrictSubsetOrderingWellFounded
<1>4. T \subseteq SUBSET (1 .. n) /\ T # {}
  OBVIOUS
<1>5. \E x \in T : \A y \in T : ~(<<y, x>> \in R)
  <2> HIDE DEF T, R
  <2> QED
    BY <1>3, <1>4, WFMin
<1>6. PICK m \in D : \A k \in D : ~(<<1 .. k, 1 .. m>> \in R)
  BY <1>5
<1>7. \A k \in D : m <= k
  <2> SUFFICES ASSUME NEW k \in D, k < m PROVE FALSE
    OBVIOUS
  <2>1. 1 .. k \in SUBSET (1 .. n) /\ 1 .. m \in SUBSET (1 .. n)
    OBVIOUS
  <2>2. 1 .. k \subseteq 1 .. m /\ m \in 1 .. m /\ m \notin 1 .. k
    OBVIOUS
  <2>3. <<1 .. k, 1 .. m>> \in R
    BY <2>1, <2>2 DEF StrictSubsetOrdering
  <2> QED
    BY <1>6, <2>3
<1> QED
  BY <1>7

LEMMA Induction ==
    ASSUME NEW S, 0 \in S, \A n \in Nat : n \in S => n + 1 \in S
    PROVE  Nat \subseteq S
<1> DEFINE C == {k \in Nat : k \notin S}
<1> SUFFICES ASSUME C # {} PROVE FALSE
  OBVIOUS
<1>1. PICK n \in C : TRUE
  OBVIOUS
<1>2. C \in SUBSET Nat
  OBVIOUS
<1> HIDE DEF C
<1>3. PICK m \in C : \A k \in C : m <= k
  BY <1>1, <1>2, LeastNumber
<1>4. m \in Nat /\ m \notin S /\ m # 0
  BY <1>3 DEF C
<1>5. m - 1 \in Nat /\ m - 1 \notin C
  BY <1>3, <1>4
<1>6. m - 1 \in S
  BY <1>5 DEF C
<1>7. (m - 1) + 1 \in S
  BY <1>5, <1>6
<1> QED
  BY <1>4, <1>7

\* A function on numbers that is defined by recursion exists: x at 0, and
\* step[n, .] of what it is at n, at n + 1.
IsRec(g, m, X, x, step) ==
    /\ g \in [0 .. m -> X] /\ g[0] = x
    /\ \A n \in 0 .. m - 1 : g[n + 1] = step[<<n, g[n]>>]

LEMMA RecExists ==
    ASSUME NEW X, NEW x \in X, NEW step \in [Nat \X X -> X], NEW m \in Nat
    PROVE  \E g : IsRec(g, m, X, x, step)
<1> DEFINE S == {k \in Nat : \E g : IsRec(g, k, X, x, step)}
<1>1. 0 \in S
  <2> DEFINE g == [n \in 0 .. 0 |-> x]
  <2>1. g \in [0 .. 0 -> X] /\ g[0] = x /\ \A n \in 0 .. 0 - 1 : FALSE
    OBVIOUS
  <2> HIDE DEF g
  <2>2. IsRec(g, 0, X, x, step)
    BY <2>1 DEF IsRec
  <2> QED
    BY <2>2
<1>2. ASSUME NEW k \in Nat, k \in S PROVE k + 1 \in S
  <2>1. PICK g : IsRec(g, k, X, x, step)
    BY <1>2
  <2> DEFINE h == [n \in 0 .. k + 1 |-> IF n = k + 1 THEN step[<<k, g[k]>>] ELSE g[n]]
  <2>2. /\ g \in [0 .. k -> X] /\ g[0] = x
        /\ \A n \in 0 .. k - 1 : g[n + 1] = step[<<n, g[n]>>]
    BY <2>1 DEF IsRec
  <2>0. k \in 0 .. k /\ 0 \in 0 .. k /\ k + 1 \in 0 .. k + 1
    OBVIOUS
  <2>3. g[k] \in X
    BY <2>0, <2>2
  <2>4. step[<<k, g[k]>>] \in X
    BY <2>3
  <2>5. \A n \in 0 .. k + 1 : n = k + 1 \/ n \in 0 .. k
    OBVIOUS
  <2>6. h \in [0 .. k + 1 -> X]
    BY <2>2, <2>4, <2>5
  <2>7. h[k + 1] = step[<<k, g[k]>>] /\ \A n \in 0 .. k : h[n] = g[n]
    <3>1. \A n \in 0 .. k : n \in 0 .. k + 1 /\ n # k + 1
      OBVIOUS
    <3> QED
      BY <2>0, <3>1
  <2> HIDE DEF h
  <2>8. h[0] = x
    BY <2>0, <2>2, <2>7
  <2>9. ASSUME NEW n \in 0 .. (k + 1) - 1 PROVE h[n + 1] = step[<<n, h[n]>>]
    <3>1. CASE n = k
      BY <2>0, <2>7, <3>1
    <3>2. CASE n # k
      <4>1. n \in 0 .. k - 1 /\ n \in 0 .. k /\ n + 1 \in 0 .. k
        BY <3>2
      <4> QED
        BY <2>2, <2>7, <4>1
    <3> QED
      BY <3>1, <3>2
  <2>10. IsRec(h, k + 1, X, x, step)
    BY <2>6, <2>8, <2>9 DEF IsRec
  <2> QED
    BY <2>10
<1> HIDE DEF S
<1>3. Nat \subseteq S
  BY <1>1, <1>2, Induction
<1> QED
  BY <1>3 DEF S

\* What holds at 0 and is kept from k to k + 1 holds up to m.
LEMMA UpTo ==
    ASSUME NEW m \in Nat, NEW S, 0 \in S, \A k \in 0 .. m - 1 : k \in S => k + 1 \in S
    PROVE  0 .. m \subseteq S
<1> DEFINE T == {k \in Nat : k \in 0 .. m => k \in S}
<1>1. 0 \in T
  OBVIOUS
<1>2. ASSUME NEW k \in Nat, k \in T PROVE k + 1 \in T
  BY <1>2
<1> HIDE DEF T
<1>3. Nat \subseteq T
  BY <1>1, <1>2, Induction
<1> QED
  BY <1>3 DEF T

\* Induction over the sequences of a set.
LEMMA SeqInduction ==
    ASSUME NEW W, NEW S, <<>> \in S,
           \A s \in Seq(W), w \in W : s \in S => Append(s, w) \in S
    PROVE  Seq(W) \subseteq S
<1> DEFINE N == {k \in Nat : \A s \in Seq(W) : Len(s) = k => s \in S}
<1>1. 0 \in N
  <2>1. \A s \in Seq(W) : Len(s) = 0 => s = <<>>
    OBVIOUS
  <2> QED
    BY <2>1
<1>2. ASSUME NEW k \in Nat, k \in N PROVE k + 1 \in N
  <2> SUFFICES ASSUME NEW s \in Seq(W), Len(s) = k + 1 PROVE s \in S
    OBVIOUS
  <2> DEFINE t == SubSeq(s, 1, k)
  <2>1. t \in Seq(W) /\ Len(t) = k /\ s[k + 1] \in W /\ s = Append(t, s[k + 1])
    OBVIOUS
  <2> QED
    BY <1>2, <2>1
<1> HIDE DEF N
<1>3. Nat \subseteq N
  BY <1>1, <1>2, Induction
<1>4. \A s \in Seq(W) : Len(s) \in N
  BY <1>3
<1> QED
  BY <1>4 DEF N

-----------------------------------------------------------------------------
(* Split.                                                                  *)

LEMMA AppendAt ==
    ASSUME NEW S, NEW s \in Seq(S), NEW e \in S
    PROVE  /\ Append(s, e) \in Seq(S) /\ Append(s, e) # <<>>
           /\ Len(Append(s, e)) = Len(s) + 1 /\ Append(s, e)[Len(s) + 1] = e
           /\ \A i \in 1 .. Len(s) : Append(s, e)[i] = s[i]
OBVIOUS

\* Some segments, at least one.
SomeSegs(W) == Seq(Seq(W)) \ {<<>>}

LEMMA ExtendFacts ==
    ASSUME NEW W, NEW segs \in SomeSegs(W), NEW w \in W \cup {"/"}
    PROVE  /\ Extend(segs, w) \in SomeSegs(W)
           /\ w = "/" => Extend(segs, w) = Append(segs, <<>>)
           /\ w # "/" => Extend(segs, w) = [segs EXCEPT ![Len(segs)] = Append(segs[Len(segs)], w)]
<1> DEFINE n == Len(segs)
<1>1. segs \in Seq(Seq(W)) /\ n \in Nat /\ n # 0 /\ n \in 1 .. n
  BY DEF SomeSegs
<1>2. segs[n] \in Seq(W)
  BY <1>1, ElementOfSeq
<1>3. w # "/" => Append(segs[n], w) \in Seq(W)
  BY <1>2
<1> DEFINE q == Append(segs[n], w)
<1>4. w # "/" => q \in Seq(W)
  BY <1>3
<1> HIDE DEF n, q
<1>5. Append(segs, <<>>) \in Seq(Seq(W)) /\ Append(segs, <<>>) # <<>>
  <2> DEFINE e == <<>>
  <2>1. e \in Seq(W)
    OBVIOUS
  <2> HIDE DEF e
  <2>2. Append(segs, e) \in Seq(Seq(W)) /\ Append(segs, e) # <<>>
    BY <1>1, <2>1, AppendAt
  <2> QED
    BY <2>2 DEF e
<1>6. w # "/" => [segs EXCEPT ![n] = q] \in Seq(Seq(W)) /\ Len([segs EXCEPT ![n] = q]) = n
  BY <1>1, <1>4, ExceptSeq DEF n
<1>7. w # "/" => [segs EXCEPT ![n] = q] # <<>>
  BY <1>1, <1>6
<1>8. Extend(segs, w) = IF w = "/" THEN Append(segs, <<>>) ELSE [segs EXCEPT ![n] = q]
  BY DEF Extend, n, q
<1> QED
  BY <1>5, <1>6, <1>7, <1>8 DEF SomeSegs, n, q

\* How Split goes through a path.
LEMMA SplitRec ==
    ASSUME NEW W, NEW path \in Seq(W \cup {"/"})
    PROVE  \E f : /\ Split(path) = f[Len(path)] /\ f[0] = <<<<>>>>
                  /\ \A n \in 0 .. Len(path) : f[n] \in SomeSegs(W)
                  /\ \A n \in 0 .. Len(path) - 1 : f[n + 1] = Extend(f[n], path[n + 1])
<1> DEFINE m == Len(path)  X == SomeSegs(W)
           step == [na \in Nat \X X |->
                       IF na[1] + 1 \in 1 .. m THEN Extend(na[2], path[na[1] + 1]) ELSE na[2]]
           F(g) == [n \in 0 .. m |-> IF n = 0 THEN <<<<>>>> ELSE Extend(g[n - 1], path[n])]
<1>1. m \in Nat /\ <<<<>>>> \in X
  BY DEF SomeSegs
<1>2. \A n \in 1 .. m : path[n] \in W \cup {"/"}
  BY ElementOfSeq
<1>3. step \in [Nat \X X -> X]
  <2> HIDE DEF X, m
  <2> SUFFICES ASSUME NEW n \in Nat, NEW a \in X
               PROVE  (IF n + 1 \in 1 .. m THEN Extend(a, path[n + 1]) ELSE a) \in X
    OBVIOUS
  <2> QED
    BY <1>2, ExtendFacts DEF X
<1>4. \A n \in 0 .. m - 1, a \in X : step[<<n, a>>] = Extend(a, path[n + 1])
  <2> HIDE DEF X, m
  <2> SUFFICES ASSUME NEW n \in 0 .. m - 1, NEW a \in X PROVE step[<<n, a>>] = Extend(a, path[n + 1])
    OBVIOUS
  <2>1. n \in Nat /\ n + 1 \in 1 .. m
    BY <1>1
  <2> QED
    BY <2>1
<1> HIDE DEF m, X, step
<1>5. PICK g : IsRec(g, m, X, <<<<>>>>, step)
  BY <1>1, <1>3, RecExists
<1>6. g \in [0 .. m -> X] /\ g[0] = <<<<>>>> /\ \A n \in 0 .. m - 1 : g[n + 1] = step[<<n, g[n]>>]
  BY <1>5 DEF IsRec
<1>7. g = F(g)
  <2>1. ASSUME NEW n \in 0 .. m PROVE g[n] = IF n = 0 THEN <<<<>>>> ELSE Extend(g[n - 1], path[n])
    <3>1. CASE n = 0
      BY <1>6, <3>1
    <3>2. CASE n # 0
      <4>1. n - 1 \in 0 .. m - 1 /\ n - 1 \in 0 .. m /\ (n - 1) + 1 = n
        BY <1>1, <3>2
      <4>2. g[n - 1] \in X
        BY <1>6, <4>1
      <4> QED
        BY <1>4, <1>6, <3>2, <4>1, <4>2
    <3> QED
      BY <3>1, <3>2
  <2> QED
    BY <1>6, <2>1
<1> DEFINE f == CHOOSE h : h = F(h)
<1>8. f = F(f)
  BY <1>7
<1>9. Split(path) = f[m]
  BY DEF Split, m
<1> HIDE DEF f
<1>10. f[0] = <<<<>>>> /\ \A n \in 0 .. m - 1 : f[n + 1] = Extend(f[n], path[n + 1])
  <2>1. \A n \in 0 .. m : f[n] = IF n = 0 THEN <<<<>>>> ELSE Extend(f[n - 1], path[n])
    BY <1>8
  <2>2. 0 \in 0 .. m /\ \A n \in 0 .. m - 1 : n + 1 \in 0 .. m /\ n + 1 # 0 /\ (n + 1) - 1 = n
    BY <1>1
  <2> QED
    BY <2>1, <2>2
<1>11. \A n \in 0 .. m : f[n] \in X
  <2> DEFINE S == {k \in 0 .. m : f[k] \in X}
  <2>1. 0 \in S
    BY <1>1, <1>10
  <2>2. ASSUME NEW k \in 0 .. m - 1, k \in S PROVE k + 1 \in S
    <3>1. k + 1 \in 1 .. m /\ k + 1 \in 0 .. m /\ f[k] \in X
      BY <1>1, <2>2
    <3>2. path[k + 1] \in W \cup {"/"}
      BY <1>2, <3>1 DEF m
    <3>3. f[k + 1] \in X
      BY <3>1, <3>2, <1>10, ExtendFacts DEF X
    <3> QED
      BY <3>1, <3>3
  <2> HIDE DEF S
  <2>3. 0 .. m \subseteq S
    BY <1>1, <2>1, <2>2, UpTo
  <2> QED
    BY <2>3 DEF S
<1> QED
  BY <1>9, <1>10, <1>11 DEF m, X

LEMMA SplitEmpty == Split(<<>>) = <<<<>>>>
<1>1. <<>> \in Seq({} \cup {"/"}) /\ Len(<<>>) = 0
  OBVIOUS
<1>2. PICK f : Split(<<>>) = f[Len(<<>>)] /\ f[0] = <<<<>>>>
  BY <1>1, SplitRec
<1> QED
  BY <1>1, <1>2

LEMMA SplitAppend ==
    ASSUME NEW W, NEW path \in Seq(W \cup {"/"}), NEW w \in W \cup {"/"}
    PROVE  /\ Split(path) \in SomeSegs(W)
           /\ Split(Append(path, w)) = Extend(Split(path), w)
<1> DEFINE m == Len(path)  q == Append(path, w)
<1>1. m \in Nat /\ q \in Seq(W \cup {"/"}) /\ Len(q) = m + 1 /\ q[m + 1] = w
      /\ \A n \in 1 .. m : q[n] = path[n]
  OBVIOUS
<1>2. PICK f : /\ Split(path) = f[m] /\ f[0] = <<<<>>>>
               /\ \A n \in 0 .. m : f[n] \in SomeSegs(W)
               /\ \A n \in 0 .. m - 1 : f[n + 1] = Extend(f[n], path[n + 1])
  BY SplitRec
<1> HIDE DEF m, q
<1>3. PICK h : /\ Split(q) = h[m + 1] /\ h[0] = <<<<>>>>
               /\ \A n \in 0 .. m : h[n + 1] = Extend(h[n], q[n + 1])
  <2>0. q \in Seq(W \cup {"/"})
    BY <1>1
  <2>1. PICK h : /\ Split(q) = h[Len(q)] /\ h[0] = <<<<>>>>
                 /\ \A n \in 0 .. Len(q) : h[n] \in SomeSegs(W)
                 /\ \A n \in 0 .. Len(q) - 1 : h[n + 1] = Extend(h[n], q[n + 1])
    BY <2>0, SplitRec
  <2>2. Len(q) - 1 = m
    BY <1>1
  <2> QED
    BY <1>1, <2>1, <2>2
<1> DEFINE S == {k \in 0 .. m : f[k] = h[k]}
<1>4. 0 \in S
  <2>1. f[0] = h[0]
    BY <1>2, <1>3, Zenon
  <2> QED
    BY <1>1, <2>1
<1>5. ASSUME NEW k \in 0 .. m - 1, k \in S PROVE k + 1 \in S
  <2>1. k \in 0 .. m /\ k + 1 \in 0 .. m /\ k + 1 \in 1 .. m /\ f[k] = h[k]
    BY <1>1, <1>5
  <2>2. f[k + 1] = h[k + 1]
    BY <1>1, <1>2, <1>3, <2>1
  <2> QED
    BY <2>1, <2>2
<1> HIDE DEF S
<1>6. 0 .. m \subseteq S
  BY <1>1, <1>4, <1>5, UpTo
<1>7. f[m] = h[m] /\ m \in 0 .. m
  BY <1>1, <1>6 DEF S
<1> QED
  BY <1>1, <1>2, <1>3, <1>7 DEF m, q

-----------------------------------------------------------------------------
(* FlattenSeq.                                                             *)

LEMMA FlatRec ==
    ASSUME NEW W, NEW ss \in Seq(Seq(W)), ss # <<>>
    PROVE  \E f : /\ FlattenSeq(ss) = f[Len(ss)] /\ f[1] = ss[1]
                  /\ \A i \in 1 .. Len(ss) : f[i] \in Seq(W)
                  /\ \A i \in 1 .. Len(ss) - 1 : f[i + 1] = f[i] \o ss[i + 1]
<1> DEFINE n == Len(ss)  m == n - 1  X == Seq(W)
           step == [ia \in Nat \X X |->
                       IF ia[1] + 2 \in 1 .. n THEN ia[2] \o ss[ia[1] + 2] ELSE ia[2]]
           F(g) == [i \in 1 .. n |-> IF i = 1 THEN ss[i] ELSE g[i - 1] \o ss[i]]
<1>1. n \in Nat /\ n # 0 /\ m \in Nat /\ n = m + 1
  OBVIOUS
<1>2. \A i \in 1 .. n : ss[i] \in X
  OBVIOUS
<1>3. step \in [Nat \X X -> X]
  <2> HIDE DEF n
  <2> SUFFICES ASSUME NEW i \in Nat, NEW a \in X
               PROVE  (IF i + 2 \in 1 .. n THEN a \o ss[i + 2] ELSE a) \in X
    OBVIOUS
  <2> QED
    BY <1>2
<1>4. \A i \in 0 .. m - 1, a \in X : step[<<i, a>>] = a \o ss[i + 2]
  <2> HIDE DEF X, n
  <2> SUFFICES ASSUME NEW i \in 0 .. m - 1, NEW a \in X PROVE step[<<i, a>>] = a \o ss[i + 2]
    OBVIOUS
  <2>1. i \in Nat /\ i + 2 \in 1 .. n
    BY <1>1
  <2> QED
    BY <2>1
<1> HIDE DEF n, m, X, step
<1>5. 1 \in 1 .. n /\ ss[1] \in X
  BY <1>1, <1>2
<1>6. PICK g : IsRec(g, m, X, ss[1], step)
  BY <1>1, <1>3, <1>5, RecExists
<1>7. g \in [0 .. m -> X] /\ g[0] = ss[1] /\ \A i \in 0 .. m - 1 : g[i + 1] = step[<<i, g[i]>>]
  BY <1>6 DEF IsRec
<1> DEFINE h == [i \in 1 .. n |-> g[i - 1]]
<1>8. h = F(h)
  <2>1. ASSUME NEW i \in 1 .. n PROVE h[i] = IF i = 1 THEN ss[i] ELSE h[i - 1] \o ss[i]
    <3>1. CASE i = 1
      BY <1>7, <3>1
    <3>2. CASE i # 1
      <4>1. i - 1 \in 1 .. n /\ i - 2 \in 0 .. m - 1 /\ i - 2 \in 0 .. m
            /\ (i - 2) + 1 = i - 1 /\ (i - 2) + 2 = i /\ (i - 1) - 1 = i - 2
        BY <1>1, <3>2
      <4>2. g[i - 2] \in X /\ h[i] = g[i - 1] /\ h[i - 1] = g[i - 2]
        BY <1>7, <4>1
      <4>3. g[i - 1] = step[<<i - 2, g[i - 2]>>]
        BY <1>7, <4>1
      <4>4. step[<<i - 2, g[i - 2]>>] = g[i - 2] \o ss[i]
        BY <1>4, <4>1, <4>2
      <4> QED
        BY <3>2, <4>2, <4>3, <4>4
    <3> QED
      BY <3>1, <3>2
  <2> QED
    BY <2>1
<1> DEFINE f == CHOOSE e : e = F(e)
<1>9. f = F(f)
  BY <1>8
<1>10. FlattenSeq(ss) = f[n]
  BY <1>1 DEF FlattenSeq, n
<1> HIDE DEF f
<1>11. f[1] = ss[1] /\ \A i \in 1 .. n - 1 : f[i + 1] = f[i] \o ss[i + 1]
  <2>1. \A i \in 1 .. n : f[i] = IF i = 1 THEN ss[i] ELSE f[i - 1] \o ss[i]
    BY <1>9
  <2>2. \A i \in 1 .. n - 1 : i + 1 \in 1 .. n /\ i + 1 # 1 /\ (i + 1) - 1 = i
    BY <1>1
  <2> QED
    BY <1>5, <2>1, <2>2
<1>12. \A i \in 1 .. n : f[i] \in X
  <2> DEFINE S == {k \in 0 .. m : f[k + 1] \in X}
  <2>1. 0 \in S
    BY <1>1, <1>5, <1>11
  <2>2. ASSUME NEW k \in 0 .. m - 1, k \in S PROVE k + 1 \in S
    <3>1. k + 1 \in 0 .. m /\ k + 1 \in 1 .. n - 1 /\ (k + 1) + 1 \in 1 .. n /\ f[k + 1] \in X
      BY <1>1, <2>2
    <3>2. f[(k + 1) + 1] \in X
      <4> DEFINE j == k + 1
      <4>1. f[j + 1] = f[j] \o ss[j + 1] /\ ss[j + 1] \in X /\ f[j] \in X
        BY <1>2, <1>11, <3>1
      <4> HIDE DEF j
      <4>2. f[j + 1] \in X
        BY <4>1 DEF X
      <4> QED
        BY <4>2 DEF j
    <3> QED
      BY <3>1, <3>2
  <2> HIDE DEF S
  <2>3. 0 .. m \subseteq S
    BY <1>1, <2>1, <2>2, UpTo
  <2>4. \A i \in 1 .. n : i - 1 \in 0 .. m /\ (i - 1) + 1 = i
    BY <1>1
  <2> QED
    BY <2>3, <2>4 DEF S
<1> QED
  BY <1>10, <1>11, <1>12 DEF n, X

LEMMA FlatEmpty == FlattenSeq(<<>>) = <<>>
  BY DEF FlattenSeq

LEMMA FlatAppend ==
    ASSUME NEW W, NEW ss \in Seq(Seq(W)), NEW s \in Seq(W)
    PROVE  /\ FlattenSeq(ss) \in Seq(W)
           /\ FlattenSeq(Append(ss, s)) = FlattenSeq(ss) \o s
<1> DEFINE X == Seq(W)  n == Len(ss)  q == Append(ss, s)
<1>1. n \in Nat /\ q \in Seq(X) /\ q # <<>> /\ Len(q) = n + 1 /\ q[n + 1] = s
      /\ \A i \in 1 .. n : q[i] = ss[i]
  <2> HIDE DEF X
  <2>1. ss \in Seq(X) /\ s \in X
    BY DEF X
  <2>2. Len(ss) \in Nat
    BY <2>1
  <2> QED
    BY <2>1, <2>2, AppendAt
<1>2. PICK h : /\ FlattenSeq(q) = h[n + 1] /\ h[1] = q[1]
               /\ \A i \in 1 .. n : h[i + 1] = h[i] \o q[i + 1]
  <2> HIDE DEF q
  <2>1. q \in Seq(Seq(W)) /\ q # <<>>
    BY <1>1
  <2>2. PICK h : /\ FlattenSeq(q) = h[Len(q)] /\ h[1] = q[1]
                 /\ \A i \in 1 .. Len(q) : h[i] \in Seq(W)
                 /\ \A i \in 1 .. Len(q) - 1 : h[i + 1] = h[i] \o q[i + 1]
    BY <2>1, FlatRec
  <2>3. Len(q) - 1 = n /\ Len(q) = n + 1
    BY <1>1
  <2> QED
    BY <2>2, <2>3
<1>3. CASE ss = <<>>
  <2>1. n = 0 /\ FlattenSeq(ss) = <<>> /\ <<>> \in Seq(W)
    BY <1>3, FlatEmpty
  <2>2. FlattenSeq(q) = s
    BY <1>1, <1>2, <2>1
  <2>3. <<>> \o s = s
    OBVIOUS
  <2> QED
    BY <2>1, <2>2, <2>3
<1>4. CASE ss # <<>>
  <2>1. PICK f : /\ FlattenSeq(ss) = f[n] /\ f[1] = ss[1]
                 /\ \A i \in 1 .. n : f[i] \in Seq(W)
                 /\ \A i \in 1 .. n - 1 : f[i + 1] = f[i] \o ss[i + 1]
    BY <1>4, FlatRec
  <2>2. n # 0 /\ n - 1 \in Nat
    BY <1>4
  <2> HIDE DEF n, q, X
  <2> DEFINE S == {k \in 0 .. n - 1 : f[k + 1] = h[k + 1]}
  <2>3. 0 \in S
    BY <1>1, <1>2, <2>1, <2>2
  <2>4. ASSUME NEW k \in 0 .. (n - 1) - 1, k \in S PROVE k + 1 \in S
    <3>1. k + 1 \in 0 .. n - 1 /\ k + 1 \in 1 .. n - 1 /\ k + 1 \in 1 .. n /\ (k + 1) + 1 \in 1 .. n
          /\ f[k + 1] = h[k + 1]
      BY <1>1, <2>4
    <3>2. f[(k + 1) + 1] = h[(k + 1) + 1]
      BY <1>1, <1>2, <2>1, <3>1
    <3> QED
      BY <3>1, <3>2
  <2> HIDE DEF S
  <2>5. 0 .. n - 1 \subseteq S
    BY <2>2, <2>3, <2>4, UpTo
  <2>6. n - 1 \in 0 .. n - 1 /\ (n - 1) + 1 = n /\ n \in 1 .. n
    BY <1>1, <2>2
  <2>7. f[n] = h[n]
    BY <2>5, <2>6 DEF S
  <2> QED
    BY <1>1, <1>2, <2>1, <2>6, <2>7 DEF q
<1> QED
  BY <1>3, <1>4

-----------------------------------------------------------------------------
(* The text of an address.                                                 *)

LEMMA ConcatAppend ==
    ASSUME NEW S, NEW s \in Seq(S), NEW t \in Seq(S), NEW e \in S
    PROVE  s \o Append(t, e) = Append(s \o t, e)
OBVIOUS

LEMMA ConcatOne ==
    ASSUME NEW S, NEW s \in Seq(S), NEW e \in S
    PROVE  s \o <<e>> = Append(s, e)
OBVIOUS

LEMMA ConcatTwo == \A a, b : <<a>> \o <<b>> = <<a, b>>
<1> SUFFICES ASSUME NEW a, NEW b PROVE <<a>> \o <<b>> = <<a, b>>
  OBVIOUS
<1> DEFINE S == {a, b}  s == <<a>>  t == <<b>>  u == s \o t  v == <<a, b>>
<1>1. s \in Seq(S) /\ t \in Seq(S) /\ v \in Seq(S)
      /\ s[1] = a /\ t[1] = b /\ v[1] = a /\ v[2] = b
  OBVIOUS
<1>2. Len(s) = 1 /\ Len(t) = 1 /\ Len(v) = 2
  OBVIOUS
<1> HIDE DEF S, s, t, v
<1>3. u \in Seq(S) /\ Len(u) = 2 /\ u[1] = s[1] /\ u[2] = t[1]
  BY <1>1, <1>2, ConcatProperties
<1> HIDE DEF u
<1>4. u = v
  BY <1>1, <1>2, <1>3, SeqEqual
<1> QED
  BY <1>4 DEF s, t, u, v

\* Operators by other names: the provers leave these as they are.
Cat(a, b) == a \o b
App(a, e) == Append(a, e)
Maps(X, Y) == [X -> Y]
Of(f, x) == f[x]

LEMMA CatFacts ==
    ASSUME NEW S, NEW a \in Seq(S), NEW b \in Seq(S)
    PROVE  /\ Cat(a, b) \in Seq(S)
           /\ \A c \in Seq(S) : Cat(Cat(a, b), c) = Cat(a, Cat(b, c))
<1>1. Cat(a, b) \in Seq(S)
  BY DEF Cat
<1>2. ASSUME NEW c \in Seq(S) PROVE Cat(Cat(a, b), c) = Cat(a, Cat(b, c))
  BY ConcatAssociative DEF Cat
<1> QED
  BY <1>1, <1>2

\* A stack at the end of a url.
LEMMA Regroup ==
    ASSUME NEW S, NEW p \in Seq(S), NEW t \in Seq(S), NEW k \in Seq(S), NEW v \in Seq(S),
           NEW e \in Seq(S)
    PROVE  Cat(p, Cat(t, Cat(Cat(Cat(k, e), v), e))) = Cat(Cat(Cat(Cat(Cat(p, t), k), e), v), e)
<1>1. Cat(k, e) \in Seq(S) /\ Cat(p, t) \in Seq(S)
  BY CatFacts
<1>2. Cat(Cat(k, e), v) \in Seq(S)
  BY <1>1, CatFacts
<1>3. Cat(Cat(Cat(k, e), v), e) \in Seq(S)
  BY <1>2, CatFacts
<1>4. Cat(p, Cat(t, Cat(Cat(Cat(k, e), v), e))) = Cat(Cat(p, t), Cat(Cat(Cat(k, e), v), e))
  BY <1>3, CatFacts
<1>5. Cat(Cat(p, t), Cat(Cat(Cat(k, e), v), e)) = Cat(Cat(Cat(p, t), Cat(Cat(k, e), v)), e)
  BY <1>1, <1>2, CatFacts
<1>6. Cat(Cat(p, t), Cat(Cat(k, e), v)) = Cat(Cat(Cat(p, t), Cat(k, e)), v)
  BY <1>1, CatFacts
<1>7. Cat(Cat(p, t), Cat(k, e)) = Cat(Cat(Cat(p, t), k), e)
  BY <1>1, CatFacts
<1> QED
  BY <1>4, <1>5, <1>6, <1>7

LEMMA ConcatEmpty ==
    ASSUME NEW S, NEW s \in Seq(S)
    PROVE  s \o <<>> = s /\ <<>> \o s = s
OBVIOUS

\* The last of several things, and another in its place.
LEMMA SetLast ==
    ASSUME NEW X, NEW segs \in Seq(X), NEW q \in Seq(X), NEW u \in X,
           Len(q) = Len(segs) + 1, \A i \in 1 .. Len(segs) : q[i] = segs[i]
    PROVE  [q EXCEPT ![Len(q)] = u] = Append(segs, u)
<1> DEFINE n == Len(q)  a == [q EXCEPT ![Len(q)] = u]  b == Append(segs, u)
<1>1. n \in Nat /\ n = Len(segs) + 1 /\ Len(segs) \in Nat /\ n \in 1 .. n
  BY LenProperties
<1>2. /\ a \in Seq(X) /\ Len(a) = n
      /\ \A j \in 1 .. n : a[j] = IF j = n THEN u ELSE q[j]
  BY <1>1, ExceptSeq
<1>3. /\ b \in Seq(X) /\ Len(b) = Len(segs) + 1 /\ b[Len(segs) + 1] = u
      /\ \A j \in 1 .. Len(segs) : b[j] = segs[j]
  BY AppendAt
<1> HIDE DEF a, b, n
<1>4. \A j \in 1 .. n : a[j] = b[j]
  BY <1>1, <1>2, <1>3
<1> QED
  <2>1. a = b
    BY <1>1, <1>2, <1>3, <1>4, SeqEqual
  <2> QED
    BY <2>1 DEF a, b

LEMMA ReplaceLast ==
    ASSUME NEW X, NEW segs \in Seq(X), NEW t \in X, NEW q, q = Append(segs, t)
    PROVE  /\ q[Len(q)] = t
           /\ \A u \in X : [q EXCEPT ![Len(q)] = u] = Append(segs, u)
<1>1. /\ q \in Seq(X) /\ Len(q) = Len(segs) + 1 /\ q[Len(segs) + 1] = t
      /\ \A i \in 1 .. Len(segs) : q[i] = segs[i]
  BY AppendAt
<1>2. ASSUME NEW u \in X PROVE [q EXCEPT ![Len(q)] = u] = Append(segs, u)
  BY <1>1, SetLast
<1> QED
  BY <1>1, <1>2

LEMMA ExtendLast ==
    ASSUME NEW W, NEW segs \in Seq(Seq(W)), NEW t \in Seq(W), NEW w \in W, w # "/"
    PROVE  Extend(Append(segs, t), w) = Append(segs, Append(t, w))
<1> DEFINE X == Seq(W)  q == Append(segs, t)  u == Append(t, w)
<1>1. segs \in Seq(X) /\ t \in X /\ u \in X
  OBVIOUS
<1>2. Extend(q, w) = [q EXCEPT ![Len(q)] = Append(q[Len(q)], w)]
  BY DEF Extend
<1>3. q = Append(segs, t)
  OBVIOUS
<1> HIDE DEF X, q
<1>4. q[Len(q)] = t
  BY <1>1, <1>3, ReplaceLast
<1>5. Append(q[Len(q)], w) = u
  BY <1>4
<1> DEFINE y == Append(q[Len(q)], w)
<1>6. y = u /\ Extend(q, w) = [q EXCEPT ![Len(q)] = y]
  BY <1>2, <1>5
<1> HIDE DEF u, y
<1>7. [q EXCEPT ![Len(q)] = u] = Append(segs, u)
  BY <1>1, <1>3, ReplaceLast
<1>8. Extend(q, w) = Append(segs, u)
  BY <1>6, <1>7
<1> QED
  BY <1>8 DEF q, u

\* What follows a slash is the last segment, up to the next slash.
LEMMA SplitOver ==
    ASSUME NEW W, "/" \notin W, NEW path \in Seq(W \cup {"/"}), NEW segs \in Seq(Seq(W)),
           Split(path) = Append(segs, <<>>), NEW s \in Seq(W)
    PROVE  /\ Split(path \o s) = Append(segs, s)
           /\ Split(path \o s \o <<"/">>) = Append(Append(segs, s), <<>>)
<1> DEFINE V == W \cup {"/"}  S == {t \in Seq(W) : Split(path \o t) = Append(segs, t)}
<1>1. \A t \in Seq(W) : t \in Seq(V) /\ path \o t \in Seq(V)
  OBVIOUS
<1>2. <<>> \in S
  BY ConcatEmpty
<1>3. ASSUME NEW t \in Seq(W), NEW w \in W, t \in S PROVE Append(t, w) \in S
  <2> DEFINE q == Append(segs, t)
  <2>1. path \o Append(t, w) = Append(path \o t, w)
    BY <1>1, ConcatAppend
  <2>2. Split(path \o t) = q
    BY <1>3
  <2>3. path \o t \in Seq(W \cup {"/"}) /\ w \in W \cup {"/"}
    BY <1>1
  <2>4. Split(Append(path \o t, w)) = Extend(q, w)
    BY <2>2, <2>3, SplitAppend
  <2>5. Extend(q, w) = Append(segs, Append(t, w))
    BY ExtendLast
  <2>6. Append(t, w) \in Seq(W)
    OBVIOUS
  <2> QED
    BY <2>1, <2>4, <2>5, <2>6
<1> HIDE DEF S
<1>4. Seq(W) \subseteq S
  BY <1>2, <1>3, SeqInduction
<1>5. Split(path \o s) = Append(segs, s)
  BY <1>4 DEF S
<1>6. Split(path \o s \o <<"/">>) = Extend(Append(segs, s), "/")
  <2> DEFINE p == path \o s
  <2>1. p \in Seq(W \cup {"/"}) /\ "/" \in W \cup {"/"}
    BY <1>1
  <2> HIDE DEF p
  <2>2. p \o <<"/">> = Append(p, "/")
    BY <2>1, ConcatOne
  <2>3. Split(Append(p, "/")) = Extend(Split(p), "/")
    BY <2>1, SplitAppend
  <2> QED
    BY <1>5, <2>2, <2>3 DEF p
<1>7. Extend(Append(segs, s), "/") = Append(Append(segs, s), <<>>)
  BY DEF Extend
<1> QED
  BY <1>5, <1>6, <1>7

\* What f makes of the members of s, one after the other.
Mapped(f, s) == [i \in DOMAIN s |-> f[s[i]]]
FlatMap(f, s) == FlattenSeq(Mapped(f, s))

LEMMA MapAppend ==
    ASSUME NEW X, NEW Y, NEW f \in Maps(X, Y), NEW s \in Seq(X), NEW x \in X
    PROVE  /\ Mapped(f, s) \in Seq(Y) /\ Len(Mapped(f, s)) = Len(s)
           /\ Mapped(f, App(s, x)) = App(Mapped(f, s), Of(f, x))
<1>0. f \in [X -> Y]
  BY DEF Maps
<1> DEFINE n == Len(s)  a == Mapped(f, s)  t == Append(s, x)  b == Mapped(f, t)
<1>1. n \in Nat /\ s \in [1 .. n -> X]
  BY LenProperties
<1>2. a \in [1 .. n -> Y] /\ \A i \in 1 .. n : a[i] = f[s[i]]
  BY <1>0, <1>1 DEF Mapped
<1>3. /\ t \in Seq(X) /\ Len(t) = n + 1 /\ t[n + 1] = x
      /\ \A i \in 1 .. n : t[i] = s[i]
  BY AppendAt
<1>4. t \in [1 .. n + 1 -> X]
  BY <1>3, LenProperties
<1> HIDE DEF t
<1>5. b \in [1 .. n + 1 -> Y] /\ \A i \in 1 .. n + 1 : b[i] = f[t[i]]
  BY <1>0, <1>4 DEF Mapped
<1> HIDE DEF a, b, n
<1>6. a \in Seq(Y) /\ Len(a) = n /\ b \in Seq(Y) /\ Len(b) = n + 1
  BY <1>1, <1>2, <1>5
<1>7. f[x] \in Y
  BY <1>0
<1> DEFINE c == Append(a, f[x])
<1>8. c \in Seq(Y) /\ Len(c) = n + 1 /\ c[n + 1] = f[x] /\ \A i \in 1 .. n : c[i] = a[i]
  BY <1>6, <1>7, AppendAt
<1> HIDE DEF c
<1>9. \A i \in 1 .. n + 1 : b[i] = c[i]
  BY <1>1, <1>2, <1>3, <1>5, <1>8
<1>10. b = c
  BY <1>6, <1>8, <1>9, SeqEqual
<1> QED
  BY <1>6, <1>10 DEF a, b, c, n, t, App, Of

LEMMA FlatMapFacts ==
    ASSUME NEW X, NEW W, NEW f \in Maps(X, Seq(W)), NEW s \in Seq(X), NEW x \in X
    PROVE  /\ FlatMap(f, <<>>) = <<>>
           /\ FlatMap(f, s) \in Seq(W)
           /\ FlatMap(f, App(s, x)) = Cat(FlatMap(f, s), Of(f, x))
<1>1. Mapped(f, <<>>) = <<>>
  BY DEF Mapped
<1>2. Of(f, x) \in Seq(W)
  BY DEF Maps, Of
<1>3. Mapped(f, s) \in Seq(Seq(W)) /\ Mapped(f, App(s, x)) = App(Mapped(f, s), Of(f, x))
  BY MapAppend
<1>4. /\ FlattenSeq(Mapped(f, s)) \in Seq(W)
      /\ FlattenSeq(Append(Mapped(f, s), Of(f, x))) = FlattenSeq(Mapped(f, s)) \o Of(f, x)
  BY <1>2, <1>3, FlatAppend
<1> QED
  BY <1>1, <1>3, <1>4, FlatEmpty DEF FlatMap, App, Cat

Stacks(W) == Seq(W) \X Seq(W)
Texts(W) == [s \in Stacks(W) |-> StackText(s)]

LEMMA TextsFacts ==
    ASSUME NEW W
    PROVE  /\ Texts(W) \in [Stacks(W) -> Seq(W \cup {"/"})]
           /\ \A s \in Stacks(W) :
                 /\ s[1] \in Seq(W) /\ s[2] \in Seq(W)
                 /\ Texts(W)[s] = s[1] \o <<"/">> \o s[2] \o <<"/">>
<1>1. ASSUME NEW k \in Seq(W), NEW v \in Seq(W)
      PROVE  k \o <<"/">> \o v \o <<"/">> \in Seq(W \cup {"/"})
  OBVIOUS
<1>2. \A s \in Stacks(W) : s[1] \in Seq(W) /\ s[2] \in Seq(W)
  BY DEF Stacks
<1>3. \A s \in Stacks(W) : Texts(W)[s] = s[1] \o <<"/">> \o s[2] \o <<"/">>
  BY DEF Texts, StackText
<1>4. \A s \in Stacks(W) : s[1] \o <<"/">> \o s[2] \o <<"/">> \in Seq(W \cup {"/"})
  BY <1>1, <1>2
<1> QED
  BY <1>2, <1>3, <1>4 DEF Texts, StackText

\* The segments of a url: the word in front, and the keys and values.
SegmentsOf(q, w, sl) ==
    /\ Len(q) = 2 * Len(sl) + 1 /\ q[1] = <<w>>
    /\ \A i \in 1 .. Len(sl) : q[2 * i] = sl[i][1] /\ q[2 * i + 1] = sl[i][2]

LEMMA SplitUrl ==
    ASSUME NEW W, "/" \notin W, NEW w \in W, NEW sl \in Seq(Stacks(W))
    PROVE  /\ <<w, "/">> \o FlatMap(Texts(W), sl) \in Seq(W \cup {"/"})
           /\ \E q \in Seq(Seq(W)) :
                 /\ Split(<<w, "/">> \o FlatMap(Texts(W), sl)) = Append(q, <<>>)
                 /\ SegmentsOf(q, w, sl)
<1> DEFINE V == W \cup {"/"}  f == Texts(W)  p(t) == <<w, "/">> \o FlatMap(f, t)
           S == {t \in Seq(Stacks(W)) :
                    /\ p(t) \in Seq(V)
                    /\ \E q \in Seq(Seq(W)) : Split(p(t)) = Append(q, <<>>) /\ SegmentsOf(q, w, t)}
<1>1. f \in [Stacks(W) -> Seq(V)]
  BY TextsFacts
<1>2. <<>> \in S
  <2>1. FlatMap(f, <<>>) = <<>>
    BY FlatEmpty DEF FlatMap, Mapped
  <2>2. <<w, "/">> \in Seq(V) /\ p(<<>>) = <<w, "/">>
    <3> DEFINE p0 == <<w, "/">>
    <3>1. p0 \in Seq(V)
      OBVIOUS
    <3> HIDE DEF p0
    <3>2. p0 \o <<>> = p0
      BY <3>1, ConcatEmpty
    <3> QED
      BY <2>1, <3>1, <3>2 DEF p0
  <2>3. Split(<<w, "/">>) = Append(<<<<w>>>>, <<>>)
    <3>1. Split(<<>>) = Append(<<>>, <<>>) /\ <<>> \in Seq(V) /\ <<>> \in Seq(Seq(W)) /\ <<w>> \in Seq(W)
      BY SplitEmpty
    <3>2. Split(<<>> \o <<w>> \o <<"/">>) = Append(Append(<<>>, <<w>>), <<>>)
      BY <3>1, SplitOver
    <3>3. <<>> \o <<w>> = <<w>> /\ Append(<<>>, <<w>>) = <<<<w>>>>
      <4> DEFINE e == <<w>>
      <4>1. e \in Seq(W)
        OBVIOUS
      <4> HIDE DEF e
      <4>2. <<>> \o e = e /\ Append(<<>>, e) = <<e>>
        BY <4>1, ConcatEmpty
      <4> QED
        BY <4>2 DEF e
    <3>4. <<w>> \o <<"/">> = <<w, "/">>
      BY ConcatTwo
    <3> QED
      BY <3>2, <3>3, <3>4
  <2>4. <<<<w>>>> \in Seq(Seq(W)) /\ SegmentsOf(<<<<w>>>>, w, <<>>)
    <3> DEFINE e == <<w>>  X == Seq(W)
    <3>1. e \in X
      OBVIOUS
    <3> HIDE DEF e, X
    <3>2. <<e>> \in Seq(X) /\ Len(<<e>>) = 1 /\ <<e>>[1] = e /\ Len(<<>>) = 0
      BY <3>1
    <3> QED
      BY <3>2 DEF SegmentsOf, e, X
  <2>5. <<>> \in Seq(Stacks(W))
    OBVIOUS
  <2> HIDE DEF p
  <2> QED
    BY <2>2, <2>3, <2>4, <2>5
<1>3. ASSUME NEW t \in Seq(Stacks(W)), NEW s \in Stacks(W), t \in S PROVE Append(t, s) \in S
  <2>1. PICK q \in Seq(Seq(W)) : Split(p(t)) = Append(q, <<>>) /\ SegmentsOf(q, w, t)
    BY <1>3
  <2>2. p(t) \in Seq(V)
    BY <1>3
  <2> DEFINE k == s[1]  v == s[2]  pt == p(t)  tt == FlatMap(f, t)  p0 == <<w, "/">>
  <2>3. k \in Seq(W) /\ v \in Seq(W) /\ f[s] = k \o <<"/">> \o v \o <<"/">>
    BY TextsFacts
  <2>4. FlatMap(f, Append(t, s)) = tt \o f[s] /\ tt \in Seq(V)
    <3> HIDE DEF f, V, S
    <3>1. f \in Maps(Stacks(W), Seq(V))
      BY <1>1 DEF Maps
    <3>2. tt \in Seq(V)
      BY <3>1, FlatMapFacts
    <3>3. FlatMap(f, App(t, s)) = Cat(tt, Of(f, s))
      BY <3>1, FlatMapFacts
    <3> QED
      BY <3>2, <3>3 DEF App, Cat, Of
  <2>5. p0 \in Seq(V) /\ pt = p0 \o tt /\ <<"/">> \in Seq(V) /\ pt \in Seq(V)
    BY <2>2
  <2>6. p(Append(t, s)) = p0 \o (tt \o f[s])
    BY <2>4
  <2> HIDE DEF p, k, v, pt, tt, p0, f
  <2>7. k \in Seq(V) /\ v \in Seq(V)
    BY <2>3, SeqMonotonic
  <2> DEFINE e == <<"/">>  pk == pt \o k \o e
  <2>8. p0 \o (tt \o (k \o e \o v \o e)) = pk \o v \o e /\ pk \in Seq(V)
    <3>1. e \in Seq(V)
      BY <2>5
    <3> HIDE DEF e, V
    <3>0. p0 \in Seq(V) /\ tt \in Seq(V) /\ k \in Seq(V) /\ v \in Seq(V)
      BY <2>4, <2>5, <2>7
    <3>2. Cat(p0, Cat(tt, Cat(Cat(Cat(k, e), v), e))) = Cat(Cat(Cat(Cat(Cat(p0, tt), k), e), v), e)
      BY <3>0, <3>1, Regroup
    <3>4. p0 \o (tt \o (k \o e \o v \o e)) = p0 \o tt \o k \o e \o v \o e
      BY <3>2, Zenon DEF Cat
    <3>3. pt \o k \o e \in Seq(V)
      BY <3>1, <2>5, <2>7
    <3> QED
      BY <2>5, <3>4, <3>3, Zenon
  <2>9. p(Append(t, s)) = pk \o v \o e
    BY <2>3, <2>6, <2>8
  <2>10. Split(pk) = Append(Append(q, k), <<>>)
    BY <2>1, <2>3, <2>5, SplitOver DEF pt
  <2> DEFINE qk == Append(q, k)  qv == Append(qk, v)
  <2>11. /\ qk \in Seq(Seq(W)) /\ Len(qk) = Len(q) + 1 /\ qk[Len(q) + 1] = k
         /\ \A i \in 1 .. Len(q) : qk[i] = q[i]
         /\ qv \in Seq(Seq(W)) /\ Len(qv) = Len(q) + 2 /\ qv[Len(q) + 2] = v
         /\ \A i \in 1 .. Len(q) + 1 : qv[i] = qk[i]
    <3> DEFINE X == Seq(W)
    <3>1. q \in Seq(X) /\ k \in X /\ v \in X /\ Len(q) \in Nat
      BY <2>1, <2>3
    <3> HIDE DEF X, qv
    <3>2. /\ qk \in Seq(X) /\ Len(qk) = Len(q) + 1 /\ qk[Len(q) + 1] = k
          /\ \A i \in 1 .. Len(q) : qk[i] = q[i]
      BY <3>1, AppendAt
    <3> HIDE DEF qk
    <3>3. /\ qv \in Seq(X) /\ Len(qv) = Len(qk) + 1 /\ qv[Len(qk) + 1] = v
          /\ \A i \in 1 .. Len(qk) : qv[i] = qk[i]
      BY <3>1, <3>2, AppendAt DEF qv
    <3>4. (Len(q) + 1) + 1 = Len(q) + 2
      BY <3>1
    <3> QED
      BY <3>2, <3>3, <3>4 DEF X
  <2> HIDE DEF qk, qv, pk
  <2>12. Split(pk \o v \o e) = Append(Append(qk, v), <<>>)
    BY <2>3, <2>8, <2>10, <2>11, SplitOver DEF qk
  <2>13. Split(p(Append(t, s))) = Append(qv, <<>>)
    BY <2>9, <2>12 DEF qv
  <2> DEFINE ts == Append(t, s)  n == Len(t)
  <2>14. /\ n \in Nat /\ ts \in Seq(Stacks(W)) /\ Len(ts) = n + 1 /\ ts[n + 1] = s
         /\ \A i \in 1 .. n : ts[i] = t[i]
    BY AppendAt
  <2> HIDE DEF ts, n
  <2>15. /\ Len(q) = 2 * n + 1 /\ q[1] = <<w>>
         /\ \A i \in 1 .. n : q[2 * i] = t[i][1] /\ q[2 * i + 1] = t[i][2]
    BY <2>1 DEF SegmentsOf, n
  <2>16. SegmentsOf(qv, w, ts)
    <3>1. Len(qv) = 2 * Len(ts) + 1
      BY <2>11, <2>14, <2>15
    <3>2. qv[1] = <<w>>
      <4>1. 1 \in 1 .. Len(q) /\ 1 \in 1 .. Len(q) + 1
        BY <2>14, <2>15
      <4> QED
        BY <2>11, <2>15, <4>1
    <3>3. ASSUME NEW i \in 1 .. Len(ts) PROVE qv[2 * i] = ts[i][1] /\ qv[2 * i + 1] = ts[i][2]
      <4>1. CASE i = n + 1
        <5>1. 2 * i = Len(q) + 1 /\ 2 * i + 1 = Len(q) + 2 /\ Len(q) + 1 \in 1 .. Len(q) + 1
          BY <2>14, <2>15, <4>1
        <5>2. qv[2 * i] = k /\ qv[2 * i + 1] = v
          BY <2>11, <5>1
        <5> QED
          BY <2>14, <4>1, <5>2 DEF k, v
      <4>2. CASE i # n + 1
        <5>1. i \in 1 .. n /\ 2 * i \in 1 .. Len(q) /\ 2 * i + 1 \in 1 .. Len(q)
              /\ 2 * i \in 1 .. Len(q) + 1 /\ 2 * i + 1 \in 1 .. Len(q) + 1
          BY <2>14, <2>15, <4>2
        <5>2. qv[2 * i] = q[2 * i] /\ qv[2 * i + 1] = q[2 * i + 1]
          BY <2>11, <5>1
        <5> QED
          BY <2>14, <2>15, <5>1, <5>2
      <4> QED
        BY <4>1, <4>2
    <3> QED
      BY <3>1, <3>2, <3>3 DEF SegmentsOf
  <2>17. p(ts) \in Seq(V)
    BY <2>4, <2>5, <2>6, <1>1 DEF ts
  <2> QED
    BY <2>11, <2>13, <2>14, <2>16, <2>17 DEF ts
<1> HIDE DEF S
<1>4. Seq(Stacks(W)) \subseteq S
  BY <1>2, <1>3, SeqInduction
<1> QED
  BY <1>4 DEF S

-----------------------------------------------------------------------------
(* What is parsed from a url.                                              *)

Addrs(W) == [id : Ids \cup {None}, stack_list : Seq(Stacks(W))]

LEMMA FromB64Facts ==
    /\ \A seg : FromB64(seg) \in Ids \cup {None}
    /\ \A w : FromB64(<<w>>) = IF w \in Ids THEN w ELSE None
<1>1. \A seg : FromB64(seg) \in Ids \cup {None}
  BY DEF FromB64
<1>2. ASSUME NEW w PROVE FromB64(<<w>>) = IF w \in Ids THEN w ELSE None
  <2>1. Len(<<w>>) = 1 /\ <<w>>[1] = w
    OBVIOUS
  <2> QED
    BY <2>1 DEF FromB64
<1> QED
  BY <1>1, <1>2

LEMMA FromUrlType ==
    ASSUME NEW W, NEW path \in Seq(W \cup {"/"})
    PROVE  FromUrl(path) \in Addrs(W)
<1> DEFINE X == Seq(W)  segs == SplitTerminator(path)
<1>1. segs \in Seq(X)
  <2> DEFINE q == Split(path)
  <2>1. q \in Seq(X) /\ q # <<>>
    <3>1. PICK f : /\ Split(path) = f[Len(path)]
                   /\ \A n \in 0 .. Len(path) : f[n] \in SomeSegs(W)
      BY SplitRec
    <3>2. Len(path) \in 0 .. Len(path)
      OBVIOUS
    <3> QED
      BY <3>1, <3>2 DEF SomeSegs
  <2> HIDE DEF q, X
  <2>2. Front(q) \in Seq(X)
    <3>1. Len(q) \in Nat /\ \A i \in 1 .. Len(q) - 1 : q[i] \in X
      BY <2>1
    <3> QED
      BY <3>1, SubSeqProperties DEF Front
  <2> QED
    BY <2>1, <2>2 DEF SplitTerminator, q
<1> HIDE DEF segs
<1>2. CASE segs = <<>>
  <2>1. FromUrl(path) = [id |-> None, stack_list |-> <<>>]
    BY <1>2 DEF FromUrl, segs
  <2> QED
    BY <2>1 DEF Addrs
<1>3. CASE segs # <<>>
  <2> DEFINE k == (Len(segs) - 1) \div 2
             sl == [i \in 1 .. k |-> <<segs[2 * i], segs[2 * i + 1]>>]
  <2>1. FromUrl(path) = [id |-> FromB64(segs[1]), stack_list |-> sl]
    BY <1>3 DEF FromUrl, segs
  <2>2. Len(segs) \in Nat /\ Len(segs) # 0
    BY <1>1, <1>3
  <2>3. k \in Nat /\ 2 * k <= Len(segs) - 1
    BY <2>2
  <2> HIDE DEF k
  <2>4. ASSUME NEW i \in 1 .. k PROVE segs[2 * i] \in X /\ segs[2 * i + 1] \in X
    <3>1. 2 * i \in 1 .. Len(segs) /\ 2 * i + 1 \in 1 .. Len(segs)
      BY <2>2, <2>3
    <3> HIDE DEF X
    <3> QED
      BY <1>1, <3>1, ElementOfSeq
  <2>5. sl \in [1 .. k -> Stacks(W)]
    BY <2>4 DEF Stacks
  <2> HIDE DEF sl
  <2>6. sl \in Seq(Stacks(W))
    <3> DEFINE Y == Stacks(W)
    <3>1. sl \in [1 .. k -> Y]
      BY <2>5
    <3> HIDE DEF Y
    <3>2. sl \in Seq(Y)
      BY <2>3, <3>1
    <3> QED
      BY <3>2 DEF Y
  <2> QED
    BY <2>1, <2>6, FromB64Facts DEF Addrs
<1> QED
  BY <1>2, <1>3

\* An address is parsed back from the url it is printed as, whatever its
\* identifier, keys and values: these are words without a slash, possibly empty,
\* as all that were parsed are (addr.rs, 223-276).
THEOREM AddrRoundTrip ==
    ASSUME NEW W, "/" \notin W, Ids \cup {"-"} \subseteq W, NEW a \in Addrs(W)
    PROVE  ToUrl(a) \in Seq(W \cup {"/"}) /\ FromUrl(ToUrl(a)) = a
<1> DEFINE w == IF a.id = None THEN "-" ELSE a.id  sl == a.stack_list  u == ToUrl(a)
           X == Seq(W)
<1>1. /\ a = [id |-> a.id, stack_list |-> sl] /\ a.id \in Ids \cup {None}
      /\ sl \in Seq(Stacks(W)) /\ w \in W
  BY DEF Addrs
<1>2. FromB64(<<w>>) = a.id
  BY <1>1, IdsAssumption, FromB64Facts
<1> HIDE DEF sl
<1>3. [i \in DOMAIN sl |-> StackText(sl[i])] = Mapped(Texts(W), sl)
  <2>1. \A i \in DOMAIN sl : sl[i] \in Stacks(W)
    BY <1>1
  <2> QED
    BY <2>1 DEF Mapped, Texts
<1>4. u = <<w, "/">> \o FlatMap(Texts(W), sl)
  BY <1>3 DEF ToUrl, FlatMap, sl
<1> HIDE DEF u, w
<1>5. u \in Seq(W \cup {"/"})
  BY <1>1, <1>4, SplitUrl
<1>6. PICK q \in Seq(Seq(W)) : Split(u) = Append(q, <<>>) /\ SegmentsOf(q, w, sl)
  BY <1>1, <1>4, SplitUrl
<1>7. SplitTerminator(u) = q
  <2> DEFINE e == <<>>  r == Append(q, e)
  <2>1. q \in Seq(X) /\ e \in X /\ Len(q) \in Nat
    OBVIOUS
  <2>2. Split(u) = r
    BY <1>6
  <2>3. SplitTerminator(u) = IF r[Len(r)] = e THEN SubSeq(r, 1, Len(r) - 1) ELSE r
    BY <2>2 DEF SplitTerminator, Last, Front
  <2> HIDE DEF e, X
  <2>4. /\ r \in Seq(X) /\ Len(r) = Len(q) + 1 /\ r[Len(q) + 1] = e
        /\ \A i \in 1 .. Len(q) : r[i] = q[i]
    BY <2>1, AppendAt
  <2> HIDE DEF r
  <2>5. Len(r) - 1 = Len(q)
    BY <2>1, <2>4
  <2>6. SubSeq(r, 1, Len(q)) = q
    <3> DEFINE z == SubSeq(r, 1, Len(q))
    <3>1. \A i \in 1 .. Len(q) : r[i] \in X
      BY <2>1, <2>4
    <3>2. z \in Seq(X) /\ Len(z) = Len(q) /\ \A i \in 1 .. Len(q) : z[i] = r[i]
      BY <2>1, <3>1, SubSeqProperties
    <3> HIDE DEF z
    <3>3. \A i \in 1 .. Len(q) : z[i] = q[i]
      BY <2>4, <3>2
    <3>4. z = q
      BY <2>1, <3>2, <3>3, SeqEqual
    <3> QED
      BY <3>4 DEF z
  <2> QED
    BY <2>3, <2>4, <2>5, <2>6
<1> DEFINE n == Len(sl)  list == [i \in 1 .. (Len(q) - 1) \div 2 |-> <<q[2 * i], q[2 * i + 1]>>]
<1>8. /\ n \in Nat /\ Len(q) = 2 * n + 1 /\ q[1] = <<w>> /\ q # <<>>
      /\ \A i \in 1 .. n : q[2 * i] = sl[i][1] /\ q[2 * i + 1] = sl[i][2]
  BY <1>1, <1>6 DEF SegmentsOf
<1>9. FromUrl(u) = [id |-> FromB64(q[1]), stack_list |-> list]
  BY <1>7, <1>8 DEF FromUrl
<1> HIDE DEF n
<1>10. (Len(q) - 1) \div 2 = n
  <2>1. Len(q) - 1 = 2 * n /\ n \in Int
    BY <1>8
  <2>2. (2 * n) \div 2 = n
    BY <2>1
  <2> QED
    BY <2>1, <2>2
<1>11. \A i \in 1 .. n : sl[i] \in Stacks(W) /\ sl[i] = <<sl[i][1], sl[i][2]>>
  <2>1. \A i \in 1 .. n : sl[i] \in Stacks(W)
    BY <1>1, ElementOfSeq DEF n
  <2> QED
    BY <2>1 DEF Stacks
<1>12. list = [i \in 1 .. n |-> sl[i]]
  BY <1>8, <1>10, <1>11
<1>13. sl = [i \in 1 .. n |-> sl[i]]
  <2> DEFINE Y == Stacks(W)
  <2>1. sl \in Seq(Y)
    BY <1>1
  <2> HIDE DEF Y
  <2>2. sl \in [1 .. n -> Y]
    BY <2>1, LenProperties DEF n
  <2> QED
    BY <2>2
<1> HIDE DEF list
<1>14. FromUrl(u) = a
  BY <1>1, <1>2, <1>8, <1>9, <1>12, <1>13
<1> QED
  BY <1>5, <1>14 DEF u

-----------------------------------------------------------------------------
(* Best and Those.                                                         *)

\* The interfaces of the family of ip.
Family(A, ip) == {i \in A : Len(i) = Len(ip)}
Bests(V) == [out : Seq(V), lan : Seq(V), loopback : Seq(V)]
Nothing == [out |-> <<>>, lan |-> <<>>, loopback |-> <<>>]

LEMMA NextBestFacts ==
    ASSUME NEW A, NEW ip, NEW acc \in Bests(Family(A, ip)), NEW i \in A
    PROVE  /\ NextBest(acc, ip, i) \in Bests(Family(A, ip))
           /\ Nothing \in Bests(Family(A, ip))
<1> DEFINE V == Family(A, ip)
<1>1. Nothing \in Bests(V)
  BY DEF Nothing, Bests
<1>2. CASE ~SameFamily(ip, i)
  BY <1>1, <1>2 DEF NextBest
<1>3. CASE SameFamily(ip, i)
  <2>1. i \in V
    BY <1>3 DEF SameFamily, Family
  <2> HIDE DEF V
  <2>2. Append(acc.out, i) \in Seq(V) /\ <<i>> \in Seq(V)
    BY <2>1 DEF Bests, V
  <2>3. Better(acc, i) \in Bests(V)
    BY <2>1, <2>2 DEF Better, Bests, V
  <2> QED
    BY <1>1, <1>3, <2>3 DEF NextBest, V
<1> QED
  BY <1>2, <1>3

LEMMA AndIfFacts ==
    ASSUME NEW A, NEW T, NEW s \in Seq(A), NEW i \in A
    PROVE  AndIf(s, i, T) \in Seq(A)
BY DEF AndIf

\* How Best goes through the interfaces.
BestRun(f, A, ip, path) ==
    /\ Best(ip, path) = f[Len(path)] /\ f[0] = Nothing
    /\ \A n \in 0 .. Len(path) : f[n] \in Bests(Family(A, ip))
    /\ \A n \in 0 .. Len(path) - 1 : f[n + 1] = NextBest(f[n], ip, path[n + 1])

LEMMA BestRec ==
    ASSUME NEW A, NEW ip, NEW path \in Seq(A)
    PROVE  \E f : BestRun(f, A, ip, path)
<1> DEFINE m == Len(path)  X == Bests(Family(A, ip))
           step == [na \in Nat \X X |->
                       IF na[1] + 1 \in 1 .. m THEN NextBest(na[2], ip, path[na[1] + 1]) ELSE na[2]]
           F(g) == [n \in 0 .. m |-> IF n = 0 THEN Nothing ELSE NextBest(g[n - 1], ip, path[n])]
<1>1. m \in Nat /\ Nothing \in X
  BY DEF Nothing, Bests
<1>2. \A n \in 1 .. m : path[n] \in A
  BY ElementOfSeq
<1>3. step \in [Nat \X X -> X]
  <2> HIDE DEF X, m
  <2> SUFFICES ASSUME NEW n \in Nat, NEW a \in X
               PROVE  (IF n + 1 \in 1 .. m THEN NextBest(a, ip, path[n + 1]) ELSE a) \in X
    OBVIOUS
  <2> QED
    BY <1>2, NextBestFacts DEF X
<1>4. \A n \in 0 .. m - 1, a \in X : step[<<n, a>>] = NextBest(a, ip, path[n + 1])
  <2> HIDE DEF X, m
  <2> SUFFICES ASSUME NEW n \in 0 .. m - 1, NEW a \in X PROVE step[<<n, a>>] = NextBest(a, ip, path[n + 1])
    OBVIOUS
  <2>1. n \in Nat /\ n + 1 \in 1 .. m
    BY <1>1
  <2> QED
    BY <2>1
<1> HIDE DEF m, X, step
<1>5. PICK g : IsRec(g, m, X, Nothing, step)
  BY <1>1, <1>3, RecExists
<1>6. g \in [0 .. m -> X] /\ g[0] = Nothing /\ \A n \in 0 .. m - 1 : g[n + 1] = step[<<n, g[n]>>]
  BY <1>5 DEF IsRec
<1>7. g = F(g)
  <2>1. ASSUME NEW n \in 0 .. m PROVE g[n] = IF n = 0 THEN Nothing ELSE NextBest(g[n - 1], ip, path[n])
    <3>1. CASE n = 0
      BY <1>6, <3>1
    <3>2. CASE n # 0
      <4>1. n - 1 \in 0 .. m - 1 /\ n - 1 \in 0 .. m /\ (n - 1) + 1 = n
        BY <1>1, <3>2
      <4>2. g[n - 1] \in X
        BY <1>6, <4>1
      <4> QED
        BY <1>4, <1>6, <3>2, <4>1, <4>2
    <3> QED
      BY <3>1, <3>2
  <2> QED
    BY <1>6, <2>1
<1> DEFINE f == CHOOSE h : h = F(h)
<1>8. f = F(f)
  BY <1>7
<1>9. Best(ip, path) = f[m]
  BY DEF Best, m, Nothing
<1> HIDE DEF f
<1>10. f[0] = Nothing /\ \A n \in 0 .. m - 1 : f[n + 1] = NextBest(f[n], ip, path[n + 1])
  <2>1. \A n \in 0 .. m : f[n] = IF n = 0 THEN Nothing ELSE NextBest(f[n - 1], ip, path[n])
    BY <1>8
  <2>2. 0 \in 0 .. m /\ \A n \in 0 .. m - 1 : n + 1 \in 0 .. m /\ n + 1 # 0 /\ (n + 1) - 1 = n
    BY <1>1
  <2> QED
    BY <2>1, <2>2
<1>11. \A n \in 0 .. m : f[n] \in X
  <2> DEFINE S == {k \in 0 .. m : f[k] \in X}
  <2>1. 0 \in S
    BY <1>1, <1>10
  <2>2. ASSUME NEW k \in 0 .. m - 1, k \in S PROVE k + 1 \in S
    <3>1. k + 1 \in 1 .. m /\ k + 1 \in 0 .. m /\ f[k] \in X
      BY <1>1, <2>2
    <3>2. path[k + 1] \in A
      BY <1>2, <3>1 DEF m
    <3>3. f[k + 1] \in X
      BY <3>1, <3>2, <1>10, NextBestFacts DEF X
    <3> QED
      BY <3>1, <3>3
  <2> HIDE DEF S
  <2>3. 0 .. m \subseteq S
    BY <1>1, <2>1, <2>2, UpTo
  <2> QED
    BY <2>3 DEF S
<1> QED
  BY <1>9, <1>10, <1>11 DEF m, X, BestRun

LEMMA BestAppend ==
    ASSUME NEW A, NEW ip, NEW path \in Seq(A), NEW w \in A
    PROVE  /\ Best(ip, <<>>) = Nothing
           /\ Best(ip, path) \in Bests(Family(A, ip))
           /\ Best(ip, App(path, w)) = NextBest(Best(ip, path), ip, w)
<1> DEFINE m == Len(path)  q == Append(path, w)
<1>1. m \in Nat /\ q \in Seq(A) /\ Len(q) = m + 1 /\ q[m + 1] = w
      /\ \A n \in 1 .. m : q[n] = path[n]
  BY AppendAt
<1>2. PICK f : BestRun(f, A, ip, path)
  BY BestRec
<1>9. /\ Best(ip, path) = f[m] /\ f[0] = Nothing
      /\ \A n \in 0 .. m : f[n] \in Bests(Family(A, ip))
      /\ \A n \in 0 .. m - 1 : f[n + 1] = NextBest(f[n], ip, path[n + 1])
  BY <1>2 DEF BestRun
<1> HIDE DEF m, q
<1>3. PICK h : /\ Best(ip, q) = h[m + 1] /\ h[0] = Nothing
               /\ \A n \in 0 .. m : h[n + 1] = NextBest(h[n], ip, q[n + 1])
  <2>1. PICK h : BestRun(h, A, ip, q)
    BY <1>1, BestRec
  <2>2. Len(q) - 1 = m
    BY <1>1
  <2> QED
    BY <1>1, <2>1, <2>2 DEF BestRun
<1> DEFINE S == {k \in 0 .. m : f[k] = h[k]}
<1>4. 0 \in S
  <2>1. f[0] = h[0]
    BY <1>3, <1>9, Zenon
  <2> QED
    BY <1>1, <2>1
<1>5. ASSUME NEW k \in 0 .. m - 1, k \in S PROVE k + 1 \in S
  <2>1. k \in 0 .. m /\ k + 1 \in 0 .. m /\ k + 1 \in 1 .. m /\ f[k] = h[k]
    BY <1>1, <1>5
  <2>2. f[k + 1] = h[k + 1]
    BY <1>1, <1>3, <1>9, <2>1
  <2> QED
    BY <2>1, <2>2
<1> HIDE DEF S
<1>6. 0 .. m \subseteq S
  BY <1>1, <1>4, <1>5, UpTo
<1>7. f[m] = h[m] /\ m \in 0 .. m
  BY <1>1, <1>6 DEF S
<1>8. Best(ip, <<>>) = Nothing
  <2>1. <<>> \in Seq(A) /\ Len(<<>>) = 0
    OBVIOUS
  <2>2. PICK e : BestRun(e, A, ip, <<>>)
    BY <2>1, BestRec
  <2> QED
    BY <2>1, <2>2 DEF BestRun
<1> QED
  BY <1>1, <1>3, <1>7, <1>8, <1>9 DEF m, q, App

\* How Those does.
ThoseRun(f, A, T, path) ==
    /\ Those(path, T) = f[Len(path)] /\ f[0] = <<>>
    /\ \A n \in 0 .. Len(path) : f[n] \in Seq(A)
    /\ \A n \in 0 .. Len(path) - 1 : f[n + 1] = AndIf(f[n], path[n + 1], T)

LEMMA ThoseRec ==
    ASSUME NEW A, NEW T, NEW path \in Seq(A)
    PROVE  \E f : ThoseRun(f, A, T, path)
<1> DEFINE m == Len(path)  X == Seq(A)
           step == [na \in Nat \X X |->
                       IF na[1] + 1 \in 1 .. m THEN AndIf(na[2], path[na[1] + 1], T) ELSE na[2]]
           F(g) == [n \in 0 .. m |-> IF n = 0 THEN <<>> ELSE AndIf(g[n - 1], path[n], T)]
<1>1. m \in Nat /\ <<>> \in X
  BY EmptySeq
<1>2. \A n \in 1 .. m : path[n] \in A
  BY ElementOfSeq
<1>3. step \in [Nat \X X -> X]
  <2> HIDE DEF X, m
  <2> SUFFICES ASSUME NEW n \in Nat, NEW a \in X
               PROVE  (IF n + 1 \in 1 .. m THEN AndIf(a, path[n + 1], T) ELSE a) \in X
    OBVIOUS
  <2> QED
    BY <1>2, AndIfFacts DEF X
<1>4. \A n \in 0 .. m - 1, a \in X : step[<<n, a>>] = AndIf(a, path[n + 1], T)
  <2> HIDE DEF X, m
  <2> SUFFICES ASSUME NEW n \in 0 .. m - 1, NEW a \in X PROVE step[<<n, a>>] = AndIf(a, path[n + 1], T)
    OBVIOUS
  <2>1. n \in Nat /\ n + 1 \in 1 .. m
    BY <1>1
  <2> QED
    BY <2>1
<1> HIDE DEF m, X, step
<1>5. PICK g : IsRec(g, m, X, <<>>, step)
  BY <1>1, <1>3, RecExists
<1>6. g \in [0 .. m -> X] /\ g[0] = <<>> /\ \A n \in 0 .. m - 1 : g[n + 1] = step[<<n, g[n]>>]
  BY <1>5 DEF IsRec
<1>7. g = F(g)
  <2>1. ASSUME NEW n \in 0 .. m PROVE g[n] = IF n = 0 THEN <<>> ELSE AndIf(g[n - 1], path[n], T)
    <3>1. CASE n = 0
      BY <1>6, <3>1
    <3>2. CASE n # 0
      <4>1. n - 1 \in 0 .. m - 1 /\ n - 1 \in 0 .. m /\ (n - 1) + 1 = n
        BY <1>1, <3>2
      <4>2. g[n - 1] \in X
        BY <1>6, <4>1
      <4> QED
        BY <1>4, <1>6, <3>2, <4>1, <4>2
    <3> QED
      BY <3>1, <3>2
  <2> QED
    BY <1>6, <2>1
<1> DEFINE f == CHOOSE h : h = F(h)
<1>8. f = F(f)
  BY <1>7
<1>9. Those(path, T) = f[m]
  BY DEF Those, m
<1> HIDE DEF f
<1>10. f[0] = <<>> /\ \A n \in 0 .. m - 1 : f[n + 1] = AndIf(f[n], path[n + 1], T)
  <2>1. \A n \in 0 .. m : f[n] = IF n = 0 THEN <<>> ELSE AndIf(f[n - 1], path[n], T)
    BY <1>8
  <2>2. 0 \in 0 .. m /\ \A n \in 0 .. m - 1 : n + 1 \in 0 .. m /\ n + 1 # 0 /\ (n + 1) - 1 = n
    BY <1>1
  <2> QED
    BY <2>1, <2>2
<1>11. \A n \in 0 .. m : f[n] \in X
  <2> DEFINE S == {k \in 0 .. m : f[k] \in X}
  <2>1. 0 \in S
    BY <1>1, <1>10
  <2>2. ASSUME NEW k \in 0 .. m - 1, k \in S PROVE k + 1 \in S
    <3>1. k + 1 \in 1 .. m /\ k + 1 \in 0 .. m /\ f[k] \in X
      BY <1>1, <2>2
    <3>2. path[k + 1] \in A
      BY <1>2, <3>1 DEF m
    <3>3. f[k + 1] \in X
      BY <3>1, <3>2, <1>10, AndIfFacts DEF X
    <3> QED
      BY <3>1, <3>3
  <2> HIDE DEF S
  <2>3. 0 .. m \subseteq S
    BY <1>1, <2>1, <2>2, UpTo
  <2> QED
    BY <2>3 DEF S
<1> QED
  BY <1>9, <1>10, <1>11 DEF m, X, ThoseRun

LEMMA ThoseAppend ==
    ASSUME NEW A, NEW T, NEW path \in Seq(A), NEW w \in A
    PROVE  /\ Those(<<>>, T) = <<>>
           /\ Those(path, T) \in Seq(A)
           /\ Those(Append(path, w), T) = AndIf(Those(path, T), w, T)
<1> DEFINE m == Len(path)  q == Append(path, w)
<1>1. m \in Nat /\ q \in Seq(A) /\ Len(q) = m + 1 /\ q[m + 1] = w
      /\ \A n \in 1 .. m : q[n] = path[n]
  BY AppendAt
<1>2. PICK f : ThoseRun(f, A, T, path)
  BY ThoseRec
<1>9. /\ Those(path, T) = f[m] /\ f[0] = <<>>
      /\ \A n \in 0 .. m : f[n] \in Seq(A)
      /\ \A n \in 0 .. m - 1 : f[n + 1] = AndIf(f[n], path[n + 1], T)
  BY <1>2 DEF ThoseRun
<1> HIDE DEF m, q
<1>3. PICK h : /\ Those(q, T) = h[m + 1] /\ h[0] = <<>>
               /\ \A n \in 0 .. m : h[n + 1] = AndIf(h[n], q[n + 1], T)
  <2>1. PICK h : ThoseRun(h, A, T, q)
    BY <1>1, ThoseRec
  <2>2. Len(q) - 1 = m
    BY <1>1
  <2> QED
    BY <1>1, <2>1, <2>2 DEF ThoseRun
<1> DEFINE S == {k \in 0 .. m : f[k] = h[k]}
<1>4. 0 \in S
  <2>1. f[0] = h[0]
    BY <1>3, <1>9, Zenon
  <2> QED
    BY <1>1, <2>1
<1>5. ASSUME NEW k \in 0 .. m - 1, k \in S PROVE k + 1 \in S
  <2>1. k \in 0 .. m /\ k + 1 \in 0 .. m /\ k + 1 \in 1 .. m /\ f[k] = h[k]
    BY <1>1, <1>5
  <2>2. f[k + 1] = h[k + 1]
    BY <1>1, <1>3, <1>9, <2>1
  <2> QED
    BY <2>1, <2>2
<1> HIDE DEF S
<1>6. 0 .. m \subseteq S
  BY <1>1, <1>4, <1>5, UpTo
<1>7. f[m] = h[m] /\ m \in 0 .. m
  BY <1>1, <1>6 DEF S
<1>8. Those(<<>>, T) = <<>>
  <2>1. <<>> \in Seq(A) /\ Len(<<>>) = 0
    OBVIOUS
  <2>2. PICK e : ThoseRun(e, A, T, <<>>)
    BY <2>1, ThoseRec
  <2> QED
    BY <2>1, <2>2 DEF ThoseRun
<1> QED
  BY <1>1, <1>3, <1>7, <1>8, <1>9 DEF m, q

-----------------------------------------------------------------------------
(* What is published.                                                      *)

LEMMA InSeq ==
    ASSUME NEW A, NEW B, NEW s \in Seq(A), \A i \in 1 .. Len(s) : s[i] \in B
    PROVE  s \in Seq(B)
<1> DEFINE n == Len(s)
<1>1. n \in Nat /\ s \in [1 .. n -> A]
  BY LenProperties
<1>2. \A i \in 1 .. n : s[i] \in B
  OBVIOUS
<1> HIDE DEF n
<1>3. s \in [1 .. n -> B]
  BY <1>1, <1>2
<1> QED
  BY <1>1, <1>3

LEMMA InToSet ==
    ASSUME NEW A, NEW s \in Seq(A)
    PROVE  /\ s \in Seq(ToSet(s)) /\ ToSet(s) \subseteq A
           /\ \A x \in ToSet(s) : \E i \in 1 .. Len(s) : x = s[i]
           /\ \A i \in 1 .. Len(s) : s[i] \in ToSet(s)
<1>1. DOMAIN s = 1 .. Len(s)
  OBVIOUS
<1>2. \A i \in 1 .. Len(s) : s[i] \in ToSet(s)
  BY <1>1 DEF ToSet
<1>3. s \in Seq(ToSet(s))
  BY <1>2, InSeq
<1> QED
  BY <1>1, <1>2, <1>3 DEF ToSet

LEMMA FlatType ==
    ASSUME NEW W, NEW ss \in Seq(Seq(W))
    PROVE  FlattenSeq(ss) \in Seq(W)
<1>1. <<>> \in Seq(W)
  OBVIOUS
<1> QED
  BY <1>1, FlatAppend

LEMMA BestType ==
    ASSUME NEW A, NEW ip, NEW s \in Seq(A)
    PROVE  Best(ip, s) \in Bests(Family(A, ip))
<1>1. PICK f : BestRun(f, A, ip, s)
  BY BestRec
<1>2. Len(s) \in 0 .. Len(s)
  OBVIOUS
<1> QED
  BY <1>1, <1>2 DEF BestRun

LEMMA UpgradeIn ==
    ASSUME NEW A, NEW ip, NEW ifaces \in Seq(A)
    PROVE  UpgradeAddr(ip, ifaces) \in Seq(Accepts(ip, ifaces))
<1> DEFINE T == ToSet(ifaces)  V == Family(T, ip)  acc == Best(ip, ifaces)
<1>1. CASE ~Unspecified(ip)
  <2>1. UpgradeAddr(ip, ifaces) = <<ip>> /\ Accepts(ip, ifaces) = {ip}
    BY <1>1 DEF UpgradeAddr, Accepts
  <2>2. <<ip>> \in Seq({ip})
    OBVIOUS
  <2> QED
    BY <2>1, <2>2
<1>2. CASE Unspecified(ip)
  <2>1. ifaces \in Seq(T)
    BY InToSet
  <2>2. acc \in Bests(V)
    BY <2>1, BestType
  <2>3. V \subseteq Accepts(ip, ifaces)
    BY <1>2 DEF Accepts, Family
  <2> HIDE DEF V, acc
  <2>4. acc.out \in Seq(V) /\ acc.lan \in Seq(V) /\ acc.loopback \in Seq(V)
    BY <2>2 DEF Bests
  <2>5. UpgradeAddr(ip, ifaces) \in Seq(V)
    BY <1>2, <2>4 DEF UpgradeAddr, acc
  <2> QED
    BY <2>3, <2>5, SeqMonotonic
<1> QED
  BY <1>1, <1>2

\* The words that occur in addresses, and the urls they form.
Words == ({"-", "st", "rst"} \cup Ids \cup {IpWord(ip) : ip \in AllIps}
            \cup UNION {ToSet(u) : u \in NodeBinds \cup OtherUrls}) \ {"/"}
Urls == Seq(Words \cup {"/"})

LEMMA WordsFacts ==
    /\ "/" \notin Words /\ Ids \cup {"-"} \subseteq Words /\ "st" \in Words /\ "rst" \in Words
    /\ \A ip \in AllIps : IpWord(ip) \in Words
    /\ NodeBinds \cup OtherUrls \subseteq Urls
<1>1. /\ "/" \notin Words /\ Ids \cup {"-"} \subseteq Words /\ "st" \in Words /\ "rst" \in Words
  BY IdsAssumption DEF Words
<1>2. \A ip \in AllIps : IpWord(ip) \in Words
  BY TextAssumption DEF Words
<1>3. ASSUME NEW u \in NodeBinds \cup OtherUrls PROVE u \in Urls
  <2>1. u \in Seq(ToSet(u)) /\ ToSet(u) \subseteq Words \cup {"/"}
    BY TextAssumption DEF Words
  <2> QED
    BY <2>1, SeqMonotonic DEF Urls
<1> QED
  BY <1>1, <1>2, <1>3

LEMMA AllIpsFacts ==
    /\ RelayIfaces \cup NodeIfaces \cup RelayBinds \subseteq Seq(AllIps)
    /\ \A h \in DOMAIN Hosts : Hosts[h] \in Seq(AllIps)
    /\ AllIps \subseteq Ips
<1> DEFINE L == RelayIfaces \cup NodeIfaces \cup RelayBinds \cup {Hosts[h] : h \in DOMAIN Hosts}
<1>1. ASSUME NEW l \in L PROVE l \in Seq(AllIps) /\ ToSet(l) \subseteq Ips
  <2>1. l \in Seq(Ips)
    BY DiscoveryAssumption
  <2>2. l \in Seq(ToSet(l)) /\ ToSet(l) \subseteq Ips
    BY <2>1, InToSet
  <2>3. ToSet(l) \subseteq AllIps
    BY DEF AllIps
  <2> QED
    BY <2>2, <2>3, SeqMonotonic
<1> QED
  BY <1>1 DEF AllIps

LEMMA ResolveType == \A v : Resolve(v) \in Seq(AllIps)
<1> SUFFICES ASSUME NEW v PROVE Resolve(v) \in Seq(AllIps)
  OBVIOUS
<1>1. CASE v # <<>> /\ v[1] \in DOMAIN Hosts
  BY <1>1, AllIpsFacts DEF Resolve
<1>2. CASE ~(v # <<>> /\ v[1] \in DOMAIN Hosts)
  <2>1. CASE v \in DOMAIN IpOf
    <3>1. PICK ip \in AllIps : v = IpText(ip)
      BY <2>1 DEF IpOf
    <3>2. IpOf[v] \in AllIps
      BY <2>1, <3>1 DEF IpOf
    <3>3. <<IpOf[v]>> \in Seq(AllIps)
      BY <3>2
    <3> QED
      BY <1>2, <2>1, <3>3 DEF Resolve
  <2>2. CASE v \notin DOMAIN IpOf
    <3>1. Resolve(v) = <<>>
      BY <1>2, <2>2 DEF Resolve
    <3> QED
      BY <3>1
  <2> QED
    BY <2>1, <2>2
<1> QED
  BY <1>1, <1>2

LEMMA ResolveIp ==
    ASSUME NEW ip \in AllIps
    PROVE  IpText(ip) \in Seq(Words) /\ Resolve(IpText(ip)) = <<ip>>
<1> DEFINE t == IpText(ip)
<1>1. t \in Seq(Words) /\ t # <<>> /\ t[1] = IpWord(ip)
  BY WordsFacts DEF IpText
<1>2. t[1] \notin DOMAIN Hosts
  BY <1>1, TextAssumption
<1>3. \A a \in AllIps : IpText(a) = t => a = ip
  <2> SUFFICES ASSUME NEW a \in AllIps, IpText(a) = t PROVE a = ip
    OBVIOUS
  <2>1. IpText(a)[1] = IpWord(a)
    BY DEF IpText
  <2>2. IpWord(a) = IpWord(ip)
    BY <1>1, <2>1
  <2> QED
    BY <2>2, TextAssumption
<1> HIDE DEF t
<1>4. t \in DOMAIN IpOf /\ IpOf[t] = CHOOSE a \in AllIps : IpText(a) = t
  BY DEF IpOf, t
<1>5. IpOf[t] = ip
  BY <1>3, <1>4 DEF t
<1>6. Resolve(t) = <<ip>>
  BY <1>1, <1>2, <1>4, <1>5 DEF Resolve
<1> QED
  BY <1>1, <1>6 DEF t

\* The stacks of listeners at the addresses in S.
Heard(key, S) == {<<<<key>>, IpText(x)>> : x \in S}

LEMMA HeardStacks ==
    ASSUME NEW S, S \subseteq AllIps
    PROVE  Heard("st", S) \subseteq Stacks(Words) /\ Heard("rst", S) \subseteq Stacks(Words)
<1>1. \A x \in S : IpText(x) \in Seq(Words)
  BY ResolveIp
<1>2. <<"st">> \in Seq(Words) /\ <<"rst">> \in Seq(Words)
  BY WordsFacts
<1> DEFINE X == Seq(Words)  kst == <<"st">>  krst == <<"rst">>
<1>3. \A x \in S : IpText(x) \in X
  BY <1>1
<1>4. kst \in X /\ krst \in X
  BY <1>2
<1> HIDE DEF X, kst, krst
<1>5. \A x \in S : <<kst, IpText(x)>> \in X \X X /\ <<krst, IpText(x)>> \in X \X X
  BY <1>3, <1>4
<1> QED
  BY <1>5 DEF Heard, Stacks, X, kst, krst

AcceptsAll(ips, ifaces) == UNION {Accepts(ip, ifaces) : ip \in ToSet(ips)}

LEMMA AcceptsType ==
    ASSUME NEW ips \in Seq(AllIps), NEW ifaces \in Seq(AllIps)
    PROVE  AcceptsAll(ips, ifaces) \subseteq AllIps
<1>1. ToSet(ips) \subseteq AllIps /\ ToSet(ifaces) \subseteq AllIps
  BY InToSet
<1> QED
  BY <1>1 DEF AcceptsAll, Accepts

LEMMA PublishIn ==
    ASSUME NEW key, NEW ip, NEW ifaces \in Seq(AllIps)
    PROVE  Publish(key, ip, ifaces) \in Seq(Heard(key, Accepts(ip, ifaces)))
<1> DEFINE out == UpgradeAddr(ip, ifaces)  S == Accepts(ip, ifaces)  n == Len(out)  H == Heard(key, S)
<1>1. out \in Seq(S)
  BY UpgradeIn
<1>2. Publish(key, ip, ifaces) = [i \in DOMAIN out |-> <<<<key>>, IpText(out[i])>>]
  BY DEF Publish
<1> HIDE DEF out, S
<1>3. n \in Nat /\ DOMAIN out = 1 .. n /\ \A i \in 1 .. n : out[i] \in S
  BY <1>1
<1>4. \A i \in 1 .. n : <<<<key>>, IpText(out[i])>> \in H
  BY <1>3 DEF Heard
<1> HIDE DEF n, H
<1>5. [i \in 1 .. n |-> <<<<key>>, IpText(out[i])>>] \in Seq(H)
  BY <1>3, <1>4
<1> QED
  BY <1>2, <1>3, <1>5 DEF H, S

LEMMA PublishAllIn ==
    ASSUME NEW key, NEW ips \in Seq(AllIps), NEW ifaces \in Seq(AllIps)
    PROVE  PublishAll(key, ips, ifaces) \in Seq(Heard(key, AcceptsAll(ips, ifaces)))
<1> DEFINE H == Heard(key, AcceptsAll(ips, ifaces))  X == Seq(H)  n == Len(ips)
<1>1. n \in Nat /\ DOMAIN ips = 1 .. n
  OBVIOUS
<1>2. ASSUME NEW i \in 1 .. n PROVE Publish(key, ips[i], ifaces) \in X
  <2>1. Accepts(ips[i], ifaces) \subseteq AcceptsAll(ips, ifaces)
    BY InToSet DEF AcceptsAll
  <2>2. Heard(key, Accepts(ips[i], ifaces)) \subseteq H
    BY <2>1 DEF Heard
  <2>3. Publish(key, ips[i], ifaces) \in Seq(Heard(key, Accepts(ips[i], ifaces)))
    BY PublishIn
  <2> QED
    BY <2>2, <2>3, SeqMonotonic
<1> HIDE DEF n, X
<1>3. [i \in 1 .. n |-> Publish(key, ips[i], ifaces)] \in Seq(X)
  BY <1>1, <1>2
<1>4. FlattenSeq([i \in 1 .. n |-> Publish(key, ips[i], ifaces)]) \in X
  BY <1>3, FlatType DEF X
<1> QED
  BY <1>1, <1>4 DEF PublishAll, X

-----------------------------------------------------------------------------
(* The types of the variables, and what the two urls hold.                 *)

\* The kinds and addresses that the stacks of an address stand for.
Found(p) == UNION {{<<s[1], x>> : x \in ToSet(Resolve(s[2]))} : s \in ToSet(p.stack_list)}

Bound == [ips : Seq(AllIps), ifaces : Seq(AllIps), url : Urls, accepts : SUBSET AllIps]

RelayStacks == Heard("rst", relay.accepts)
NodeStacks == Heard("st", node.accepts) \cup Heard("rst", relay.accepts)

HostsInv ==
    /\ relay \in Bound /\ node \in Bound
    /\ relay = Unbound => node = Unbound
    /\ FromUrl(relay.url).stack_list \in Seq(RelayStacks)
    /\ FromUrl(node.url).stack_list \in Seq(NodeStacks)

DialInv ==
    /\ dial \in {"idle", "told", "dialling", "ok", "err"}
    /\ node = Unbound => dial = "idle"
    /\ text \in Urls
    /\ peer \in Addrs(Words)
    /\ stacks \in Seq(ToSet(peer.stack_list))
    /\ addrs \in Seq(Found(peer)) /\ tried \in Seq(Found(peer))
    /\ dial \in {"idle", "told"} => addrs = <<>> /\ tried = <<>>
    /\ dial \in {"idle", "told"} => peer = FromUrl(<<>>) /\ stacks = <<>>

LEMMA FromNothing == FromUrl(<<>>) = [id |-> None, stack_list |-> <<>>]
<1>1. Split(<<>>) = <<<<>>>>
  BY SplitEmpty
<1> DEFINE e == <<>>  q == <<e>>
<1>2. Split(<<>>) = q /\ e = <<>>
  BY <1>1
<1> HIDE DEF e
<1>3. Len(q) = 1 /\ q[1] = e /\ SubSeq(q, 1, 0) = <<>>
  <2>1. Len(q) = 1 /\ q[1] = e
    OBVIOUS
  <2>2. SubSeq(q, 1, 0) = <<>>
    BY SubSeqEmpty
  <2> QED
    BY <2>1, <2>2
<1> HIDE DEF q
<1>4. Last(q) = e /\ Front(q) = <<>>
  BY <1>3 DEF Last, Front
<1>5. SplitTerminator(<<>>) = <<>>
  BY <1>2, <1>4 DEF SplitTerminator
<1> QED
  BY <1>5 DEF FromUrl

LEMMA HostsInit == Init => HostsInv /\ DialInv
<1> SUFFICES ASSUME Init PROVE HostsInv /\ DialInv
  OBVIOUS
<1>1. \A W : <<>> \in Seq(W)
  OBVIOUS
<1>2. <<>> \in Urls
  BY <1>1 DEF Urls
<1>3. Unbound \in Bound /\ Unbound.url = <<>>
  BY <1>1, <1>2 DEF Unbound, Bound
<1>4. FromUrl(Unbound.url).stack_list = <<>>
  BY <1>3, FromNothing
<1>5. HostsInv
  BY <1>1, <1>3, <1>4 DEF Init, HostsInv
<1>6. FromUrl(<<>>) \in Addrs(Words)
  BY <1>1, FromUrlType
<1>7. DialInv
  BY <1>1, <1>2, <1>6 DEF Init, DialInv
<1> QED
  BY <1>5, <1>7

LEMMA RelayNewHosts ==
    ASSUME HostsInv, RelayNew
    PROVE  HostsInv'
<1>1. PICK ips \in RelayBinds, ifaces \in RelayIfaces :
          relay' = [ips |-> ips, ifaces |-> ifaces,
                    url |-> ToUrl([id |-> RelayId,
                                   stack_list |-> PublishAll("rst", ips, ifaces)]),
                    accepts |-> UNION {Accepts(ip, ifaces) : ip \in ToSet(ips)}]
  BY DEF RelayNew
<1> DEFINE sl == PublishAll("rst", ips, ifaces)  A == AcceptsAll(ips, ifaces)
           a == [id |-> RelayId, stack_list |-> sl]
<1>2. ips \in Seq(AllIps) /\ ifaces \in Seq(AllIps)
  BY AllIpsFacts
<1>3. sl \in Seq(Heard("rst", A)) /\ A \subseteq AllIps
  BY <1>2, PublishAllIn, AcceptsType
<1>4. a \in Addrs(Words)
  <2>1. sl \in Seq(Stacks(Words))
    BY <1>3, HeardStacks, SeqMonotonic
  <2> HIDE DEF sl
  <2> QED
    BY <2>1, DiscoveryAssumption DEF Addrs
<1>5. ToUrl(a) \in Urls /\ FromUrl(ToUrl(a)) = a
  BY <1>4, WordsFacts, AddrRoundTrip DEF Urls
<1> HIDE DEF sl, A
<1>6. relay' = [ips |-> ips, ifaces |-> ifaces, url |-> ToUrl(a), accepts |-> A]
  BY <1>1 DEF sl, A, AcceptsAll
<1> HIDE DEF a
<1>7. relay' \in Bound /\ relay'.url = ToUrl(a) /\ relay'.accepts = A
  BY <1>2, <1>3, <1>5, <1>6 DEF Bound
<1>8. FromUrl(relay'.url).stack_list \in Seq(Heard("rst", relay'.accepts))
  BY <1>3, <1>5, <1>7 DEF a
<1>9. node' = node /\ node = Unbound /\ node \in Bound
  BY DEF RelayNew, HostsInv
<1>10. FromUrl(node.url).stack_list = <<>>
  BY <1>9, FromNothing DEF Unbound
<1>11. <<>> \in Seq(Heard("st", node.accepts) \cup Heard("rst", relay'.accepts))
  OBVIOUS
<1> QED
  BY <1>7, <1>8, <1>9, <1>10, <1>11 DEF HostsInv, RelayStacks, NodeStacks

\* What one stack that can be bound adds to the url.
LEMMA BindStackIn ==
    ASSUME HostsInv, NEW u \in NodeBinds \cup {relay.url}, NEW b, b = FromUrl(u),
           NEW s \in ToSet(b.stack_list), Bindable(b, s), NEW ifaces \in Seq(AllIps)
    PROVE  BindStack(b, s, ifaces) \in Seq(Heard("st", Listens(s, ifaces)) \cup RelayStacks)
<1> DEFINE L == Listens(s, ifaces)
<1>1. CASE s[1] = <<"st">>
  <2>1. BindStack(b, s, ifaces) = PublishAll("st", Resolve(s[2]), ifaces)
    BY <1>1 DEF BindStack
  <2>2. ~IsRst(s)
    <3>1. <<"st">>[1] = "st" /\ <<"rst">>[1] = "rst"
      OBVIOUS
    <3>2. <<"st">> # <<"rst">>
      BY <3>1
    <3> QED
      BY <1>1, <3>2 DEF IsRst
  <2>3. L = AcceptsAll(Resolve(s[2]), ifaces)
    BY <2>2 DEF Listens, AcceptsAll
  <2>4. PublishAll("st", Resolve(s[2]), ifaces) \in Seq(Heard("st", L))
    BY <2>3, ResolveType, PublishAllIn
  <2> QED
    BY <2>1, <2>4, SeqMonotonic
<1>2. CASE s[1] # <<"st">>
  <2>1. BindStack(b, s, ifaces) = b.stack_list
    BY <1>2 DEF BindStack, RelayedStacks
  <2>2. s[1] = <<"rst">>
    BY <1>2 DEF Bindable, IsRst
  <2>3. u \notin NodeBinds
    BY <2>2, BindsAssumption
  <2>4. b.stack_list \in Seq(RelayStacks)
    BY <2>3 DEF HostsInv
  <2> QED
    BY <2>1, <2>4, SeqMonotonic
<1> QED
  BY <1>1, <1>2

LEMMA ListensType ==
    ASSUME NEW s, NEW ifaces \in Seq(AllIps)
    PROVE  Listens(s, ifaces) \subseteq AllIps
<1>1. AcceptsAll(Resolve(s[2]), ifaces) \subseteq AllIps
  BY ResolveType, AcceptsType
<1> QED
  BY <1>1 DEF Listens, AcceptsAll

LEMMA NodeNewHosts ==
    ASSUME HostsInv, NodeNew
    PROVE  HostsInv'
<1>1. PICK urls \in BoundedSeq(NodeBinds \cup {relay.url}, MaxBinds), ifaces \in NodeIfaces :
          LET binds == [i \in DOMAIN urls |-> FromUrl(urls[i])]
              all == UNION {{<<b, s>> : s \in ToSet(b.stack_list)} : b \in ToSet(binds)}
          IN  /\ \A bs \in all : Bindable(bs[1], bs[2])
              /\ node' = [ips |-> <<>>, ifaces |-> ifaces,
                          url |-> ToUrl([id |-> NodeId,
                                         stack_list |-> FlattenSeq(
                                             [i \in DOMAIN binds |-> BindAll(binds[i], ifaces)])]),
                          accepts |-> UNION {Listens(bs[2], ifaces) : bs \in all}]
  BY DEF NodeNew
<1> DEFINE U == NodeBinds \cup {relay.url}  n == Len(urls)
           binds == [i \in DOMAIN urls |-> FromUrl(urls[i])]
           all == UNION {{<<b, s>> : s \in ToSet(b.stack_list)} : b \in ToSet(binds)}
           A == UNION {Listens(bs[2], ifaces) : bs \in all}
           V == Heard("st", A) \cup RelayStacks  X == Seq(V)
           sl == FlattenSeq([i \in DOMAIN binds |-> BindAll(binds[i], ifaces)])
           a == [id |-> NodeId, stack_list |-> sl]
<1>2. /\ \A bs \in all : Bindable(bs[1], bs[2])
      /\ node' = [ips |-> <<>>, ifaces |-> ifaces, url |-> ToUrl(a), accepts |-> A]
  BY <1>1
<1>3. ifaces \in Seq(AllIps) /\ U \subseteq Urls
  BY AllIpsFacts, WordsFacts DEF HostsInv, Bound
<1>4. urls \in Seq(U) /\ n \in Nat /\ DOMAIN urls = 1 .. n /\ \A i \in 1 .. n : urls[i] \in U
  <2>1. urls \in Seq(U)
    BY DiscoveryAssumption DEF BoundedSeq, SeqOf
  <2> QED
    BY <2>1, LenProperties, ElementOfSeq
<1> HIDE DEF n
<1>5. DOMAIN binds = 1 .. n /\ \A i \in 1 .. n : binds[i] = FromUrl(urls[i]) /\ binds[i] \in ToSet(binds)
  BY <1>4 DEF ToSet
<1> HIDE DEF binds
<1>6. \A i \in 1 .. n : \A s \in ToSet(binds[i].stack_list) : <<binds[i], s>> \in all
  BY <1>5
<1> HIDE DEF all, sl, a
<1>7. \A i \in 1 .. n : \A s \in ToSet(binds[i].stack_list) :
         Bindable(binds[i], s) /\ Listens(s, ifaces) \subseteq A
  <2>1. \A bs \in all : Listens(bs[2], ifaces) \subseteq A
    OBVIOUS
  <2> HIDE DEF A
  <2> QED
    BY <1>2, <1>6, <2>1
<1>8. A \subseteq AllIps
  BY <1>3, ListensType
<1> HIDE DEF A, U
<1>9. ASSUME NEW i \in 1 .. n PROVE BindAll(binds[i], ifaces) \in X
  <2> DEFINE b == binds[i]  m == Len(b.stack_list)
  <2>1. b = FromUrl(urls[i]) /\ urls[i] \in U
    BY <1>4, <1>5
  <2>2. b.stack_list \in Seq(Stacks(Words))
    <3>1. b \in Addrs(Words)
      BY <1>3, <2>1, FromUrlType DEF Urls
    <3> QED
      BY <3>1 DEF Addrs
  <2> HIDE DEF b
  <2>3. m \in Nat /\ DOMAIN b.stack_list = 1 .. m /\ \A j \in 1 .. m : b.stack_list[j] \in ToSet(b.stack_list)
    BY <2>2, LenProperties, InToSet
  <2>4. ASSUME NEW j \in 1 .. m PROVE BindStack(b, b.stack_list[j], ifaces) \in X
    <3> DEFINE s == b.stack_list[j]
    <3>1. s \in ToSet(b.stack_list)
      BY <2>3
    <3>2. Bindable(b, s) /\ Listens(s, ifaces) \subseteq A
      BY <1>7, <3>1 DEF b
    <3>3. urls[i] \in NodeBinds \cup {relay.url}
      BY <2>1 DEF U
    <3> HIDE DEF s
    <3>4. BindStack(b, s, ifaces) \in Seq(Heard("st", Listens(s, ifaces)) \cup RelayStacks)
      BY <1>3, <2>1, <3>1, <3>2, <3>3, BindStackIn
    <3>5. Heard("st", Listens(s, ifaces)) \cup RelayStacks \subseteq V
      BY <3>2 DEF Heard
    <3> HIDE DEF V
    <3>6. BindStack(b, s, ifaces) \in Seq(V)
      BY <3>4, <3>5, SeqMonotonic
    <3> QED
      BY <3>6 DEF s
  <2> HIDE DEF m, X
  <2>5. [j \in 1 .. m |-> BindStack(b, b.stack_list[j], ifaces)] \in Seq(X)
    BY <2>3, <2>4
  <2>6. FlattenSeq([j \in 1 .. m |-> BindStack(b, b.stack_list[j], ifaces)]) \in X
    BY <2>5, FlatType DEF X
  <2>7. BindAll(b, ifaces) \in X
    BY <2>3, <2>6 DEF BindAll
  <2> QED
    BY <2>7 DEF b
<1>10. sl \in X
  <2> HIDE DEF X
  <2>1. [i \in 1 .. n |-> BindAll(binds[i], ifaces)] \in Seq(X)
    BY <1>4, <1>9
  <2>2. FlattenSeq([i \in 1 .. n |-> BindAll(binds[i], ifaces)]) \in X
    BY <2>1, FlatType DEF X
  <2> QED
    BY <1>5, <2>2 DEF sl
<1>11. V \subseteq Stacks(Words)
  <2>1. relay.accepts \subseteq AllIps
    BY DEF HostsInv, Bound
  <2> QED
    BY <1>8, <2>1, HeardStacks DEF RelayStacks
<1>12. a \in Addrs(Words)
  <2>1. sl \in Seq(Stacks(Words))
    BY <1>10, <1>11, SeqMonotonic
  <2> QED
    BY <2>1, DiscoveryAssumption DEF Addrs, a
<1>13. ToUrl(a) \in Urls /\ FromUrl(ToUrl(a)) = a
  BY <1>12, WordsFacts, AddrRoundTrip DEF Urls
<1>14. <<>> \in Seq(AllIps)
  OBVIOUS
<1> HIDE DEF V, X
<1>15. node' \in Bound /\ node'.url = ToUrl(a) /\ node'.accepts = A
  BY <1>2, <1>3, <1>8, <1>13, <1>14 DEF Bound
<1>16. FromUrl(node'.url).stack_list \in Seq(V)
  BY <1>10, <1>13, <1>15 DEF a, X
<1>17. relay' = relay /\ relay # Unbound
  BY DEF NodeNew
<1> QED
  BY <1>15, <1>16, <1>17 DEF HostsInv, RelayStacks, NodeStacks, V

LEMMA HandOnText ==
    ASSUME text \in Urls
    PROVE  /\ FromUrl(text) \in Addrs(Words)
           /\ ToUrl(FromUrl(text)) \in Urls
           /\ FromUrl(ToUrl(FromUrl(text))) = FromUrl(text)
<1>1. FromUrl(text) \in Addrs(Words)
  BY FromUrlType DEF Urls
<1> QED
  BY <1>1, WordsFacts, AddrRoundTrip DEF Urls

LEMMA HeadTail ==
    ASSUME NEW S, NEW s \in Seq(S), s # <<>>
    PROVE  Head(s) \in S /\ Tail(s) \in Seq(S)
OBVIOUS

LEMMA DialNext ==
    ASSUME HostsInv, DialInv, [Next]_vars
    PROVE  DialInv'
<1> USE DEF DialInv
<1> DEFINE P == FromUrl(<<>>)
<1>1. CASE RelayNew
  BY <1>1 DEF RelayNew
<1>2. CASE NodeNew
  BY <1>2 DEF NodeNew
<1>3. ASSUME NEW url \in OtherUrls \cup {node.url}, Learn(url) PROVE DialInv'
  <2>1. url \in Urls
    BY WordsFacts DEF HostsInv, Bound
  <2> HIDE DEF P
  <2> QED
    BY <1>3, <2>1 DEF Learn
<1>4. CASE HandOn
  <2>1. text' \in Urls
    BY <1>4, HandOnText DEF HandOn
  <2> QED
    BY <1>4, <2>1 DEF HandOn
<1>5. CASE Connect
  <2>1. peer' \in Addrs(Words) /\ stacks' = peer'.stack_list /\ dial' = "dialling"
    BY <1>5, HandOnText DEF Connect
  <2>2. stacks' \in Seq(ToSet(peer'.stack_list))
    BY <2>1, InToSet DEF Addrs
  <2>3. addrs' = <<>> /\ tried' = <<>> /\ text' = text /\ node' = node
    BY <1>5 DEF Connect
  <2>4. <<>> \in Seq(Found(peer'))
    OBVIOUS
  <2>5. node # Unbound
    BY <1>5 DEF Connect
  <2> QED
    BY <2>1, <2>2, <2>3, <2>4, <2>5
<1>6. CASE NextStack
  <2> DEFINE s == Head(stacks)  R == Resolve(s[2])  F == Found(peer)  n == Len(R)
  <2>1. s \in ToSet(peer.stack_list) /\ stacks' \in Seq(ToSet(peer.stack_list))
    BY <1>6, HeadTail DEF NextStack
  <2>2. addrs' = [i \in DOMAIN R |-> <<s[1], R[i]>>]
    BY <1>6 DEF NextStack
  <2> HIDE DEF s
  <2>3. R \in Seq(AllIps)
    BY ResolveType
  <2> HIDE DEF R
  <2>4. n \in Nat /\ DOMAIN R = 1 .. n /\ \A i \in 1 .. n : R[i] \in ToSet(R)
    <3>1. n \in Nat /\ DOMAIN R = 1 .. n
      BY <2>3, LenProperties
    <3>2. \A i \in 1 .. n : R[i] \in ToSet(R)
      BY <2>3, InToSet
    <3> QED
      BY <3>1, <3>2
  <2>5. \A i \in 1 .. n : <<s[1], R[i]>> \in F
    BY <2>1, <2>4 DEF Found, R
  <2> HIDE DEF n, F
  <2>6. addrs' \in Seq(F)
    BY <2>2, <2>4, <2>5
  <2>7. peer' = peer /\ tried' = tried /\ dial' = "dialling" /\ dial = "dialling"
        /\ text' = text /\ node' = node
    BY <1>6 DEF NextStack, Between
  <2> QED
    BY <2>1, <2>6, <2>7 DEF F
<1>7. CASE StackFails
  BY <1>7 DEF StackFails, Between
<1>8. CASE AddrFails \/ AddrConnects
  <2> DEFINE F == Found(peer)
  <2>1. addrs \in Seq(F) /\ addrs # <<>> /\ tried \in Seq(F) /\ dial = "dialling"
    BY <1>8 DEF AddrFails, AddrConnects
  <2> HIDE DEF F
  <2>2. Head(addrs) \in F /\ Tail(addrs) \in Seq(F)
    BY <2>1, HeadTail
  <2>3. Append(tried, Head(addrs)) \in Seq(F)
    BY <2>1, <2>2, AppendAt
  <2>4. /\ tried' = Append(tried, Head(addrs)) /\ addrs' \in {addrs, Tail(addrs)}
        /\ dial' \in {"dialling", "ok"}
        /\ peer' = peer /\ stacks' = stacks /\ text' = text /\ node' = node
    BY <1>8, <2>1 DEF AddrFails, AddrConnects, AfterFailure
  <2>5. tried' \in Seq(F) /\ addrs' \in Seq(F)
    BY <2>1, <2>2, <2>3, <2>4
  <2> QED
    BY <2>1, <2>4, <2>5 DEF F
<1>9. CASE UNCHANGED vars
  BY <1>9 DEF vars
<1> QED
  BY <1>1, <1>2, <1>3, <1>4, <1>5, <1>6, <1>7, <1>8, <1>9 DEF Next

LEMMA HostsNext ==
    ASSUME HostsInv, [Next]_vars
    PROVE  HostsInv'
<1>1. CASE UNCHANGED <<relay, node>>
  BY <1>1 DEF HostsInv, RelayStacks, NodeStacks
<1>2. [Next]_vars => RelayNew \/ NodeNew \/ UNCHANGED <<relay, node>>
  BY DEF Next, Learn, HandOn, Connect, NextStack, StackFails, AddrFails, AddrConnects, vars
<1> QED
  BY <1>1, <1>2, RelayNewHosts, NodeNewHosts

LEMMA HostsInvariant == Spec => [](HostsInv /\ DialInv)
<1>1. HostsInv /\ DialInv /\ [Next]_vars => (HostsInv /\ DialInv)'
  BY HostsNext, DialNext
<1> QED
  BY <1>1, HostsInit, PTL DEF Spec

-----------------------------------------------------------------------------
(* What is handed on, and what is tried.                                   *)

\* A url that is handed on, any number of times, parses to the same address:
\* whatever the urls, identifiers, keys and values (addr.rs, 145-276).
THEOREM DiscoveryHandedOn == Spec => HandedOn
<1>1. HostsInv /\ DialInv /\ [Next]_vars
         => [dial = "told" => FromUrl(text') = FromUrl(text)]_vars
  <2> SUFFICES ASSUME HostsInv, DialInv, [Next]_vars, dial = "told"
               PROVE  FromUrl(text') = FromUrl(text)
    OBVIOUS
  <2>1. CASE HandOn
    BY <2>1, HandOnText DEF HandOn, DialInv
  <2>2. CASE text' = text
    BY <2>2
  <2> QED
    BY <2>1, <2>2 DEF Next, RelayNew, NodeNew, Learn, Connect, NextStack, StackFails,
                      AddrFails, AddrConnects, vars
<1> QED
  BY <1>1, HostsInvariant, PTL DEF Spec, HandedOn

\* Whoever dials the url of a node tries only addresses at which the node, or
\* for rst its relay, listens (node.rs, 92-136, 260-265, 327-336).
THEOREM DiscoveryDialsListening == Spec => []DialsListening
<1>1. HostsInv /\ DialInv => DialsListening
  <2> SUFFICES ASSUME HostsInv, DialInv, peer = FromUrl(node.url), NEW i \in DOMAIN tried
               PROVE  tried[i][2] \in IF tried[i][1] = <<"st">> THEN node.accepts ELSE relay.accepts
    BY DEF DialsListening
  <2>1. tried[i] \in Found(peer)
    BY DEF DialInv
  <2>2. PICK s \in ToSet(peer.stack_list) : \E x \in ToSet(Resolve(s[2])) : tried[i] = <<s[1], x>>
    BY <2>1 DEF Found
  <2>8. PICK x \in ToSet(Resolve(s[2])) : tried[i] = <<s[1], x>>
    BY <2>2
  <2>3. s \in NodeStacks
    BY InToSet DEF HostsInv
  <2>4. PICK y \in AllIps : /\ s[2] = IpText(y)
                            /\ \/ s[1] = <<"st">> /\ y \in node.accepts
                               \/ s[1] = <<"rst">> /\ y \in relay.accepts
    <3>1. relay.accepts \subseteq AllIps /\ node.accepts \subseteq AllIps
      BY DEF HostsInv, Bound
    <3>2. CASE s \in Heard("st", node.accepts)
      BY <3>1, <3>2 DEF Heard
    <3>3. CASE s \in Heard("rst", relay.accepts)
      BY <3>1, <3>3 DEF Heard
    <3> QED
      BY <2>3, <3>2, <3>3 DEF NodeStacks
  <2>5. x = y
    <3>1. Resolve(s[2]) = <<y>>
      BY <2>4, ResolveIp
    <3> QED
      BY <3>1 DEF ToSet
  <2>6. <<"st">> # <<"rst">>
    <3>1. <<"st">>[1] = "st" /\ <<"rst">>[1] = "rst"
      OBVIOUS
    <3> QED
      BY <3>1
  <2>7. tried[i][1] = s[1] /\ tried[i][2] = y
    BY <2>8, <2>5
  <2> QED
    BY <2>4, <2>6, <2>7
<1> QED
  BY <1>1, HostsInvariant, PTL

-----------------------------------------------------------------------------
(* The order in which connect tries the addresses.                         *)

\* The addresses of one stack, and of the first k stacks of an address.
Addresses(s) == [j \in DOMAIN Resolve(s[2]) |-> <<s[1], Resolve(s[2])[j]>>]
Row(p, k) == [i \in 1 .. k |-> Addresses(p.stack_list[i])]
Reached(p, k) == FlattenSeq(Row(p, k))
Kinds == Seq(Words) \X AllIps

LEMMA AddressesType ==
    ASSUME NEW s \in Stacks(Words)
    PROVE  Addresses(s) \in Seq(Kinds)
<1> DEFINE R == Resolve(s[2])  n == Len(R)
<1>1. R \in Seq(AllIps)
  BY ResolveType
<1>2. s[1] \in Seq(Words)
  BY DEF Stacks
<1>3. Addresses(s) = [j \in DOMAIN R |-> <<s[1], R[j]>>]
  BY DEF Addresses
<1> HIDE DEF R
<1>4. n \in Nat /\ DOMAIN R = 1 .. n /\ \A j \in 1 .. n : R[j] \in AllIps
  BY <1>1, LenProperties, ElementOfSeq
<1>5. \A j \in 1 .. n : <<s[1], R[j]>> \in Kinds
  BY <1>2, <1>4 DEF Kinds
<1> HIDE DEF n
<1>6. [j \in 1 .. n |-> <<s[1], R[j]>>] \in Seq(Kinds)
  BY <1>4, <1>5
<1> QED
  BY <1>3, <1>4, <1>6

LEMMA ReachedFacts ==
    ASSUME NEW p \in Addrs(Words), NEW k \in 0 .. Len(p.stack_list)
    PROVE  /\ Reached(p, k) \in Seq(Kinds)
           /\ Reached(p, 0) = <<>>
           /\ k < Len(p.stack_list) =>
                 /\ Reached(p, k + 1) = Cat(Reached(p, k), Addresses(p.stack_list[k + 1]))
                 /\ Addresses(p.stack_list[k + 1]) \in Seq(Kinds)
<1> DEFINE L == p.stack_list  X == Seq(Kinds)
<1>1. L \in Seq(Stacks(Words)) /\ Len(L) \in Nat /\ k \in Nat
  <2>1. L \in Seq(Stacks(Words))
    BY DEF Addrs
  <2> QED
    BY <2>1, LenProperties
<1>2. \A i \in 1 .. Len(L) : Addresses(L[i]) \in X
  <2> SUFFICES ASSUME NEW i \in 1 .. Len(L) PROVE Addresses(L[i]) \in X
    OBVIOUS
  <2>1. L[i] \in Stacks(Words)
    BY <1>1, ElementOfSeq
  <2> QED
    BY <2>1, AddressesType
<1> HIDE DEF X, L
<1>3. \A m \in 0 .. Len(L) : Row(p, m) \in [1 .. m -> X] /\ \A i \in 1 .. m : Row(p, m)[i] = Addresses(L[i])
  BY <1>1, <1>2 DEF Row, L
<1>4. \A m \in 0 .. Len(L) : Row(p, m) \in Seq(X) /\ Len(Row(p, m)) = m
  <2> SUFFICES ASSUME NEW m \in 0 .. Len(L) PROVE Row(p, m) \in Seq(X) /\ Len(Row(p, m)) = m
    OBVIOUS
  <2> DEFINE w == Row(p, m)
  <2>1. w \in [1 .. m -> X] /\ m \in Nat
    BY <1>1, <1>3
  <2> HIDE DEF w
  <2>2. w \in Seq(X) /\ Len(w) = m
    BY <2>1
  <2> QED
    BY <2>2 DEF w
<1>5. k \in 0 .. Len(L)
  BY DEF L
<1>6. Reached(p, k) \in X
  BY <1>4, <1>5, FlatType DEF Reached, X
<1>7. Reached(p, 0) = <<>>
  <2>1. Row(p, 0) = <<>>
    <3>1. 0 \in 0 .. Len(L)
      BY <1>1
    <3>2. Row(p, 0) \in Seq(X) /\ Len(Row(p, 0)) = 0
      BY <1>4, <3>1
    <3> QED
      BY <3>2, EmptySeq
  <2> QED
    BY <2>1, FlatEmpty DEF Reached
<1>8. ASSUME k < Len(L) PROVE /\ Reached(p, k + 1) = Cat(Reached(p, k), Addresses(L[k + 1]))
                              /\ Addresses(L[k + 1]) \in X
  <2> DEFINE a == Addresses(L[k + 1])  w == Row(p, k)  v == Row(p, k + 1)  c == Append(w, a)
  <2>1. k + 1 \in 1 .. Len(L) /\ k + 1 \in 0 .. Len(L)
    BY <1>1, <1>8
  <2>2. a \in X
    BY <1>2, <2>1
  <2>3. /\ w \in Seq(X) /\ Len(w) = k /\ v \in Seq(X) /\ Len(v) = k + 1
        /\ \A i \in 1 .. k : w[i] = Addresses(L[i])
        /\ \A i \in 1 .. k + 1 : v[i] = Addresses(L[i])
    BY <1>3, <1>4, <1>5, <2>1
  <2>4. v[k + 1] = a
    BY <2>1, <2>3
  <2> HIDE DEF a, w, v
  <2>5. c \in Seq(X) /\ Len(c) = k + 1 /\ c[k + 1] = a /\ \A i \in 1 .. k : c[i] = w[i]
    BY <2>2, <2>3, AppendAt
  <2> HIDE DEF c
  <2>6. \A i \in 1 .. k + 1 : v[i] = c[i]
    BY <1>1, <2>3, <2>4, <2>5
  <2>7. v = c
    BY <2>3, <2>5, <2>6, SeqEqual
  <2>8. FlattenSeq(Append(w, a)) = FlattenSeq(w) \o a
    BY <2>2, <2>3, FlatAppend DEF X
  <2> QED
    BY <2>2, <2>7, <2>8 DEF Reached, Cat, a, w, v, c
<1> QED
  BY <1>6, <1>7, <1>8 DEF L, X

\* One sequence begins with the other.
Begins(s, t) == Len(s) <= Len(t) /\ \A i \in 1 .. Len(s) : t[i] = s[i]

LEMMA BeginsFacts ==
    ASSUME NEW S, NEW s \in Seq(S), NEW t \in Seq(S), Begins(s, t)
    PROVE  /\ IsPrefix(s, t)
           /\ \A u \in Seq(S) : Begins(s, Cat(t, u))
           /\ \A u \in Seq(S) : Begins(t, u) => Begins(s, u)
<1> DEFINE n == Len(s)
<1>1. n \in Nat /\ n <= Len(t) /\ Len(t) \in Nat /\ \A i \in 1 .. n : t[i] = s[i] /\ t[i] \in S /\ s[i] \in S
  BY DEF Begins
<1> HIDE DEF n
<1>2. SubSeq(s, 1, n) = SubSeq(t, 1, n)
  <2> DEFINE a == SubSeq(s, 1, n)  b == SubSeq(t, 1, n)
  <2>1. /\ a \in Seq(S) /\ Len(a) = n /\ \A i \in 1 .. n : a[i] = s[i]
        /\ b \in Seq(S) /\ Len(b) = n /\ \A i \in 1 .. n : b[i] = t[i]
    BY <1>1, SubSeqProperties
  <2> HIDE DEF a, b
  <2>2. \A i \in 1 .. n : a[i] = b[i]
    BY <1>1, <2>1
  <2>3. a = b
    BY <2>1, <2>2, SeqEqual
  <2> QED
    BY <2>3 DEF a, b
<1>3. IsPrefix(s, t)
  BY <1>1, <1>2 DEF IsPrefix, n
<1>4. ASSUME NEW u \in Seq(S) PROVE Begins(s, Cat(t, u))
  <2> DEFINE c == Cat(t, u)
  <2>1. Len(c) = Len(t) + Len(u) /\ \A i \in 1 .. Len(t) + Len(u) :
           c[i] = IF i <= Len(t) THEN t[i] ELSE u[i - Len(t)]
    BY ConcatProperties DEF Cat
  <2>2. Len(u) \in Nat
    OBVIOUS
  <2> HIDE DEF c
  <2>3. Len(s) <= Len(c) /\ \A i \in 1 .. Len(s) : c[i] = s[i]
    BY <1>1, <2>1, <2>2 DEF n
  <2> QED
    BY <2>3 DEF Begins, c
<1>5. ASSUME NEW u \in Seq(S), Begins(t, u) PROVE Begins(s, u)
  <2>1. Len(u) \in Nat
    OBVIOUS
  <2> QED
    BY <1>1, <1>5, <2>1 DEF Begins, n
<1> QED
  BY <1>3, <1>4, <1>5

LEMMA ReachedBegins ==
    ASSUME NEW p \in Addrs(Words), NEW k \in 0 .. Len(p.stack_list),
           NEW m \in k .. Len(p.stack_list)
    PROVE  Begins(Reached(p, k), Reached(p, m))
<1> DEFINE n == Len(p.stack_list)  S == {j \in 0 .. m - k : Begins(Reached(p, k), Reached(p, k + j))}
<1>1. n \in Nat /\ k \in Nat /\ m \in Nat /\ m - k \in Nat /\ m <= n
  <2>1. p.stack_list \in Seq(Stacks(Words))
    BY DEF Addrs
  <2>2. n \in Nat
    BY <2>1, LenProperties
  <2> QED
    BY <2>2
<1> HIDE DEF n
<1>2. 0 \in S
  <2>1. Reached(p, k) \in Seq(Kinds) /\ k + 0 = k
    BY <1>1, ReachedFacts
  <2>2. Begins(Reached(p, k), Reached(p, k))
    BY <2>1 DEF Begins
  <2> QED
    BY <1>1, <2>1, <2>2
<1>3. ASSUME NEW j \in 0 .. (m - k) - 1, j \in S PROVE j + 1 \in S
  <2> DEFINE i == k + j
  <2>1. i \in 0 .. n /\ i < n /\ k + (j + 1) = i + 1 /\ j + 1 \in 0 .. m - k
    BY <1>1
  <2>2. Begins(Reached(p, k), Reached(p, i))
    BY <1>3
  <2> HIDE DEF i
  <2>3. /\ Reached(p, i) \in Seq(Kinds) /\ Reached(p, k) \in Seq(Kinds)
        /\ Reached(p, i + 1) = Cat(Reached(p, i), Addresses(p.stack_list[i + 1]))
        /\ Addresses(p.stack_list[i + 1]) \in Seq(Kinds)
    BY <2>1, ReachedFacts DEF n
  <2>4. Begins(Reached(p, k), Reached(p, i + 1))
    BY <2>2, <2>3, BeginsFacts
  <2> QED
    BY <2>1, <2>4
<1> HIDE DEF S
<1>4. 0 .. m - k \subseteq S
  BY <1>1, <1>2, <1>3, UpTo
<1>5. m - k \in 0 .. m - k /\ k + (m - k) = m
  BY <1>1
<1> QED
  BY <1>4, <1>5 DEF S

\* All of the first k stacks can be dialled, and no more.
AllDialable(p, k) == \A i \in 1 .. k : Dialable(p, p.stack_list[i])
Ends(p, k) == k = Len(p.stack_list) \/ ~Dialable(p, p.stack_list[k + 1])

LEMMA TargetsEnd ==
    ASSUME NEW p \in Addrs(Words)
    PROVE  \E m \in 0 .. Len(p.stack_list) :
              Targets(p) = Reached(p, m) /\ AllDialable(p, m) /\ Ends(p, m)
<1> DEFINE L == p.stack_list  n == Len(L)  stop == {i \in DOMAIN L : ~Dialable(p, L[i])}
           m == IF stop = {} THEN n ELSE (CHOOSE i \in stop : \A j \in stop : i <= j) - 1
<1>1. n \in Nat /\ DOMAIN L = 1 .. n
  <2>1. L \in Seq(Stacks(Words))
    BY DEF Addrs
  <2> QED
    BY <2>1, LenProperties
<1>2. Targets(p) = Reached(p, m)
  BY DEF Targets, Reached, Row, Addresses
<1> HIDE DEF L, n
<1>3. CASE stop = {}
  <2>1. m = n
    BY <1>3
  <2>2. \A i \in 1 .. n : Dialable(p, L[i])
    BY <1>1, <1>3
  <2> QED
    BY <1>1, <1>2, <2>1, <2>2 DEF AllDialable, Ends, L, n
<1>4. CASE stop # {}
  <2> DEFINE c == CHOOSE i \in stop : \A j \in stop : i <= j
  <2>1. stop \in SUBSET Nat
    BY <1>1
  <2>2. \E i \in stop : \A j \in stop : i <= j
    <3>1. PICK i \in stop : TRUE
      BY <1>4
    <3> HIDE DEF stop
    <3> QED
      BY <2>1, <3>1, LeastNumber
  <2>3. c \in stop /\ \A j \in stop : c <= j
    BY <2>2
  <2>4. m = c - 1
    BY <1>4
  <2> HIDE DEF c, m
  <2>5. c \in 1 .. n /\ ~Dialable(p, L[c])
    BY <1>1, <2>3
  <2>6. \A i \in 1 .. c - 1 : Dialable(p, L[i])
    <3> SUFFICES ASSUME NEW i \in 1 .. c - 1, ~Dialable(p, L[i]) PROVE FALSE
      OBVIOUS
    <3>1. i \in stop /\ i < c
      BY <1>1, <2>5
    <3> HIDE DEF stop
    <3> QED
      BY <2>1, <2>3, <3>1
  <2>7. m \in 0 .. n /\ m + 1 = c
    BY <1>1, <2>4, <2>5
  <2> QED
    BY <1>2, <2>4, <2>5, <2>6, <2>7 DEF AllDialable, Ends, L, n
<1> QED
  BY <1>3, <1>4

\* What has been reached is where the targets begin, and all of them at the end.
LEMMA TargetsReached ==
    ASSUME NEW p \in Addrs(Words), NEW k \in 0 .. Len(p.stack_list), AllDialable(p, k)
    PROVE  /\ Targets(p) \in Seq(Kinds)
           /\ Begins(Reached(p, k), Targets(p))
           /\ Ends(p, k) => Targets(p) = Reached(p, k)
<1> DEFINE n == Len(p.stack_list)
<1>1. PICK m \in 0 .. n : Targets(p) = Reached(p, m) /\ AllDialable(p, m) /\ Ends(p, m)
  BY TargetsEnd
<1>2. n \in Nat
  <2>1. p.stack_list \in Seq(Stacks(Words))
    BY DEF Addrs
  <2> QED
    BY <2>1, LenProperties
<1> HIDE DEF n
<1>3. k \in 0 .. n
  BY DEF n
<1>4. \A i, j \in 0 .. n : AllDialable(p, i) /\ Ends(p, j) => i <= j
  <2> SUFFICES ASSUME NEW i \in 0 .. n, NEW j \in 0 .. n, AllDialable(p, i), Ends(p, j), i > j
               PROVE  FALSE
    BY <1>2
  <2>1. j + 1 \in 1 .. i /\ j # n
    BY <1>2
  <2>2. Dialable(p, p.stack_list[j + 1])
    BY <2>1 DEF AllDialable
  <2> QED
    BY <2>1, <2>2 DEF Ends, n
<1>5. k <= m /\ (Ends(p, k) => k = m)
  BY <1>1, <1>2, <1>3, <1>4
<1>6. m \in k .. n
  BY <1>2, <1>3, <1>5
<1> QED
  BY <1>1, <1>5, <1>6, ReachedBegins, ReachedFacts DEF n

\* The first k stacks have been looked at, all could be dialled, and what was
\* tried and what is left of the present stack are their addresses.
OrderAt(k) ==
    /\ stacks = SubSeq(peer.stack_list, k + 1, Len(peer.stack_list))
    /\ AllDialable(peer, k)
    /\ dial # "ok" => Cat(tried, addrs) = Reached(peer, k)
    /\ dial = "ok" => tried # <<>> /\ addrs # <<>> /\ Cat(tried, Tail(addrs)) = Reached(peer, k)
    /\ dial = "err" => addrs = <<>> /\ Ends(peer, k)
OrderInv == \E k \in 0 .. Len(peer.stack_list) : OrderAt(k)

LEMMA FoundKinds ==
    ASSUME NEW p \in Addrs(Words)
    PROVE  Found(p) \subseteq Kinds
<1>1. ToSet(p.stack_list) \subseteq Stacks(Words)
  <2>1. p.stack_list \in Seq(Stacks(Words))
    BY DEF Addrs
  <2> QED
    BY <2>1, InToSet
<1>2. \A s \in ToSet(p.stack_list) : s[1] \in Seq(Words)
  BY <1>1 DEF Stacks
<1>3. \A v : ToSet(Resolve(v)) \subseteq AllIps
  BY ResolveType, InToSet
<1> QED
  BY <1>2, <1>3 DEF Found, Kinds

LEMMA OrderTypes ==
    ASSUME DialInv
    PROVE  /\ tried \in Seq(Kinds) /\ addrs \in Seq(Kinds)
           /\ peer.stack_list \in Seq(Stacks(Words)) /\ Len(peer.stack_list) \in Nat
<1>1. Found(peer) \subseteq Kinds
  BY FoundKinds DEF DialInv
<1>2. tried \in Seq(Found(peer)) /\ addrs \in Seq(Found(peer))
  BY DEF DialInv
<1>3. tried \in Seq(Kinds) /\ addrs \in Seq(Kinds)
  BY <1>1, <1>2, SeqMonotonic
<1>4. peer.stack_list \in Seq(Stacks(Words))
  BY DEF DialInv, Addrs
<1> QED
  BY <1>3, <1>4, LenProperties

\* A dialler that has looked at nothing.
LEMMA OrderStart ==
    ASSUME NEW p \in Addrs(Words)
    PROVE  /\ 0 \in 0 .. Len(p.stack_list)
           /\ SubSeq(p.stack_list, 0 + 1, Len(p.stack_list)) = p.stack_list
           /\ AllDialable(p, 0) /\ Cat(<<>>, <<>>) = Reached(p, 0)
<1> DEFINE L == p.stack_list
<1>1. L \in Seq(Stacks(Words))
  BY DEF Addrs
<1>2. Len(L) \in Nat
  BY <1>1, LenProperties
<1> HIDE DEF L
<1>3. SubSeq(L, 0 + 1, Len(L)) = L
  BY <1>1, SubSeqFull
<1>4. 0 \in 0 .. Len(L)
  BY <1>2
<1>5. Reached(p, 0) = <<>>
  BY <1>4, ReachedFacts DEF L
<1>6. Cat(<<>>, <<>>) = <<>>
  <2>1. <<>> \in Seq({})
    OBVIOUS
  <2>2. <<>> \o <<>> = <<>>
    BY <2>1, ConcatEmptySeq
  <2> QED
    BY <2>2 DEF Cat
<1> QED
  BY <1>3, <1>4, <1>5, <1>6 DEF AllDialable, L

LEMMA OrderInit == Init => OrderInv
<1> SUFFICES ASSUME Init PROVE OrderInv
  OBVIOUS
<1>1. peer = FromUrl(<<>>) /\ stacks = <<>>
  BY DEF Init
<1>2. peer \in Addrs(Words) /\ stacks = peer.stack_list
  <2>1. <<>> \in Seq(Words \cup {"/"})
    OBVIOUS
  <2>2. peer \in Addrs(Words)
    BY <1>1, <2>1, FromUrlType, WordsFacts
  <2> QED
    BY <1>1, <2>2, FromNothing
<1>3. tried = <<>> /\ addrs = <<>> /\ dial = "idle"
  BY DEF Init
<1>4. OrderAt(0)
  BY <1>2, <1>3, OrderStart DEF OrderAt
<1> QED
  BY <1>2, <1>4, OrderStart DEF OrderInv

LEMMA OrderNext ==
    ASSUME DialInv, DialInv', OrderInv, [Next]_vars
    PROVE  OrderInv'
<1> DEFINE L == peer.stack_list  n == Len(L)
<1>1. PICK k \in 0 .. n : OrderAt(k)
  BY DEF OrderInv
<1>2. n \in Nat /\ k \in Nat /\ L \in Seq(Stacks(Words))
  BY OrderTypes
<1>3. CASE UNCHANGED <<dial, peer, stacks, addrs, tried>>
  <2>1. OrderAt(k)'
    BY <1>1, <1>3 DEF OrderAt, AllDialable, Dialable, Resolves, Ends, Reached, Row, Addresses
  <2> QED
    BY <1>3, <2>1 DEF OrderInv
<1>4. ASSUME NEW url, Learn(url) PROVE OrderInv'
  <2>1. dial = "idle" /\ dial' = "told" /\ UNCHANGED <<peer, stacks, addrs, tried>>
    BY <1>4 DEF Learn
  <2>2. OrderAt(k)'
    BY <1>1, <2>1 DEF OrderAt
  <2> QED
    BY <2>1, <2>2 DEF OrderInv
<1>5. CASE Connect
  <2>1. peer' \in Addrs(Words) /\ stacks' = peer'.stack_list /\ dial' = "dialling"
    BY <1>5 DEF Connect, DialInv
  <2>2. tried' = <<>> /\ addrs' = <<>>
    BY <1>5 DEF Connect, DialInv
  <2>3. OrderAt(0)'
    BY <2>1, <2>2, OrderStart DEF OrderAt
  <2> QED
    BY <2>1, <2>3, OrderStart DEF OrderInv
<1>6. CASE NextStack
  <2> DEFINE s == Head(stacks)
  <2>1. /\ dial = "dialling" /\ dial' = "dialling" /\ addrs = <<>> /\ stacks # <<>>
        /\ Dialable(peer, s) /\ addrs' = Addresses(s) /\ stacks' = Tail(stacks)
        /\ peer' = peer /\ tried' = tried
    BY <1>6 DEF NextStack, Between, Addresses
  <2>2. stacks = SubSeq(L, k + 1, n) /\ AllDialable(peer, k) /\ Cat(tried, addrs) = Reached(peer, k)
    BY <1>1, <2>1 DEF OrderAt
  <2>3. k < n
    <3>1. SUFFICES ASSUME k = n PROVE FALSE
      BY <1>2
    <3>2. SubSeq(L, k + 1, n) = <<>>
      BY <1>2, <3>1, SubSeqEmpty
    <3> QED
      BY <2>1, <2>2, <3>2
  <2>4. k + 1 \in 1 .. n /\ n \in k + 1 .. n /\ k + 1 \in 0 .. n
    BY <1>2, <2>3
  <2> HIDE DEF L, n
  <2>5. s = L[k + 1] /\ Tail(stacks) = SubSeq(L, (k + 1) + 1, n)
    <3>1. n = Len(L)
      BY DEF n
    <3> QED
      BY <1>2, <2>2, <2>4, <3>1, HeadTailOfSubSeq
  <2> HIDE DEF s
  <2>6. AllDialable(peer, k + 1)
    <3>1. \A i \in 1 .. k + 1 : i = k + 1 \/ i \in 1 .. k
      BY <1>2
    <3> QED
      BY <2>1, <2>2, <2>5, <3>1 DEF AllDialable, L
  <2>7. Cat(tried, Addresses(s)) = Reached(peer, k + 1)
    <3>1. tried = Reached(peer, k)
      <4>1. tried \o <<>> = tried
        BY OrderTypes, ConcatEmptySeq
      <4> QED
        BY <2>1, <2>2, <4>1 DEF Cat
    <3>2. peer \in Addrs(Words)
      BY DEF DialInv
    <3> QED
      BY <2>3, <2>5, <3>1, <3>2, ReachedFacts DEF L, n
  <2>8. OrderAt(k + 1)'
    <3>1. peer' = peer /\ stacks' = SubSeq(L, (k + 1) + 1, n) /\ addrs' = Addresses(s)
          /\ tried' = tried /\ dial' = "dialling"
      BY <2>1, <2>5
    <3> QED
      BY <2>6, <2>7, <3>1 DEF OrderAt, L, n
  <2> QED
    BY <2>1, <2>4, <2>8 DEF OrderInv, L, n
<1>7. CASE StackFails
  <2>1. /\ dial = "dialling" /\ dial' = "err" /\ addrs = <<>>
        /\ (stacks # <<>> => ~Dialable(peer, Head(stacks)))
        /\ UNCHANGED <<peer, stacks, addrs, tried>>
    BY <1>7 DEF StackFails, Between
  <2>2. Ends(peer, k)
    <3>1. SUFFICES ASSUME k # n PROVE ~Dialable(peer, L[k + 1])
      BY DEF Ends
    <3>2. k + 1 \in 1 .. n /\ n \in k + 1 .. n
      BY <1>2, <3>1
    <3>3. stacks = SubSeq(L, k + 1, n)
      BY <1>1 DEF OrderAt
    <3> HIDE DEF L
    <3>4. Head(stacks) = L[k + 1] /\ stacks # <<>>
      <4>1. Head(stacks) = L[k + 1]
        BY <1>2, <3>2, <3>3, HeadTailOfSubSeq
      <4>2. \A i \in k + 1 .. n : L[i] \in Stacks(Words)
        BY <1>2, ElementOfSeq
      <4>3. Len(stacks) = n - (k + 1) + 1
        BY <1>2, <3>2, <3>3, <4>2, SubSeqProperties
      <4>4. Len(stacks) # 0
        BY <1>2, <3>2, <4>3
      <4> QED
        BY <4>1, <4>4, EmptySeq
    <3> QED
      BY <2>1, <3>4
  <2>3. OrderAt(k)'
    BY <1>1, <2>1, <2>2 DEF OrderAt
  <2> QED
    BY <2>1, <2>3 DEF OrderInv
<1>8. CASE AddrFails \/ AddrConnects
  <2> DEFINE h == Head(addrs)  t == Tail(addrs)
  <2>1. /\ dial = "dialling" /\ addrs # <<>> /\ tried' = Append(tried, h)
        /\ peer' = peer /\ stacks' = stacks
        /\ \/ dial' = "dialling" /\ addrs' = t
           \/ dial' = "ok" /\ addrs' = addrs
    BY <1>8 DEF AddrFails, AddrConnects, AfterFailure
  <2>2. tried \in Seq(Kinds) /\ addrs \in Seq(Kinds)
    BY OrderTypes
  <2>3. h \in Kinds /\ t \in Seq(Kinds)
    BY <2>1, <2>2, HeadTail
  <2>4. Cat(Append(tried, h), t) = Cat(tried, addrs)
    <3> DEFINE a == <<h>>
    <3>1. a \in Seq(Kinds) /\ addrs = a \o t
      BY <2>1, <2>2, <2>3
    <3>2. Append(tried, h) = tried \o a
      BY <2>2, <2>3, ConcatOne
    <3> HIDE DEF a
    <3>3. (tried \o a) \o t = tried \o (a \o t)
      BY <2>2, <2>3, <3>1, ConcatAssociative
    <3> HIDE DEF h, t
    <3> QED
      BY <3>1, <3>2, <3>3, Zenon DEF Cat
  <2>5. Cat(tried, addrs) = Reached(peer, k)
    BY <1>1, <2>1 DEF OrderAt
  <2>6. Append(tried, h) # <<>>
    BY <2>2, <2>3, AppendAt
  <2> HIDE DEF h
  <2>7. OrderAt(k)'
    <3>1. CASE dial' = "dialling" /\ addrs' = t
      BY <1>1, <2>1, <2>4, <2>5, <3>1 DEF OrderAt
    <3>2. CASE dial' = "ok" /\ addrs' = addrs
      BY <1>1, <2>1, <2>4, <2>5, <2>6, <3>2 DEF OrderAt
    <3> QED
      BY <2>1, <3>1, <3>2
  <2> QED
    BY <2>1, <2>7 DEF OrderInv
<1> QED
  BY <1>3, <1>4, <1>5, <1>6, <1>7, <1>8 DEF Next, RelayNew, NodeNew, HandOn, vars

\* connect tries the addresses in the order of the stacks, and when it fails
\* it has tried them all, down to the first stack that cannot be dialled:
\* whatever the url and the names (node.rs, 171-220).
THEOREM DiscoveryDialOrder == Spec => []DialOrder
<1>1. DialInv /\ OrderInv => DialOrder
  <2> SUFFICES ASSUME DialInv, OrderInv PROVE DialOrder
    OBVIOUS
  <2> DEFINE n == Len(peer.stack_list)  T == Targets(peer)
  <2>1. PICK k \in 0 .. n : OrderAt(k)
    BY DEF OrderInv
  <2>2. peer \in Addrs(Words)
    BY DEF DialInv
  <2>3. /\ T \in Seq(Kinds) /\ Begins(Reached(peer, k), T) /\ Reached(peer, k) \in Seq(Kinds)
        /\ Ends(peer, k) => T = Reached(peer, k)
    BY <2>1, <2>2, TargetsReached, ReachedFacts DEF OrderAt
  <2>4. tried \in Seq(Kinds) /\ addrs \in Seq(Kinds) /\ (addrs # <<>> => Tail(addrs) \in Seq(Kinds))
    BY OrderTypes, HeadTail
  <2> HIDE DEF T
  <2>5. Begins(tried, Reached(peer, k))
    <3>1. Begins(tried, tried)
      BY <2>4 DEF Begins
    <3>2. CASE dial # "ok"
      BY <2>1, <2>4, <3>1, <3>2, BeginsFacts DEF OrderAt
    <3>3. CASE dial = "ok"
      BY <2>1, <2>4, <3>1, <3>3, BeginsFacts DEF OrderAt
    <3> QED
      BY <3>2, <3>3
  <2>6. Begins(tried, T)
    BY <2>3, <2>4, <2>5, BeginsFacts
  <2>7. IsPrefix(tried, T)
    BY <2>3, <2>4, <2>6, BeginsFacts
  <2>8. ASSUME dial = "err" PROVE tried = T
    <3>1. addrs = <<>> /\ Cat(tried, addrs) = T
      BY <2>1, <2>3, <2>8 DEF OrderAt
    <3>2. tried \o <<>> = tried
      BY <2>4, ConcatEmptySeq
    <3> QED
      BY <3>1, <3>2 DEF Cat
  <2>9. dial = "ok" => tried # <<>>
    BY <2>1 DEF OrderAt
  <2> QED
    BY <2>7, <2>8, <2>9 DEF DialOrder, T
<1>2. DialInv /\ DialInv' /\ OrderInv /\ [Next]_vars => OrderInv'
  BY OrderNext
<1> QED
  BY <1>1, <1>2, OrderInit, HostsInvariant, PTL DEF Spec

\* What is left of a sequence is a suffix of it.
LEMMA RestIsSuffix ==
    ASSUME NEW S, NEW t \in Seq(S), NEW k \in 0 .. Len(t)
    PROVE  IsSuffix(SubSeq(t, k + 1, Len(t)), t)
<1> DEFINE n == Len(t)  s == SubSeq(t, k + 1, n)  a == Reverse(s)  b == Reverse(t)
<1>1. n \in Nat /\ k \in Nat /\ k <= n /\ \A i \in 1 .. n : t[i] \in S
  BY LenProperties, ElementOfSeq
<1>2. Len(s) = n - k /\ \A i \in 1 .. n - k : s[i] = t[k + i] /\ s[i] \in S
  <2> HIDE DEF n
  <2>1. \A i \in k + 1 .. n : t[i] \in S
    BY <1>1
  <2>2. /\ Len(s) = IF k + 1 <= n THEN n - (k + 1) + 1 ELSE 0
        /\ \A i \in 1 .. n - (k + 1) + 1 : s[i] = t[k + 1 + i - 1]
    BY <1>1, <2>1, SubSeqProperties
  <2>3. \A i \in 1 .. n - k : i \in 1 .. n - (k + 1) + 1 /\ k + 1 + i - 1 = k + i /\ k + i \in 1 .. n
    BY <1>1
  <2> HIDE DEF s
  <2> QED
    BY <1>1, <2>2, <2>3
<1> HIDE DEF n, s
<1>3. a \in Seq(S) /\ Len(a) = n - k /\ \A i \in 1 .. n - k : a[i] = t[n - i + 1]
  <2>1. a = [i \in 1 .. n - k |-> s[(n - k - i) + 1]]
    BY <1>2 DEF Reverse
  <2>2. \A i \in 1 .. n - k : s[(n - k - i) + 1] = t[n - i + 1] /\ s[(n - k - i) + 1] \in S
    <3>1. \A i \in 1 .. n - k : (n - k - i) + 1 \in 1 .. n - k /\ k + ((n - k - i) + 1) = n - i + 1
      BY <1>1
    <3> QED
      BY <1>2, <3>1
  <2> HIDE DEF a
  <2>3. n - k \in Nat
    BY <1>1
  <2> QED
    BY <2>1, <2>2, <2>3
<1>4. b \in Seq(S) /\ Len(b) = n /\ \A i \in 1 .. n : b[i] = t[n - i + 1]
  <2>1. b = [i \in 1 .. n |-> t[(n - i) + 1]]
    BY DEF Reverse, n
  <2>2. \A i \in 1 .. n : t[(n - i) + 1] \in S
    <3>1. \A i \in 1 .. n : (n - i) + 1 \in 1 .. n
      BY <1>1
    <3> QED
      BY <1>1, <3>1
  <2> HIDE DEF b
  <2> QED
    BY <1>1, <2>1, <2>2
<1> HIDE DEF a, b
<1>5. Begins(a, b)
  <2>1. n - k <= n /\ \A i \in 1 .. n - k : i \in 1 .. n
    BY <1>1
  <2> QED
    BY <1>3, <1>4, <2>1 DEF Begins
<1>6. IsPrefix(a, b)
  BY <1>3, <1>4, <1>5, BeginsFacts
<1> QED
  BY <1>6 DEF IsSuffix, a, b, s, n

\* Every variable keeps to its type: the stacks that are left are the last
\* ones of the address, and connect fails with nothing left of the present
\* stack (node.rs, 171-220).
THEOREM DiscoveryTypeOK == Spec => []TypeOK
<1>1. HostsInv /\ DialInv /\ OrderInv => TypeOK
  <2> SUFFICES ASSUME HostsInv, DialInv, OrderInv PROVE TypeOK
    OBVIOUS
  <2>1. PICK k \in 0 .. Len(peer.stack_list) : OrderAt(k)
    BY DEF OrderInv
  <2>2. DOMAIN peer = {"id", "stack_list"} /\ peer.id \in Ids \cup {None}
    BY DEF DialInv, Addrs
  <2>3. IsSuffix(stacks, peer.stack_list)
    <3>1. stacks = SubSeq(peer.stack_list, k + 1, Len(peer.stack_list))
      BY <2>1 DEF OrderAt
    <3> QED
      BY <3>1, OrderTypes, RestIsSuffix
  <2>4. \A i \in DOMAIN tried : tried[i][2] \in AllIps
    <3>1. tried \in Seq(Kinds)
      BY OrderTypes
    <3> QED
      BY <3>1 DEF Kinds
  <2>5. dial = "err" => addrs = <<>>
    BY <2>1 DEF OrderAt
  <2> QED
    BY <2>2, <2>3, <2>4, <2>5 DEF TypeOK, HostsInv, DialInv
<1>2. DialInv /\ DialInv' /\ OrderInv /\ [Next]_vars => OrderInv'
  BY OrderNext
<1> QED
  BY <1>1, <1>2, OrderInit, HostsInvariant, PTL DEF Spec

-----------------------------------------------------------------------------
(* IsGlobal and the blocks of special addresses.                           *)

\* The lengths that occur, in parts of w bits.
LEMMA Parts ==
    ASSUME NEW a, NEW b
    PROVE  /\ SamePrefix(a, b, 4, 8) <=> a[1] \div 16 = b[1] \div 16
           /\ SamePrefix(a, b, 8, 8) <=> a[1] \div 1 = b[1] \div 1
           /\ SamePrefix(a, b, 10, 8) <=> a[1] \div 1 = b[1] \div 1 /\ a[2] \div 64 = b[2] \div 64
           /\ SamePrefix(a, b, 12, 8) <=> a[1] \div 1 = b[1] \div 1 /\ a[2] \div 16 = b[2] \div 16
           /\ SamePrefix(a, b, 15, 8) <=> a[1] \div 1 = b[1] \div 1 /\ a[2] \div 2 = b[2] \div 2
           /\ SamePrefix(a, b, 16, 8) <=> a[1] \div 1 = b[1] \div 1 /\ a[2] \div 1 = b[2] \div 1
           /\ SamePrefix(a, b, 24, 8) <=> /\ a[1] \div 1 = b[1] \div 1 /\ a[2] \div 1 = b[2] \div 1
                                          /\ a[3] \div 1 = b[3] \div 1
           /\ SamePrefix(a, b, 7, 16) <=> a[1] \div 512 = b[1] \div 512
           /\ SamePrefix(a, b, 8, 16) <=> a[1] \div 256 = b[1] \div 256
           /\ SamePrefix(a, b, 10, 16) <=> a[1] \div 64 = b[1] \div 64
           /\ SamePrefix(a, b, 32, 16) <=> a[1] \div 1 = b[1] \div 1 /\ a[2] \div 1 = b[2] \div 1
           /\ SamePrefix(a, b, 128, 16) <=> \A i \in 1 .. 8 : a[i] \div 1 = b[i] \div 1
<1>1. 2 ^ 0 = 1 /\ 2 ^ 1 = 2 /\ 2 ^ 4 = 16 /\ 2 ^ 6 = 64 /\ 2 ^ 8 = 256 /\ 2 ^ 9 = 512
  OBVIOUS
<1>2. SamePrefix(a, b, 4, 8) <=> a[1] \div 16 = b[1] \div 16
  BY <1>1 DEF SamePrefix
<1>3. SamePrefix(a, b, 8, 8) <=> a[1] \div 1 = b[1] \div 1
  BY <1>1 DEF SamePrefix
<1>4. SamePrefix(a, b, 10, 8) <=> a[1] \div 1 = b[1] \div 1 /\ a[2] \div 64 = b[2] \div 64
  BY <1>1 DEF SamePrefix
<1>5. SamePrefix(a, b, 12, 8) <=> a[1] \div 1 = b[1] \div 1 /\ a[2] \div 16 = b[2] \div 16
  BY <1>1 DEF SamePrefix
<1>6. SamePrefix(a, b, 15, 8) <=> a[1] \div 1 = b[1] \div 1 /\ a[2] \div 2 = b[2] \div 2
  BY <1>1 DEF SamePrefix
<1>7. SamePrefix(a, b, 16, 8) <=> a[1] \div 1 = b[1] \div 1 /\ a[2] \div 1 = b[2] \div 1
  BY <1>1 DEF SamePrefix
<1>8. SamePrefix(a, b, 24, 8) <=> /\ a[1] \div 1 = b[1] \div 1 /\ a[2] \div 1 = b[2] \div 1
                                  /\ a[3] \div 1 = b[3] \div 1
  BY <1>1 DEF SamePrefix
<1>9. SamePrefix(a, b, 7, 16) <=> a[1] \div 512 = b[1] \div 512
  BY <1>1 DEF SamePrefix
<1>10. SamePrefix(a, b, 8, 16) <=> a[1] \div 256 = b[1] \div 256
  BY <1>1 DEF SamePrefix
<1>11. SamePrefix(a, b, 10, 16) <=> a[1] \div 64 = b[1] \div 64
  BY <1>1 DEF SamePrefix
<1>12. SamePrefix(a, b, 32, 16) <=> a[1] \div 1 = b[1] \div 1 /\ a[2] \div 1 = b[2] \div 1
  BY <1>1 DEF SamePrefix
<1>13. SamePrefix(a, b, 128, 16) <=> \A i \in 1 .. 8 : a[i] \div 1 = b[i] \div 1
  BY <1>1 DEF SamePrefix
<1> QED
  BY <1>2, <1>3, <1>4, <1>5, <1>6, <1>7, <1>8, <1>9, <1>10, <1>11, <1>12, <1>13

\* Octets, segments and the tuples of them.
LEMMA U8Facts == \A x \in U8 : x \in Int /\ 0 <= x /\ x <= 255
  BY DEF U8, MaxU8
LEMMA U16Facts == \A x : x \in U16 <=> x \in Int /\ 0 <= x /\ x <= 65535
<1>1. MaxU16 = 65535
  BY DEF MaxU16
<1>2. \A x : x \in U16 <=> x \in Int /\ 0 <= x /\ x <= MaxU16
  <2>1. MaxU16 \in Nat
    BY <1>1
  <2> QED
    BY <2>1 DEF U16
<1> QED
  BY <1>1, <1>2

LEMMA TupleFacts ==
    ASSUME NEW X, NEW n \in Nat, NEW s \in [1 .. n -> X]
    PROVE  /\ s \in Seq(X) /\ Len(s) = n
           /\ \A t \in [1 .. n -> X] : (\A i \in 1 .. n : s[i] = t[i]) => s = t
<1>1. s \in Seq(X) /\ Len(s) = n
  OBVIOUS
<1>2. ASSUME NEW t \in [1 .. n -> X], \A i \in 1 .. n : s[i] = t[i] PROVE s = t
  BY <1>2
<1> QED
  BY <1>1, <1>2

LEMMA IpsFacts ==
    /\ \A ip \in [1 .. 4 -> U8] : IsV4(ip) /\ ip \in Seq(U8)
    /\ \A ip \in [1 .. 8 -> U16] : ~IsV4(ip) /\ ip \in Seq(U16)
<1>1. ASSUME NEW ip \in [1 .. 4 -> U8] PROVE IsV4(ip) /\ ip \in Seq(U8)
  <2> DEFINE n == 4
  <2>1. n \in Nat /\ ip \in [1 .. n -> U8]
    OBVIOUS
  <2> HIDE DEF n
  <2>2. ip \in Seq(U8) /\ Len(ip) = n
    BY <2>1, TupleFacts
  <2> QED
    BY <2>2 DEF IsV4, n
<1>2. ASSUME NEW ip \in [1 .. 8 -> U16] PROVE ~IsV4(ip) /\ ip \in Seq(U16)
  <2> DEFINE n == 8
  <2>1. n \in Nat /\ ip \in [1 .. n -> U16]
    OBVIOUS
  <2> HIDE DEF n
  <2>2. ip \in Seq(U16) /\ Len(ip) = n
    BY <2>1, TupleFacts
  <2> QED
    BY <2>2 DEF IsV4, n
<1> QED
  BY <1>1, <1>2

\* The special blocks of ipv4, bit masks on one side and prefixes on the other.
LEMMA GlobalSpecialV4 ==
    ASSUME NEW ip \in [1 .. 4 -> U8]
    PROVE  IsGlobal(ip) <=> ~Special(ip)
<1> DEFINE a == ip[1]  b == ip[2]  c == ip[3]  d == ip[4]
<1>1. /\ a \in Int /\ 0 <= a /\ a <= 255 /\ b \in Int /\ 0 <= b /\ b <= 255
      /\ c \in Int /\ 0 <= c /\ c <= 255 /\ d \in Int /\ 0 <= d /\ d <= 255
  <2>1. a \in U8 /\ b \in U8 /\ c \in U8 /\ d \in U8
    OBVIOUS
  <2> QED
    BY <2>1, U8Facts
<1>2. \A z \in {9, 10} : ip = <<192, 0, 0, z>> <=> a = 192 /\ b = 0 /\ c = 0 /\ d = z
  <2> SUFFICES ASSUME NEW z \in {9, 10}, a = 192, b = 0, c = 0, d = z
               PROVE  ip = <<192, 0, 0, z>>
    OBVIOUS
  <2> DEFINE q == <<192, 0, 0, z>>
  <2>1. q \in [1 .. 4 -> U8]
    <3>1. 192 \in U8 /\ 0 \in U8 /\ 9 \in U8 /\ 10 \in U8
      BY DEF U8, MaxU8
    <3> QED
      BY <3>1
  <2>2. \A i \in 1 .. 4 : ip[i] = q[i]
    OBVIOUS
  <2> HIDE DEF q
  <2>3. ip = q
    BY <2>1, <2>2, 4 \in Nat, TupleFacts
  <2> QED
    BY <2>3 DEF q
<1>3. /\ b \div 16 = 1 <=> 16 <= b /\ b <= 31
      /\ b \div 64 = 1 <=> 64 <= b /\ b <= 127
      /\ b \div 2 = 9 <=> b = 18 \/ b = 19
      /\ a \div 16 = 15 <=> a >= 240
      /\ a \div 1 = a /\ b \div 1 = b /\ c \div 1 = c /\ d \div 1 = d
  <2> HIDE DEF a, b, c, d
  <2> QED
    BY <1>1
<1>4. GlobalV4(ip) <=>
        \/ a = 192 /\ b = 0 /\ c = 0 /\ (d = 9 \/ d = 10)
        \/ /\ a # 0 /\ a # 10 /\ a # 127 /\ ~(a >= 240)
           /\ ~(a = 100 /\ 64 <= b /\ b <= 127) /\ ~(a = 169 /\ b = 254)
           /\ ~(a = 172 /\ 16 <= b /\ b <= 31)
           /\ ~(a = 192 /\ b = 0 /\ c = 0) /\ ~(a = 192 /\ b = 0 /\ c = 2) /\ ~(a = 192 /\ b = 168)
           /\ ~(a = 198 /\ (b = 18 \/ b = 19)) /\ ~(a = 198 /\ b = 51 /\ c = 100)
           /\ ~(a = 203 /\ b = 0 /\ c = 113)
  <2>1. Loopback(ip) <=> a = 127
    BY IpsFacts DEF Loopback
  <2>2. Shared(ip) <=> a = 100 /\ b \div 64 = 1
    BY DEF Shared
  <2>3. GlobalV4(ip) <=>
            \/ <<a, b, c>> = <<192, 0, 0>> /\ d \in {9, 10}
            \/ /\ ~(a = 10 \/ (a = 172 /\ b \div 16 = 1) \/ (a = 192 /\ b = 168))
               /\ ~Loopback(ip)
               /\ ~(a = 169 /\ b = 254)
               /\ <<a, b, c>> \notin {<<192, 0, 2>>, <<198, 51, 100>>, <<203, 0, 113>>}
               /\ ~Shared(ip)
               /\ <<a, b, c>> # <<192, 0, 0>>
               /\ a \div 16 # 15
               /\ ~(a = 198 /\ b \div 2 = 9)
               /\ a # 0
    BY Zenon DEF GlobalV4
  <2> HIDE DEF a, b, c, d
  <2>4. \A x, y, z : <<a, b, c>> = <<x, y, z>> <=> a = x /\ b = y /\ c = z
    OBVIOUS
  <2> QED
    BY <1>3, <2>1, <2>2, <2>3, <2>4
<1>5. Special(ip) <=>
        /\ ~(a = 192 /\ b = 0 /\ c = 0 /\ (d = 9 \/ d = 10))
        /\ \/ a = 0 \/ a = 10 \/ a = 127 \/ a >= 240
           \/ (a = 100 /\ 64 <= b /\ b <= 127) \/ (a = 169 /\ b = 254)
           \/ (a = 172 /\ 16 <= b /\ b <= 31)
           \/ (a = 192 /\ b = 0 /\ c = 0) \/ (a = 192 /\ b = 0 /\ c = 2) \/ (a = 192 /\ b = 168)
           \/ (a = 198 /\ (b = 18 \/ b = 19)) \/ (a = 198 /\ b = 51 /\ c = 100)
           \/ (a = 203 /\ b = 0 /\ c = 113)
  <2>1. ip \in {<<192, 0, 0, 9>>, <<192, 0, 0, 10>>} <=> a = 192 /\ b = 0 /\ c = 0 /\ (d = 9 \/ d = 10)
    BY <1>2
  <2>2. (\E e \in SpecialV4 : SamePrefix(ip, e[1], e[2], 8)) <=>
            \/ SamePrefix(ip, <<0, 0, 0, 0>>, 8, 8) \/ SamePrefix(ip, <<10, 0, 0, 0>>, 8, 8)
            \/ SamePrefix(ip, <<100, 64, 0, 0>>, 10, 8) \/ SamePrefix(ip, <<127, 0, 0, 0>>, 8, 8)
            \/ SamePrefix(ip, <<169, 254, 0, 0>>, 16, 8) \/ SamePrefix(ip, <<172, 16, 0, 0>>, 12, 8)
            \/ SamePrefix(ip, <<192, 0, 0, 0>>, 24, 8) \/ SamePrefix(ip, <<192, 0, 2, 0>>, 24, 8)
            \/ SamePrefix(ip, <<192, 168, 0, 0>>, 16, 8) \/ SamePrefix(ip, <<198, 18, 0, 0>>, 15, 8)
            \/ SamePrefix(ip, <<198, 51, 100, 0>>, 24, 8) \/ SamePrefix(ip, <<203, 0, 113, 0>>, 24, 8)
            \/ SamePrefix(ip, <<240, 0, 0, 0>>, 4, 8)
    BY DEF SpecialV4
  <2>3. SamePrefix(ip, <<0, 0, 0, 0>>, 8, 8) <=> a = 0
    BY <1>3, Parts
  <2>4. SamePrefix(ip, <<10, 0, 0, 0>>, 8, 8) <=> a = 10
    BY <1>3, Parts
  <2>5. SamePrefix(ip, <<100, 64, 0, 0>>, 10, 8) <=> a = 100 /\ 64 <= b /\ b <= 127
    BY <1>3, Parts
  <2>6. SamePrefix(ip, <<127, 0, 0, 0>>, 8, 8) <=> a = 127
    BY <1>3, Parts
  <2>7. SamePrefix(ip, <<169, 254, 0, 0>>, 16, 8) <=> a = 169 /\ b = 254
    BY <1>3, Parts
  <2>8. SamePrefix(ip, <<172, 16, 0, 0>>, 12, 8) <=> a = 172 /\ 16 <= b /\ b <= 31
    BY <1>3, Parts
  <2>9. SamePrefix(ip, <<192, 0, 0, 0>>, 24, 8) <=> a = 192 /\ b = 0 /\ c = 0
    BY <1>3, Parts
  <2>10. SamePrefix(ip, <<192, 0, 2, 0>>, 24, 8) <=> a = 192 /\ b = 0 /\ c = 2
    BY <1>3, Parts
  <2>11. SamePrefix(ip, <<192, 168, 0, 0>>, 16, 8) <=> a = 192 /\ b = 168
    BY <1>3, Parts
  <2>12. SamePrefix(ip, <<198, 18, 0, 0>>, 15, 8) <=> a = 198 /\ (b = 18 \/ b = 19)
    BY <1>3, Parts
  <2>13. SamePrefix(ip, <<198, 51, 100, 0>>, 24, 8) <=> a = 198 /\ b = 51 /\ c = 100
    BY <1>3, Parts
  <2>14. SamePrefix(ip, <<203, 0, 113, 0>>, 24, 8) <=> a = 203 /\ b = 0 /\ c = 113
    BY <1>3, Parts
  <2>15. SamePrefix(ip, <<240, 0, 0, 0>>, 4, 8) <=> a >= 240
    BY <1>3, Parts
  <2> HIDE DEF a, b, c, d
  <2> QED
    BY <2>1, <2>2, <2>3, <2>4, <2>5, <2>6, <2>7, <2>8, <2>9, <2>10, <2>11, <2>12, <2>13, <2>14, <2>15, IpsFacts DEF Special
<1> HIDE DEF a, b, c, d
<1> QED
  BY <1>4, <1>5, IpsFacts DEF IsGlobal

\* The same for ipv6.
LEMMA GlobalSpecialV6 ==
    ASSUME NEW ip \in [1 .. 8 -> U16]
    PROVE  IsGlobal(ip) <=> ~Special(ip)
<1> DEFINE a == ip[1]  b == ip[2]
           zero == <<0, 0, 0, 0, 0, 0, 0, 0>>  one == <<0, 0, 0, 0, 0, 0, 0, 1>>
<1>1. \A i \in 1 .. 8 : ip[i] \in Int /\ 0 <= ip[i] /\ ip[i] <= 65535 /\ ip[i] \div 1 = ip[i]
  <2> SUFFICES ASSUME NEW i \in 1 .. 8
               PROVE  ip[i] \in Int /\ 0 <= ip[i] /\ ip[i] <= 65535 /\ ip[i] \div 1 = ip[i]
    OBVIOUS
  <2>1. ip[i] \in U16
    OBVIOUS
  <2> QED
    BY <2>1, U16Facts
<1>2. /\ a \in Int /\ 0 <= a /\ a <= 65535 /\ a \div 1 = a
      /\ b \in Int /\ 0 <= b /\ b <= 65535 /\ b \div 1 = b
  BY <1>1
<1>3. zero \in [1 .. 8 -> U16] /\ one \in [1 .. 8 -> U16]
  <2>1. 0 \in U16 /\ 1 \in U16
    BY U16Facts
  <2> HIDE DEF a, b
  <2> QED
    BY <2>1
<1>4. ASSUME NEW q \in [1 .. 8 -> U16]
      PROVE  SamePrefix(ip, q, 128, 16) <=> ip = q
  <2>1. \A i \in 1 .. 8 : q[i] \div 1 = q[i]
    <3> SUFFICES ASSUME NEW i \in 1 .. 8 PROVE q[i] \div 1 = q[i]
      OBVIOUS
    <3>1. q[i] \in U16
      OBVIOUS
    <3> QED
      BY <3>1, U16Facts
  <2>2. SamePrefix(ip, q, 128, 16) <=> \A i \in 1 .. 8 : ip[i] = q[i]
    BY <1>1, <2>1, Parts
  <2>3. (\A i \in 1 .. 8 : ip[i] = q[i]) => ip = q
    <3> DEFINE n == 8
    <3>1. n \in Nat /\ ip \in [1 .. n -> U16] /\ q \in [1 .. n -> U16]
      OBVIOUS
    <3> HIDE DEF n
    <3>2. ip \in Seq(U16) /\ Len(ip) = n /\ q \in Seq(U16) /\ Len(q) = n
      BY <3>1, TupleFacts
    <3>3. (\A i \in 1 .. n : ip[i] = q[i]) => ip = q
      BY <3>2, SeqEqual
    <3> QED
      BY <3>3 DEF n
  <2> QED
    BY <2>2, <2>3
<1>5. Unspecified(ip) <=> ip = zero
  <2>1. Unspecified(ip) <=> \A i \in 1 .. 8 : ip[i] = 0
    BY DEF Unspecified
  <2>2. \A i \in 1 .. 8 : zero[i] = 0
    OBVIOUS
  <2>3. DOMAIN ip = 1 .. 8 /\ DOMAIN zero = 1 .. 8
    BY <1>3
  <2>4. (\A i \in 1 .. 8 : ip[i] = 0) => ip = zero
    <3> DEFINE n == 8
    <3>1. n \in Nat /\ ip \in [1 .. n -> U16] /\ zero \in [1 .. n -> U16]
      BY <1>3
    <3>2. \A i \in 1 .. n : zero[i] = 0
      OBVIOUS
    <3> HIDE DEF n, zero
    <3>3. ip \in Seq(U16) /\ Len(ip) = n /\ zero \in Seq(U16) /\ Len(zero) = n
      BY <3>1, TupleFacts
    <3>4. (\A i \in 1 .. n : ip[i] = 0) => ip = zero
      BY <3>2, <3>3, SeqEqual
    <3> QED
      BY <3>4 DEF n
  <2> HIDE DEF zero
  <2> QED
    BY <2>1, <2>2, <2>4
<1>6. Loopback(ip) <=> ip = one
  BY IpsFacts DEF Loopback
<1>7. GlobalV6(ip) <=> /\ a \div 256 # 255 /\ ip # one /\ ip # zero /\ a \div 64 # 1018
                       /\ a \div 512 # 126 /\ ~(a = 8193 /\ b = 3512)
  <2>1. GlobalV6(ip) <=> /\ a \div 256 # 255 /\ ~Loopback(ip) /\ ~Unspecified(ip)
                         /\ a \div 64 # 1018 /\ a \div 512 # 126 /\ ~(a = 8193 /\ b = 3512)
    BY DEF GlobalV6
  <2> HIDE DEF a, b, zero, one
  <2> QED
    BY <1>5, <1>6, <2>1
<1>8. Special(ip) <=> \/ a \div 256 = 255 \/ ip = one \/ ip = zero \/ a \div 64 = 1018
                      \/ a \div 512 = 126 \/ (a = 8193 /\ b = 3512)
  <2>1. Special(ip) <=>
            \/ SamePrefix(ip, <<65280>>, 8, 16) \/ SamePrefix(ip, <<65152>>, 10, 16)
            \/ SamePrefix(ip, <<64512>>, 7, 16) \/ SamePrefix(ip, <<8193, 3512>>, 32, 16)
            \/ SamePrefix(ip, zero, 128, 16) \/ SamePrefix(ip, one, 128, 16)
    <3>1. Special(ip) <=> \E e \in SpecialV6 : SamePrefix(ip, e[1], e[2], 16)
      BY IpsFacts DEF Special
    <3> QED
      BY <3>1 DEF SpecialV6
  <2>2. SamePrefix(ip, zero, 128, 16) <=> ip = zero
    BY <1>3, <1>4
  <2>3. SamePrefix(ip, one, 128, 16) <=> ip = one
    BY <1>3, <1>4
  <2> HIDE DEF a, b, zero, one
  <2>4. SamePrefix(ip, <<65280>>, 8, 16) <=> a \div 256 = 255
    BY Parts DEF a
  <2>5. SamePrefix(ip, <<65152>>, 10, 16) <=> a \div 64 = 1018
    BY Parts DEF a
  <2>6. SamePrefix(ip, <<64512>>, 7, 16) <=> a \div 512 = 126
    BY Parts DEF a
  <2>7. SamePrefix(ip, <<8193, 3512>>, 32, 16) <=> a = 8193 /\ b = 3512
    BY <1>2, Parts DEF a, b
  <2> QED
    BY <2>1, <2>2, <2>3, <2>4, <2>5, <2>6, <2>7
<1> HIDE DEF a, b, zero, one
<1> QED
  BY <1>7, <1>8, IpsFacts DEF IsGlobal

\* The masks and comparisons of ext_is_global pick exactly the addresses that
\* are in none of the special blocks: for every ipv4 and ipv6 address
\* (addr.rs, 282-319).
THEOREM GlobalSpecial == \A ip \in Ips : IsGlobal(ip) <=> ~Special(ip)
BY GlobalSpecialV4, GlobalSpecialV6 DEF Ips

-----------------------------------------------------------------------------
(* What upgrade_addr picks.                                                *)

\* What the loop of upgrade_addr has found, and what it should have found: of
\* the interfaces F of the family, the global ones G, and the lan ones L.
IsBest(acc, path, F, G, L) ==
    /\ acc.out = Those(path, G)
    /\ acc.out = <<>> => acc.lan = First(Those(path, L))
    /\ acc.out = <<>> /\ acc.lan = <<>> => acc.loopback = First(Those(path, F))

LEMMA FirstAppend ==
    ASSUME NEW A, NEW s \in Seq(A), NEW w \in A
    PROVE  /\ Append(s, w) # <<>>
           /\ First(Append(s, w)) = IF First(s) = <<>> THEN <<w>> ELSE First(s)
<1>1. Len(s) \in Nat /\ Append(s, w) # <<>>
  OBVIOUS
<1>2. CASE s = <<>>
  BY <1>1, <1>2 DEF First
<1>3. CASE s # <<>>
  <2>1. Append(s, w)[1] = s[1] /\ <<s[1]>> # <<>>
    BY <1>3
  <2> QED
    BY <1>1, <1>3, <2>1 DEF First
<1> QED
  BY <1>2, <1>3

\* The loop keeps to what it should have found so far (addr.rs, 329-342).
LEMMA NextIsBest ==
    ASSUME NEW A \in SUBSET Ips, NEW ip, NEW acc \in Bests(Family(A, ip)),
           NEW path \in Seq(A), NEW w \in A, NEW F, F = Family(A, ip),
           NEW G, G = {i \in F : ~Special(i)}, NEW L, L = {i \in F : ~Loopback(i)},
           IsBest(acc, path, F, G, L)
    PROVE  IsBest(NextBest(acc, ip, w), Append(path, w), F, G, L)
<1> DEFINE new == NextBest(acc, ip, w)  q == Append(path, w)
           g == Those(path, G)  l == Those(path, L)  f == Those(path, F)
<1>1. /\ Those(q, G) = AndIf(g, w, G) /\ Those(q, L) = AndIf(l, w, L) /\ Those(q, F) = AndIf(f, w, F)
      /\ g \in Seq(A) /\ l \in Seq(A) /\ f \in Seq(A)
  BY ThoseAppend
<1>2. /\ Append(g, w) # <<>>
      /\ First(Append(l, w)) = IF First(l) = <<>> THEN <<w>> ELSE First(l)
      /\ First(Append(f, w)) = IF First(f) = <<>> THEN <<w>> ELSE First(f)
  BY <1>1, FirstAppend
<1>3. IsGlobal(w) <=> ~Special(w)
  BY GlobalSpecial
<1>4. /\ acc.out = g /\ (acc.out = <<>> => acc.lan = First(l))
      /\ (acc.out = <<>> /\ acc.lan = <<>> => acc.loopback = First(f))
  BY DEF IsBest
<1> HIDE DEF q, g, l, f
<1>5. CASE w \notin F
  <2>1. new = acc
    BY <1>5 DEF NextBest, SameFamily, Family
  <2>2. w \notin G /\ w \notin L
    BY <1>5
  <2>3. Those(q, G) = g /\ Those(q, L) = l /\ Those(q, F) = f
    BY <1>1, <1>5, <2>2 DEF AndIf
  <2> HIDE DEF new
  <2> QED
    BY <1>4, <2>1, <2>3 DEF IsBest, new, q
<1>6. CASE w \in F
  <2>1. new = Better(acc, w)
    BY <1>6 DEF NextBest, SameFamily, Family
  <2>2. Those(q, F) = Append(f, w)
    BY <1>1, <1>6 DEF AndIf
  <2> HIDE DEF new
  <2>3. CASE IsGlobal(w)
    <3>1. w \in G
      BY <1>3, <1>6, <2>3
    <3>2. Those(q, G) = Append(g, w)
      BY <1>1, <3>1 DEF AndIf
    <3>3. new.out = Append(acc.out, w)
      BY <2>1, <2>3 DEF Better, Bests
    <3> QED
      BY <1>2, <1>4, <3>2, <3>3 DEF IsBest, new, q
  <2>4. CASE ~IsGlobal(w) /\ Loopback(w)
    <3>1. w \notin G /\ w \notin L
      BY <1>3, <2>4
    <3>2. Those(q, G) = g /\ Those(q, L) = l
      BY <1>1, <3>1 DEF AndIf
    <3>3. /\ new.out = acc.out /\ new.lan = acc.lan
          /\ new.loopback = IF acc.loopback = <<>> THEN <<w>> ELSE acc.loopback
      BY <2>1, <2>4 DEF Better, Bests
    <3> QED
      BY <1>2, <1>4, <2>2, <3>2, <3>3 DEF IsBest, new, q
  <2>5. CASE ~IsGlobal(w) /\ ~Loopback(w)
    <3>1. w \notin G /\ w \in L
      BY <1>3, <1>6, <2>5
    <3>2. Those(q, G) = g /\ Those(q, L) = Append(l, w)
      BY <1>1, <3>1 DEF AndIf
    <3>3. /\ new.out = acc.out /\ new.loopback = acc.loopback
          /\ new.lan = IF acc.lan = <<>> THEN <<w>> ELSE acc.lan
      BY <2>1, <2>5 DEF Better, Bests
    <3>4. new.lan # <<>>
      BY <3>3
    <3> QED
      BY <1>2, <1>4, <3>2, <3>3, <3>4 DEF IsBest, new, q
  <2> QED
    BY <2>3, <2>4, <2>5
<1> QED
  BY <1>5, <1>6

\* Without interfaces nothing is found.
LEMMA FromNone ==
    /\ \A ip : Best(ip, <<>>) = Nothing
    /\ \A T : Those(<<>>, T) = <<>>
<1> DEFINE A == {<<>>}
<1>1. <<>> \in Seq(A) /\ <<>> \in A
  OBVIOUS
<1> HIDE DEF A
<1>2. ASSUME NEW ip PROVE Best(ip, <<>>) = Nothing
  BY <1>1, BestAppend
<1>3. ASSUME NEW T PROVE Those(<<>>, T) = <<>>
  BY <1>1, ThoseAppend
<1> QED
  BY <1>2, <1>3

\* For every bound address and every list of interfaces, upgrade_addr returns
\* what a listener should publish (addr.rs, 282-385).
THEOREM UpgradeIsPreferred ==
    ASSUME NEW ip, NEW ifaces \in Seq(Ips)
    PROVE  UpgradeAddr(ip, ifaces) = Preferred(ip, ifaces)
<1> DEFINE A == ToSet(ifaces)  F == Family(A, ip)
           G == {i \in F : ~Special(i)}  L == {i \in F : ~Loopback(i)}
           S == {path \in Seq(A) : IsBest(Best(ip, path), path, F, G, L)}
<1>1. ifaces \in Seq(A) /\ A \in SUBSET Ips
  BY InToSet
<1>2. <<>> \in S
  <2>1. <<>> \in Seq(A)
    OBVIOUS
  <2> HIDE DEF F, G, L, A
  <2>2. IsBest(Best(ip, <<>>), <<>>, F, G, L)
    BY FromNone DEF IsBest, Nothing, First
  <2> QED
    BY <2>1, <2>2
<1>3. ASSUME NEW path \in Seq(A), NEW w \in A, path \in S PROVE Append(path, w) \in S
  <2> HIDE DEF F, G, L, A
  <2>1. Append(path, w) \in Seq(A)
    OBVIOUS
  <2>2. Best(ip, Append(path, w)) = NextBest(Best(ip, path), ip, w)
    <3>1. /\ Best(ip, <<>>) = Nothing
          /\ Best(ip, path) \in Bests(Family(A, ip))
          /\ Best(ip, App(path, w)) = NextBest(Best(ip, path), ip, w)
      BY BestAppend
    <3> QED
      BY <3>1 DEF App
  <2>3. Best(ip, path) \in Bests(Family(A, ip))
    BY BestAppend
  <2> QED
    BY <1>1, <1>3, <2>1, <2>2, <2>3, NextIsBest DEF F, G, L
<1> HIDE DEF S
<1>4. ifaces \in S
  BY <1>1, <1>2, <1>3, SeqInduction
<1> DEFINE acc == Best(ip, ifaces)  g == Those(ifaces, G)  l == Those(ifaces, L)
           f == Those(ifaces, F)
<1>5. /\ acc.out = g /\ (acc.out = <<>> => acc.lan = First(l))
      /\ (acc.out = <<>> /\ acc.lan = <<>> => acc.loopback = First(f))
  BY <1>4 DEF S, IsBest
<1>6. Preferred(ip, ifaces) = IF ~Unspecified(ip) THEN <<ip>>
                              ELSE IF g # <<>> THEN g
                              ELSE IF l # <<>> THEN First(l)
                              ELSE First(f)
  BY DEF Preferred, Family
<1>7. UpgradeAddr(ip, ifaces) = IF ~Unspecified(ip) THEN <<ip>>
                                ELSE IF acc.out # <<>> THEN acc.out
                                ELSE IF acc.lan # <<>> THEN acc.lan
                                ELSE acc.loopback
  BY DEF UpgradeAddr
<1> HIDE DEF acc, g, l, f
<1>8. l = <<>> <=> First(l) = <<>>
  <2>1. <<l[1]>> # <<>>
    OBVIOUS
  <2> QED
    BY <2>1 DEF First
<1> QED
  BY <1>5, <1>6, <1>7, <1>8

-----------------------------------------------------------------------------
(* What a peer parses from the url of the relay.                           *)

\* The url of the relay parses to its identifier and to all it published.
PublishInv ==
    relay # Unbound =>
        /\ relay.ips \in RelayBinds /\ relay.ifaces \in RelayIfaces
        /\ FromUrl(relay.url) = [id |-> RelayId,
                                 stack_list |-> PublishAll("rst", relay.ips, relay.ifaces)]

\* The url is printed from these stacks, so it is parsed back to them.
LEMMA RelayNewPublishes ==
    ASSUME RelayNew
    PROVE  PublishInv'
<1>1. PICK ips \in RelayBinds, ifaces \in RelayIfaces :
          relay' = [ips |-> ips, ifaces |-> ifaces,
                    url |-> ToUrl([id |-> RelayId,
                                   stack_list |-> PublishAll("rst", ips, ifaces)]),
                    accepts |-> UNION {Accepts(ip, ifaces) : ip \in ToSet(ips)}]
  BY DEF RelayNew
<1> DEFINE sl == PublishAll("rst", ips, ifaces)  a == [id |-> RelayId, stack_list |-> sl]
<1>2. relay'.ips = ips /\ relay'.ifaces = ifaces /\ relay'.url = ToUrl(a)
  BY <1>1
<1>3. a \in Addrs(Words)
  <2>1. ips \in Seq(AllIps) /\ ifaces \in Seq(AllIps)
    BY AllIpsFacts
  <2>2. AcceptsAll(ips, ifaces) \subseteq AllIps /\ sl \in Seq(Heard("rst", AcceptsAll(ips, ifaces)))
    BY <2>1, PublishAllIn, AcceptsType
  <2>3. sl \in Seq(Stacks(Words))
    BY <2>2, HeardStacks, SeqMonotonic
  <2> HIDE DEF sl
  <2> QED
    BY <2>3, DiscoveryAssumption DEF Addrs
<1>4. FromUrl(ToUrl(a)) = a
  BY <1>3, WordsFacts, AddrRoundTrip
<1> QED
  BY <1>2, <1>4 DEF PublishInv

LEMMA PublishInvariant == Spec => []PublishInv
<1>1. Init => PublishInv
  BY DEF Init, PublishInv
<1>2. PublishInv /\ [Next]_vars => PublishInv'
  <2> SUFFICES ASSUME PublishInv, [Next]_vars PROVE PublishInv'
    OBVIOUS
  <2>1. CASE RelayNew
    BY <2>1, RelayNewPublishes
  <2>2. CASE relay' = relay
    BY <2>2 DEF PublishInv
  <2> QED
    BY <2>1, <2>2 DEF Next, NodeNew, Learn, HandOn, Connect, NextStack, StackFails, AddrFails,
                      AddrConnects, vars
<1> QED
  BY <1>1, <1>2, PTL DEF Spec

\* Whatever the interfaces and the addresses bound, what a peer parses from
\* the url of the relay is its identifier and, for every bound address, every
\* global address of the host, or else one of the lan, or else loopback
\* (addr.rs, 223-276, 282-385).
THEOREM DiscoveryPublishesPreferred == Spec => []PublishesPreferred
<1>1. PublishInv => PublishesPreferred
  <2> SUFFICES ASSUME PublishInv, relay # Unbound
               PROVE  FromUrl(relay.url) =
                        [id |-> RelayId,
                         stack_list |-> FlattenSeq([i \in DOMAIN relay.ips |->
                            LET out == Preferred(relay.ips[i], relay.ifaces)
                            IN  [j \in DOMAIN out |-> <<<<"rst">>, IpText(out[j])>>]])]
    BY DEF PublishesPreferred
  <2>1. relay.ifaces \in Seq(Ips)
    BY DiscoveryAssumption DEF PublishInv
  <2>2. \A i \in DOMAIN relay.ips :
            UpgradeAddr(relay.ips[i], relay.ifaces) = Preferred(relay.ips[i], relay.ifaces)
    BY <2>1, UpgradeIsPreferred
  <2>3. PublishAll("rst", relay.ips, relay.ifaces) =
            FlattenSeq([i \in DOMAIN relay.ips |->
                LET out == Preferred(relay.ips[i], relay.ifaces)
                IN  [j \in DOMAIN out |-> <<<<"rst">>, IpText(out[j])>>]])
    BY <2>2, Zenon DEF PublishAll, Publish
  <2> QED
    BY <2>3 DEF PublishInv
<1> QED
  BY <1>1, PublishInvariant, PTL
=============================================================================
