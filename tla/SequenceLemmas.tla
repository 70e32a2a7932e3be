---------------------------- MODULE SequenceLemmas ----------------------------
(***************************************************************************)
(* What the proofs about files rest on: induction over numbers, what       *)
(* FlattenSeq makes of parts of any number, where in the whole they are,   *)
(* and numbers that are kept modulo another.                               *)
(*                                                                         *)
(* The induction is over a set of numbers, not a predicate: the provers    *)
(* cannot instantiate an operator, but they can a set.                     *)
(***************************************************************************)
EXTENDS Integers, SequencesExt, SequenceTheorems, FiniteSetTheorems, WellFoundedInduction, TLAPS

(* Induction *)

\* Every set of numbers has a least one.
LEMMA LeastNatural ==
  ASSUME NEW T \in SUBSET Nat, T # {}
  PROVE  \E n \in T : \A m \in T : n <= m
<1> DEFINE R == OpToRel(<, Nat)
<1>1. IsWellFoundedOn(R, Nat)
  BY NatLessThanWellFounded
<1>2. PICK n \in T : \A m \in T : <<m, n>> \notin R
  <2> HIDE DEF R
  <2> QED
    BY <1>1, WFMin
<1>3. \A m \in T : ~(m < n)
  BY <1>2 DEF OpToRel
<1> HIDE DEF R
<1> QED
  BY <1>2, <1>3

\* A set that has 0, and with each number the next, has all.
LEMMA Induction ==
  ASSUME NEW T \in SUBSET Nat, 0 \in T, \A n \in T : n + 1 \in T
  PROVE  T = Nat
<1> SUFFICES ASSUME Nat \ T # {} PROVE FALSE
  OBVIOUS
<1>1. PICK n \in Nat \ T : \A m \in Nat \ T : n <= m
  BY LeastNatural
<1>2. n # 0 /\ n - 1 \in Nat /\ n - 1 \in T
  BY <1>1
<1> QED
  BY <1>1, <1>2

\* f joins the first n parts of s, for every number of them up to n.
Joins(f, s, n) == f = [i \in 1..n |-> IF i = 1 THEN s[i] ELSE f[i-1] \o s[i]]

LEMMA JoinsFirst ==
  ASSUME NEW f, NEW s, NEW n \in Nat, Joins(f, s, n), n > 0
  PROVE  f[1] = s[1]
<1>1. \A i \in 1..n : f[i] = IF i = 1 THEN s[i] ELSE f[i-1] \o s[i]
  BY DEF Joins
<1>2. 1 \in 1..n
  OBVIOUS
<1> QED
  BY <1>1, <1>2

LEMMA JoinsNext ==
  ASSUME NEW f, NEW s, NEW n \in Nat, Joins(f, s, n), NEW i \in Nat, i # 0, i + 1 \in 1..n
  PROVE  f[i+1] = f[i] \o s[i+1]
<1>1. \A j \in 1..n : f[j] = IF j = 1 THEN s[j] ELSE f[j-1] \o s[j]
  BY DEF Joins
<1>2. f[i+1] = IF i + 1 = 1 THEN s[i+1] ELSE f[i+1-1] \o s[i+1]
  BY <1>1
<1>3. i + 1 - 1 = i /\ i + 1 # 1
  OBVIOUS
<1> QED
  BY <1>2, <1>3

LEMMA JoinsExists ==
  ASSUME NEW s, NEW n \in Nat
  PROVE  \E f : Joins(f, s, n)
<1> DEFINE T == {m \in Nat : \E f : Joins(f, s, m)}
<1>1. 0 \in T
  <2>1. Joins(<<>>, s, 0)
    BY DEF Joins
  <2> QED
    BY <2>1
<1>2. ASSUME NEW m \in T PROVE m + 1 \in T
  <2>1. PICK f : Joins(f, s, m)
    OBVIOUS
  <2> DEFINE AtEnd == IF m = 0 THEN s[1] ELSE f[m] \o s[m + 1]
             g == [i \in 1..m+1 |-> IF i <= m THEN f[i] ELSE AtEnd]
  <2>2. Joins(g, s, m+1)
    <3>1. \A i \in 1..m : f[i] = IF i = 1 THEN s[i] ELSE f[i-1] \o s[i]
      BY <2>1 DEF Joins
    <3>2. \A i \in 1..m : g[i] = f[i] /\ (i # 1 => g[i-1] = f[i-1])
      OBVIOUS
    <3>3. g[m+1] = AtEnd /\ (m # 0 => g[m] = f[m])
      OBVIOUS
    <3> HIDE DEF g, AtEnd
    <3>4. \A i \in 1..m+1 : g[i] = IF i = 1 THEN s[i] ELSE g[i-1] \o s[i]
      <4> TAKE i \in 1..m+1
      <4>1. CASE i \in 1..m
        <5>1. f[i] = IF i = 1 THEN s[i] ELSE f[i-1] \o s[i]
          BY <3>1, <4>1
        <5>2. g[i] = f[i] /\ (i # 1 => g[i-1] = f[i-1])
          BY <3>2, <4>1
        <5> QED
          BY <5>1, <5>2
      <4>2. CASE i = m + 1 /\ m = 0
        BY <3>3, <4>2 DEF AtEnd
      <4>3. CASE i = m + 1 /\ m # 0
        <5>1. m \in Nat /\ i - 1 = m /\ i # 1
          BY <4>3
        <5>2. g[i] = f[m] \o s[i] /\ g[i-1] = f[m]
          BY <3>3, <4>3, <5>1 DEF AtEnd
        <5> QED
          BY <5>1, <5>2
      <4> QED
        BY <4>1, <4>2, <4>3
    <3>5. g = [i \in 1..m+1 |-> g[i]]
      BY DEF g
    <3> QED
      BY <3>4, <3>5 DEF Joins
  <2> QED
    BY <2>2
<1> HIDE DEF T
<1>3. T = Nat
  <2>1. T \subseteq Nat
    BY DEF T
  <2> QED
    BY <1>1, <1>2, <2>1, Induction
<1> QED
  BY <1>3 DEF T

\* FlattenSeq gives what its parts join to.
LEMMA FlattenJoins ==
  ASSUME NEW s, Len(s) \in Nat \ {0}
  PROVE  \E f : Joins(f, s, Len(s)) /\ FlattenSeq(s) = f[Len(s)]
<1> DEFINE f == CHOOSE f : Joins(f, s, Len(s))
<1>1. Joins(f, s, Len(s))
  BY JoinsExists
<1>2. FlattenSeq(s) = f[Len(s)]
  BY Zenon DEF FlattenSeq, Joins
<1> QED
  BY <1>1, <1>2

\* Two that join the beginning of the same parts agree there.
LEMMA JoinsAgree ==
  ASSUME NEW s, NEW t, NEW f, NEW g, NEW m \in Nat, NEW n \in Nat, m <= n,
         Joins(f, s, m), Joins(g, t, n), \A i \in 1..m : s[i] = t[i]
  PROVE  \A i \in 1..m : f[i] = g[i]
<1> DEFINE T == {i \in Nat : i \in 1..m => f[i] = g[i]}
<1>1. 0 \in T
  OBVIOUS
<1>2. ASSUME NEW i \in T PROVE i + 1 \in T
  <2> SUFFICES ASSUME i + 1 \in 1..m PROVE f[i+1] = g[i+1]
    OBVIOUS
  <2>1. CASE i = 0
    <3>1. m > 0 /\ n > 0 /\ s[1] = t[1]
      BY <2>1
    <3>2. f[1] = s[1] /\ g[1] = t[1]
      BY <3>1, JoinsFirst
    <3> QED
      BY <2>1, <3>1, <3>2
  <2>2. CASE i # 0
    <3>1. i \in Nat /\ i \in 1..m /\ i + 1 \in 1..n /\ s[i+1] = t[i+1]
      BY <2>2
    <3>2. f[i+1] = f[i] \o s[i+1]
      BY <2>2, <3>1, JoinsNext, ZenonT(40)
    <3>3. g[i+1] = g[i] \o t[i+1]
      BY <2>2, <3>1, JoinsNext, ZenonT(40)
    <3> QED
      BY <1>2, <3>1, <3>2, <3>3
  <2> QED
    BY <2>1, <2>2
<1> HIDE DEF T
<1>3. T = Nat
  <2>1. T \subseteq Nat
    BY DEF T
  <2> QED
    BY <1>1, <1>2, <2>1, Induction
<1> QED
  BY <1>3 DEF T

\* One part more is put behind what the others give.
LEMMA FlattenAppend ==
  ASSUME NEW S, NEW s \in Seq(Seq(S)), NEW x \in Seq(S),
         FlattenSeq(s) \in Seq(S)
  PROVE  FlattenSeq(Append(s, x)) = FlattenSeq(s) \o x
<1> DEFINE n == Len(s)
           t == Append(s, x)
<1>1. /\ n \in Nat /\ Len(t) = n + 1 /\ t[n+1] = x
      /\ \A i \in 1..n : t[i] = s[i]
  OBVIOUS
<1> HIDE DEF t
<1>2. PICK g : Joins(g, t, n+1) /\ FlattenSeq(t) = g[n+1]
  BY <1>1, FlattenJoins
<1>3. /\ n = 0 => g[n+1] = t[n+1]
      /\ n # 0 => g[n+1] = g[n] \o t[n+1]
  <2>1. n + 1 \in Nat /\ n + 1 > 0 /\ n + 1 \in 1..(n+1)
    BY <1>1
  <2>2. CASE n = 0
    <3> HIDE DEF n
    <3>1. g[1] = t[1]
      BY <1>2, <2>1, JoinsFirst
    <3> QED
      BY <2>2, <3>1
  <2>3. CASE n # 0
    <3> HIDE DEF n
    <3>1. g[n+1] = g[n] \o t[n+1]
      BY <1>1, <1>2, <2>1, <2>3, JoinsNext
    <3> QED
      BY <2>3, <3>1
  <2> QED
    BY <2>2, <2>3
<1>4. CASE n = 0
  <2>1. FlattenSeq(s) = <<>>
    BY <1>4 DEF FlattenSeq
  <2>2. FlattenSeq(t) = x
    BY <1>1, <1>2, <1>3, <1>4
  <2> QED
    BY <2>1, <2>2 DEF t
<1>5. CASE n # 0
  <2>1. PICK f : Joins(f, s, n) /\ FlattenSeq(s) = f[n]
    BY <1>1, <1>5, FlattenJoins
  <2>2. Joins(f, s, n) /\ Joins(g, t, n+1) /\ n + 1 \in Nat /\ n <= n + 1 /\ n \in 1..n
    BY <1>1, <1>2, <1>5, <2>1
  <2> HIDE DEF n
  <2>3. \A i \in 1..n : f[i] = g[i]
    <3>1. \A i \in 1..n : s[i] = t[i]
      BY <1>1
    <3> QED
      BY <1>1, <2>2, <3>1, JoinsAgree
  <2> QED
    BY <1>1, <1>2, <1>3, <1>5, <2>1, <2>2, <2>3 DEF t
<1> QED
  BY <1>4, <1>5

\* What is joined of bytes is bytes.
LEMMA FlattenType ==
  ASSUME NEW S, NEW s \in Seq(Seq(S))
  PROVE  FlattenSeq(s) \in Seq(S)
<1>1. CASE Len(s) = 0
  BY <1>1 DEF FlattenSeq
<1>2. CASE Len(s) # 0
  <2>1. PICK f : Joins(f, s, Len(s)) /\ FlattenSeq(s) = f[Len(s)]
    BY <1>2, FlattenJoins
  <2> DEFINE T == {i \in Nat : i \in 1..Len(s) => f[i] \in Seq(S)}
  <2>2. 0 \in T
    OBVIOUS
  <2>3. ASSUME NEW i \in T PROVE i + 1 \in T
    <3> SUFFICES ASSUME i + 1 \in 1..Len(s) PROVE f[i+1] \in Seq(S)
      OBVIOUS
    <3>1. s[i+1] \in Seq(S) /\ Len(s) \in Nat
      OBVIOUS
    <3>2. CASE i = 0
      <4>1. f[1] = s[1]
        BY <1>2, <2>1, <3>1, JoinsFirst
      <4> QED
        BY <3>1, <3>2, <4>1
    <3>3. CASE i # 0
      <4>1. i \in 1..Len(s) /\ f[i] \in Seq(S)
        BY <2>3, <3>1, <3>3
      <4>2. f[i+1] = f[i] \o s[i+1]
        BY <2>1, <3>1, <3>3, <4>1, JoinsNext
      <4> QED
        BY <3>1, <4>1, <4>2
    <3> QED
      BY <3>2, <3>3
  <2> HIDE DEF T
  <2>4. T = Nat
    <3>1. T \subseteq Nat
      BY DEF T
    <3> QED
      BY <2>2, <2>3, <3>1, Induction
  <2>5. Len(s) \in Nat /\ Len(s) \in 1..Len(s)
    BY <1>2
  <2>6. f[Len(s)] \in Seq(S)
    BY <2>4, <2>5 DEF T
  <2> QED
    BY <2>1, <2>6
<1> QED
  BY <1>1, <1>2

-----------------------------------------------------------------------------
(* Parts of sequences *)

\* What is where in two sequences put together.
LEMMA PutBehind ==
  ASSUME NEW S, NEW h \in Seq(S), NEW d \in Seq(S), NEW n \in Nat, Len(h) = n
  PROVE  /\ h \o d \in Seq(S) /\ Len(h \o d) = n + Len(d)
         /\ \A k \in 1..n : (h \o d)[k] = h[k]
         /\ \A k \in 1..Len(d) : (h \o d)[n + k] = d[k]
<1>1. h \o d \in Seq(S) /\ Len(h \o d) = n + Len(d)
  OBVIOUS
<1>2. \A k \in 1..n : (h \o d)[k] = h[k]
  BY ConcatProperties
<1>3. \A k \in 1..Len(d) : (h \o d)[n + k] = d[k]
  <2> TAKE k \in 1..Len(d)
  <2> DEFINE j == n + k
  <2>1. j \in 1..(Len(h) + Len(d)) /\ j - Len(h) = k /\ ~(j <= Len(h))
    OBVIOUS
  <2> HIDE DEF j
  <2>2. (h \o d)[j] = d[j - Len(h)]
    BY <2>1, ConcatProperties
  <2> QED
    BY <2>1, <2>2 DEF j
<1> QED
  BY <1>1, <1>2, <1>3

LEMMA LengthOfBoth ==
  ASSUME NEW S, NEW h \in Seq(S), NEW d \in Seq(S)
  PROVE  Len(h \o d) = Len(h) + Len(d)
  OBVIOUS

LEMMA Regrouped ==
  ASSUME NEW S, NEW h \in Seq(S), NEW d \in Seq(S), NEW e \in Seq(S)
  PROVE  (h \o d) \o e = h \o (d \o e) /\ d \o e \in Seq(S)
<1>1. (h \o d) \o e = h \o (d \o e)
  BY ConcatAssociative
<1>2. d \o e \in Seq(S)
  OBVIOUS
<1> QED
  BY <1>1, <1>2

\* The whole begins with h, and so it does with anything behind.
Begins(h, whole, B) == \E rest \in B : whole = h \o rest

LEMMA BeginsLonger ==
  ASSUME NEW S, NEW h \in Seq(S), NEW whole, NEW d \in Seq(S), Begins(h, whole, Seq(S))
  PROVE  Begins(h, whole \o d, Seq(S))
<1>1. PICK rest \in Seq(S) : whole = h \o rest
  BY Zenon DEF Begins
<1>2. (h \o rest) \o d = h \o (rest \o d) /\ rest \o d \in Seq(S)
  BY Regrouped, SMT
<1> DEFINE r == rest \o d
<1>3. r \in Seq(S) /\ whole \o d = h \o r
  BY <1>1, <1>2, Zenon
<1> HIDE DEF r
<1> QED
  BY <1>3, Zenon DEF Begins

\* Parts of two sequences that have the same in them.
LEMMA SamePart ==
  ASSUME NEW S, NEW s \in Seq(S), NEW t \in Seq(S), NEW a \in Nat, NEW m \in Nat, NEW n \in Nat,
         m <= n, n <= Len(t), a + n <= Len(s), \A k \in 1..n : s[a + k] = t[k]
  PROVE  SubSeq(s, a + m + 1, a + n) = SubSeq(t, m + 1, n)
<1> DEFINE p == SubSeq(s, a + m + 1, a + n)
           q == SubSeq(t, m + 1, n)
<1>1. Len(s) \in Nat /\ Len(t) \in Nat
  OBVIOUS
<1>2. /\ p \in Seq(S) /\ Len(p) = n - m
      /\ \A i \in 1..(n - m) : p[i] = s[a + m + i]
  <2>1. \A i \in (a + m + 1)..(a + n) : s[i] \in S
    BY <1>1
  <2>2. a + m + 1 \in Int /\ a + n \in Int
    OBVIOUS
  <2> QED
    BY <2>1, <2>2, SubSeqProperties
<1>3. /\ q \in Seq(S) /\ Len(q) = n - m
      /\ \A i \in 1..(n - m) : q[i] = t[m + i]
  <2>1. \A i \in (m + 1)..n : t[i] \in S
    BY <1>1
  <2> QED
    BY <2>1, SubSeqProperties
<1> HIDE DEF p, q
<1>4. ASSUME NEW i \in 1..(n - m) PROVE p[i] = q[i]
  <2>1. m + i \in 1..n /\ a + (m + i) = a + m + i
    OBVIOUS
  <2> QED
    BY <1>2, <1>3, <2>1
<1>5. p = q
  BY <1>2, <1>3, <1>4
<1> QED
  BY <1>5 DEF p, q

-----------------------------------------------------------------------------
(* Files, joined from parts *)

\* The first n parts, and where they end.
Joined(p, n) == FlattenSeq(SubSeq(p, 1, n))
EndOf(p, n) == Len(Joined(p, n))

LEMMA JoinedType ==
  ASSUME NEW S, NEW p \in Seq(Seq(S)), NEW n \in 0..Len(p)
  PROVE  Joined(p, n) \in Seq(S) /\ EndOf(p, n) \in Nat
<1>1. SubSeq(p, 1, n) \in Seq(Seq(S))
  OBVIOUS
<1>2. Joined(p, n) \in Seq(S)
  BY <1>1, FlattenType DEF Joined
<1> QED
  BY <1>2 DEF EndOf

\* A file is all its parts, and none end at 0.
LEMMA JoinedAll ==
  ASSUME NEW S, NEW p \in Seq(Seq(S))
  PROVE  Joined(p, Len(p)) = FlattenSeq(p) /\ EndOf(p, Len(p)) = Len(FlattenSeq(p)) /\ EndOf(p, 0) = 0
<1>1. SubSeq(p, 1, Len(p)) = p
  BY SubSeqFull
<1>2. FlattenSeq(SubSeq(p, 1, 0)) = <<>>
  <2>1. SubSeq(p, 1, 0) = <<>> /\ Len(SubSeq(p, 1, 0)) = 0
    OBVIOUS
  <2> QED
    BY <2>1 DEF FlattenSeq
<1> QED
  BY <1>1, <1>2 DEF Joined, EndOf

LEMMA JoinedNext ==
  ASSUME NEW S, NEW p \in Seq(Seq(S)), NEW n \in Nat, n + 1 <= Len(p)
  PROVE  /\ p[n+1] \in Seq(S) /\ Joined(p, n) \in Seq(S)
         /\ Joined(p, n + 1) = Joined(p, n) \o p[n+1]
         /\ EndOf(p, n + 1) = EndOf(p, n) + Len(p[n+1])
<1>1. SubSeq(p, 1, n) \in Seq(Seq(S)) /\ p[n+1] \in Seq(S)
  OBVIOUS
<1>2. SubSeq(p, 1, n + 1) = Append(SubSeq(p, 1, n), p[n+1])
  OBVIOUS
<1>3. Joined(p, n) \in Seq(S)
  BY <1>1, FlattenType DEF Joined
<1>4. Joined(p, n + 1) = Joined(p, n) \o p[n+1]
  BY <1>1, <1>2, <1>3, FlattenAppend DEF Joined
<1> QED
  BY <1>1, <1>3, <1>4 DEF EndOf

\* More parts begin with fewer.
LEMMA JoinedPrefix ==
  ASSUME NEW S, NEW p \in Seq(Seq(S)), NEW m \in 0..Len(p), NEW n \in 0..m
  PROVE  \E rest \in Seq(S) : Joined(p, m) = Joined(p, n) \o rest
<1> DEFINE T == {i \in Nat : i \in n..Len(p) => Begins(Joined(p, n), Joined(p, i), Seq(S))}
<1>1. Joined(p, n) \in Seq(S) /\ Begins(Joined(p, n), Joined(p, n), Seq(S))
  <2>1. n \in 0..Len(p)
    OBVIOUS
  <2> DEFINE a == Joined(p, n)
  <2>2. a \in Seq(S)
    BY <2>1, JoinedType
  <2> HIDE DEF a
  <2>3. a = a \o <<>> /\ <<>> \in Seq(S)
    BY <2>2
  <2>4. Begins(a, a, Seq(S))
    BY <2>3, Zenon DEF Begins
  <2> QED
    BY <2>2, <2>4 DEF a
<1>2. 0 \in T
  <2>1. 0 \in n..Len(p) => n = 0
    OBVIOUS
  <2> QED
    BY <1>1, <2>1
<1>3. ASSUME NEW i \in T PROVE i + 1 \in T
  <2> SUFFICES ASSUME i + 1 \in n..Len(p)
               PROVE  Begins(Joined(p, n), Joined(p, i + 1), Seq(S))
    <3>1. i + 1 \in Nat
      OBVIOUS
    <3> QED
      BY <3>1
  <2>1. CASE i + 1 = n
    BY <1>1, <2>1
  <2>2. CASE i + 1 # n
    <3>1. i \in n..Len(p) /\ i \in Nat /\ i + 1 <= Len(p)
      BY <2>2
    <3>2. Begins(Joined(p, n), Joined(p, i), Seq(S))
      BY <3>1
    <3>3. p[i+1] \in Seq(S) /\ Joined(p, i + 1) = Joined(p, i) \o p[i+1]
      BY <3>1, JoinedNext
    <3>4. Begins(Joined(p, n), Joined(p, i) \o p[i+1], Seq(S))
      BY <1>1, <3>2, <3>3, BeginsLonger, Zenon
    <3> QED
      BY <3>3, <3>4
  <2> QED
    BY <2>1, <2>2
<1> HIDE DEF T
<1>4. T = Nat
  <2>1. T \subseteq Nat
    BY DEF T
  <2> QED
    BY <1>2, <1>3, <2>1, Induction
<1>5. m \in Nat /\ m \in n..Len(p)
  OBVIOUS
<1>6. Begins(Joined(p, n), Joined(p, m), Seq(S))
  BY <1>4, <1>5 DEF T
<1> QED
  BY <1>6, Zenon DEF Begins

LEMMA EndsGrow ==
  ASSUME NEW S, NEW p \in Seq(Seq(S)), NEW m \in 0..Len(p), NEW n \in 0..m
  PROVE  EndOf(p, n) \in Nat /\ EndOf(p, m) \in Nat /\ EndOf(p, n) <= EndOf(p, m)
<1>1. PICK rest \in Seq(S) : Joined(p, m) = Joined(p, n) \o rest
  BY JoinedPrefix
<1>2. n \in 0..Len(p)
  OBVIOUS
<1>3. Joined(p, n) \in Seq(S) /\ Joined(p, m) \in Seq(S)
  BY <1>2, JoinedType
<1> QED
  BY <1>1, <1>3 DEF EndOf

\* What is in a part is in the file.
LEMMA PartAt ==
  ASSUME NEW S, NEW p \in Seq(Seq(S)), NEW n \in Nat, n + 1 <= Len(p)
  PROVE  /\ EndOf(p, n) + Len(p[n+1]) <= Len(FlattenSeq(p))
         /\ \A k \in 1..Len(p[n+1]) : FlattenSeq(p)[EndOf(p, n) + k] = p[n+1][k]
<1> DEFINE a == Joined(p, n)
           b == p[n+1]
           c == Joined(p, n + 1)
<1>1. a \in Seq(S) /\ b \in Seq(S) /\ c = a \o b
  BY JoinedNext
<1>2. PICK rest \in Seq(S) : FlattenSeq(p) = c \o rest
  <2>1. Len(p) \in 0..Len(p) /\ n + 1 \in 0..Len(p)
    OBVIOUS
  <2>2. \E rest \in Seq(S) : Joined(p, Len(p)) = Joined(p, n + 1) \o rest
    BY <2>1, JoinedPrefix
  <2> QED
    BY <2>2, JoinedAll
<1> DEFINE m == Len(a)
<1>3. EndOf(p, n) = m
  BY DEF EndOf
<1> HIDE DEF a, b, c
<1>4. c \in Seq(S) /\ Len(c) = m + Len(b) /\ m \in Nat /\ Len(b) \in Nat /\ Len(rest) \in Nat
  BY <1>1
<1>5. Len(FlattenSeq(p)) = m + Len(b) + Len(rest)
  <2> HIDE DEF m
  <2>1. c \in Seq(S) /\ rest \in Seq(S)
    BY <1>4
  <2>2. Len(c \o rest) = Len(c) + Len(rest)
    BY <2>1, LengthOfBoth
  <2> QED
    BY <1>2, <1>4, <2>2
<1>6. ASSUME NEW k \in 1..Len(b) PROVE FlattenSeq(p)[m + k] = b[k]
  <2>1. c[m + k] = b[k]
    BY <1>1, <1>4, PutBehind
  <2> DEFINE i == m + k
  <2>2. i \in 1..Len(c) /\ Len(c) \in Nat
    BY <1>4
  <2> HIDE DEF i, m
  <2>3. (c \o rest)[i] = c[i]
    BY <1>4, <2>2, PutBehind
  <2> QED
    BY <1>2, <2>1, <2>3 DEF i
<1> QED
  BY <1>3, <1>4, <1>5, <1>6 DEF b

\* Every byte is in a part.
LEMMA InSomePart ==
  ASSUME NEW S, NEW p \in Seq(Seq(S)), NEW j \in 1..Len(FlattenSeq(p))
  PROVE  \E n \in 0..(Len(p) - 1) : EndOf(p, n) < j /\ j <= EndOf(p, n + 1)
<1> DEFINE T == {n \in 0..Len(p) : j <= EndOf(p, n)}
<1>0. Len(p) \in Nat /\ FlattenSeq(p) \in Seq(S) /\ j \in Nat
  <2>1. FlattenSeq(p) \in Seq(S)
    BY FlattenType
  <2> QED
    BY <2>1
<1>1. Len(p) \in T
  BY <1>0, JoinedAll
<1>2. PICK m \in T : \A n \in T : m <= n
  <2>1. T \in SUBSET Nat /\ T # {}
    BY <1>1
  <2> HIDE DEF T
  <2> QED
    BY <2>1, LeastNatural
<1>3. m # 0
  BY <1>2, JoinedAll
<1>4. m - 1 \in 0..(Len(p) - 1) /\ m - 1 \in 0..Len(p) /\ m - 1 + 1 = m
  BY <1>0, <1>3
<1>5. m - 1 \notin T
  BY <1>2, <1>4
<1>6. EndOf(p, m - 1) \in Nat
  BY <1>4, JoinedType
<1> QED
  BY <1>0, <1>2, <1>4, <1>5, <1>6

-----------------------------------------------------------------------------
(* Numbers *)

LEMMA ProductBound ==
  ASSUME NEW m \in Nat \ {0}, NEW q \in Int, q # 0
  PROVE  m * q >= m \/ m * q <= -m
<1>1. CASE q >= 1
  BY <1>1, SMTT(20)
<1>2. CASE q <= -1
  BY <1>2, SMTT(20)
<1> QED
  BY <1>1, <1>2

LEMMA Division ==
  ASSUME NEW a \in Nat, NEW m \in Nat \ {0}
  PROVE  /\ a \div m \in Int /\ a % m \in 0..(m - 1)
         /\ a = m * (a \div m) + (a % m)
BY SMTT(20)

\* A number has one remainder.
LEMMA Remainder ==
  ASSUME NEW m \in Nat \ {0}, NEW q \in Int, NEW r \in 0..(m - 1), NEW a \in Nat, a = m * q + r
  PROVE  a % m = r
<1> DEFINE d == q - (a \div m)
<1>1. d \in Int /\ m * d = m * q - m * (a \div m)
  BY Division, SMTT(20)
<1>2. m * d = (a % m) - r
  BY <1>1, Division, SMTT(30)
<1>3. d = 0
  <2> HIDE DEF d
  <2>1. a % m \in 0..(m-1)
    BY Division
  <2>2. m * d < m /\ m * d > -m
    BY <1>1, <1>2, <2>1
  <2> QED
    BY <1>1, <2>2, ProductBound
<1>4. m * d = 0
  BY <1>3
<1> HIDE DEF d
<1> QED
  BY <1>2, <1>4, Division

\* What is added may be added before the remainder is taken.
LEMMA ModStep ==
  ASSUME NEW x \in Nat, NEW k \in Nat, NEW m \in Nat \ {0}
  PROVE  ((x % m) + k) % m = (x + k) % m
<1> DEFINE q == x \div m
           b == (x % m) + k
           p == b \div m
<1>1. q \in Int /\ b \in Nat /\ x = m * q + (x % m)
  BY Division
<1>2. p \in Int /\ b % m \in 0..(m-1) /\ b = m * p + (b % m)
  <2> HIDE DEF b
  <2> QED
    BY <1>1, Division
<1>3. x + k = m * q + b
  BY <1>1, Division
<1> HIDE DEF q, b, p
<1>4. m * (q + p) = m * q + m * p
  BY <1>1, <1>2, SMTT(20)
<1>5. x + k = m * (q + p) + (b % m) /\ q + p \in Int /\ x + k \in Nat
  BY <1>1, <1>2, <1>3, <1>4
<1>6. (x + k) % m = b % m
  <2> DEFINE s == q + p
             r == b % m
             a == x + k
  <2>1. s \in Int /\ r \in 0..(m-1) /\ a \in Nat /\ a = m * s + r
    BY <1>2, <1>5
  <2> HIDE DEF s, r, a
  <2>2. a % m = r
    BY <2>1, Remainder
  <2> QED
    BY <2>2 DEF a, r
<1> QED
  BY <1>6 DEF b

LEMMA MaxOfTwo ==
  ASSUME NEW a \in Int, NEW b \in Int
  PROVE  Max({a, b}) \in Int /\ Max({a, b}) >= a /\ Max({a, b}) >= b
<1>1. \E x \in {a, b} : \A y \in {a, b} : x >= y
  OBVIOUS
<1> QED
  BY <1>1 DEF Max

\* How many of the first numbers are not in a set.
LEMMA Counting ==
  ASSUME NEW F, NEW n \in Nat
  PROVE  /\ Cardinality((1..n) \ F) \in Nat
         /\ Cardinality((1..(n + 1)) \ F)
              = Cardinality((1..n) \ F) + (IF n + 1 \in F THEN 0 ELSE 1)
<1>1. IsFiniteSet(1..n)
  BY FS_Interval
<1> DEFINE before == (1..n) \ F
           with == (1..(n + 1)) \ F
<1>2. IsFiniteSet(before)
  BY <1>1, FS_Subset
<1>3. n + 1 \in F => with = before
  OBVIOUS
<1>4. n + 1 \notin F => with = before \cup {n + 1} /\ n + 1 \notin before
  OBVIOUS
<1> HIDE DEF before, with
<1>5. Cardinality(before) \in Nat
  BY <1>2, FS_CardinalityType
<1>6. n + 1 \notin F => Cardinality(with) = Cardinality(before) + 1
  BY <1>2, <1>4, FS_AddElement
<1>7. Cardinality(with) = Cardinality(before) + (IF n + 1 \in F THEN 0 ELSE 1)
  BY <1>3, <1>5, <1>6
<1> QED
  BY <1>5, <1>7 DEF before, with
=============================================================================
