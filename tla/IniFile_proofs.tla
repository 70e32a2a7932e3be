--------------------------- MODULE IniFile_proofs ---------------------------
(***************************************************************************)
(* What survives a file, and what port the server takes from one, for any  *)
(* text, tables and files of any size.                                     *)
(*                                                                         *)
(* The inductive invariant is TableInv: a table is finite and all text,    *)
(* and no line of the file has an end of line in it, whoever wrote it.     *)
(* That is enough, since everything else holds of all such tables and      *)
(* files.  It is shown by induction over their lines, for each line by     *)
(* what trim() and the first separator leave of it:                        *)
(*   LoadedSavable  of what a line says, the table keeps savable text only *)
(*   ReadsAgree     of a table that lines are loaded into, each section is *)
(*                  Over what the lines say alone, or not Kept at all      *)
(*   ReadBack       a section that is written is a Block of lines, of      *)
(*                  which each is read as the entry it was made of         *)
(*   PortReads      behind the last "[server]", the port in the table is   *)
(*                  that of the last of the PortLines                      *)
(***************************************************************************)
EXTENDS ServerStart, SequenceLemmas

-----------------------------------------------------------------------------
(* Text: where things are, and what trim() leaves. *)

LEMMA GreatestNatural ==
  ASSUME NEW n \in Nat, NEW T \in SUBSET (1..n), T # {}
  PROVE  \E m \in T : \A k \in T : m >= k
<1> DEFINE U == {n - m : m \in T}
<1>1. U \in SUBSET Nat /\ U # {}
  <2>1. \A m \in T : n - m \in Nat
    OBVIOUS
  <2> QED
    BY <2>1
<1>2. PICK u \in U : \A v \in U : u <= v
  <2> HIDE DEF U
  <2> QED
    BY <1>1, LeastNatural
<1>3. PICK m \in T : u = n - m
  OBVIOUS
<1>4. \A k \in T : n - m <= n - k
  BY <1>2, <1>3
<1> QED
  BY <1>3, <1>4

LEMMA MinIs ==
  ASSUME NEW T \in SUBSET Nat, NEW m \in T, \A k \in T : m <= k
  PROVE  Min(T) = m
<1>1. \E x \in T : \A y \in T : x <= y
  OBVIOUS
<1>2. Min(T) \in T /\ \A y \in T : Min(T) <= y
  BY <1>1 DEF Min
<1> DEFINE x == Min(T)
<1>3. x \in Nat /\ m \in Nat /\ x <= m /\ m <= x
  BY <1>2
<1> HIDE DEF x
<1>4. x = m
  BY <1>3
<1> QED
  BY <1>4 DEF x

LEMMA MaxIs ==
  ASSUME NEW T \in SUBSET Nat, NEW m \in T, \A k \in T : m >= k
  PROVE  Max(T) = m
<1>1. \E x \in T : \A y \in T : x >= y
  OBVIOUS
<1>2. Max(T) \in T /\ \A y \in T : Max(T) >= y
  BY <1>1 DEF Max
<1> DEFINE x == Max(T)
<1>3. x \in Nat /\ m \in Nat /\ x >= m /\ m >= x
  BY <1>2
<1> HIDE DEF x
<1>4. x = m
  BY <1>3
<1> QED
  BY <1>4 DEF x

\* All that is solid in s is between a and b, and both are.
Spans(s, a, b) ==
  /\ a \in 1..Len(s) /\ b \in 1..Len(s) /\ a <= b
  /\ s[a] \notin Blank /\ s[b] \notin Blank
  /\ \A i \in 1..Len(s) : s[i] \notin Blank => a <= i /\ i <= b

LEMMA SpanExists ==
  ASSUME NEW s \in Text, \E i \in 1..Len(s) : s[i] \notin Blank
  PROVE  \E a, b \in 1..Len(s) : Spans(s, a, b)
<1> DEFINE T == {i \in 1..Len(s) : s[i] \notin Blank}
<1>1. T # {} /\ T \in SUBSET Nat /\ T \in SUBSET (1..Len(s)) /\ Len(s) \in Nat
  BY DEF Text
<1>2. PICK a \in T : \A k \in T : a <= k
  BY <1>1, LeastNatural
<1>3. PICK b \in T : \A k \in T : b >= k
  BY <1>1, GreatestNatural
<1> QED
  BY <1>2, <1>3 DEF Spans

LEMMA TrimSpan ==
  ASSUME NEW s \in Text, NEW a, NEW b, Spans(s, a, b)
  PROVE  trim(s) = SubSeq(s, a, b)
<1> DEFINE T == {i \in 1..Len(s) : s[i] \notin Blank}
<1>1. Len(s) \in Nat /\ T \in SUBSET Nat /\ a \in T /\ b \in T /\ \A k \in T : a <= k /\ b >= k
  BY DEF Spans, Text
<1>2. Min(T) = a /\ Max(T) = b /\ T # {} /\ a # 0
  BY <1>1, MinIs, MaxIs
<1> QED
  BY <1>2 DEF trim, SelectInSeq, SelectLastInSeq

LEMMA TrimBlank ==
  ASSUME NEW s \in Text, \A i \in 1..Len(s) : s[i] \in Blank
  PROVE  trim(s) = <<>>
BY DEF trim, SelectInSeq

\* trim() depends on nothing but what is between the blanks.
LEMMA TrimWithin ==
  ASSUME NEW s \in Text, NEW a \in 1..(Len(s) + 1), NEW b \in (a - 1)..Len(s),
         \A i \in 1..Len(s) : i < a \/ i > b => s[i] \in Blank
  PROVE  SubSeq(s, a, b) \in Text /\ trim(SubSeq(s, a, b)) = trim(s)
<1> DEFINE t == SubSeq(s, a, b)
<1>1. /\ t \in Text /\ Len(t) = b - a + 1 /\ Len(s) \in Nat
      /\ \A i \in 1..Len(t) : t[i] = s[a + i - 1] /\ a + i - 1 \in 1..Len(s)
  BY DEF Text
<1> HIDE DEF t
<1>2. CASE \A i \in 1..Len(s) : s[i] \in Blank
  <2>1. \A i \in 1..Len(t) : t[i] \in Blank
    BY <1>1, <1>2
  <2> QED
    BY <1>1, <1>2, <2>1, TrimBlank DEF t
<1>3. CASE \E i \in 1..Len(s) : s[i] \notin Blank
  <2>1. PICK c, d \in 1..Len(s) : Spans(s, c, d)
    BY <1>3, SpanExists
  <2>2. a <= c /\ d <= b /\ c <= d
    BY <2>1 DEF Spans
  <2> DEFINE e == c - a + 1
             f == d - a + 1
  <2>3. e \in 1..Len(t) /\ f \in 1..Len(t) /\ e <= f /\ t[e] = s[c] /\ t[f] = s[d]
    BY <1>1, <2>2
  <2>4. ASSUME NEW i \in 1..Len(t), t[i] \notin Blank PROVE e <= i /\ i <= f
    <3>1. a + i - 1 \in 1..Len(s) /\ s[a + i - 1] \notin Blank
      BY <1>1, <2>4
    <3>2. c <= a + i - 1 /\ a + i - 1 <= d
      BY <2>1, <3>1 DEF Spans
    <3> QED
      BY <1>1, <3>2
  <2>5. Spans(t, e, f)
    BY <2>1, <2>3, <2>4 DEF Spans
  <2> HIDE DEF e, f
  <2>6. trim(t) = SubSeq(t, e, f) /\ trim(s) = SubSeq(s, c, d)
    BY <1>1, <2>1, <2>5, TrimSpan
  <2>7. SubSeq(t, e, f) = SubSeq(s, c, d)
    <3> DEFINE p == SubSeq(t, e, f)
               q == SubSeq(s, c, d)
    <3>1. p \in Text /\ Len(p) = f - e + 1 /\ \A i \in 1..Len(p) : p[i] = t[e + i - 1]
      <4>1. e \in 1..Len(t) /\ f \in 1..Len(t) /\ e <= f /\ t \in Seq(Char) /\ Len(t) \in Nat
        BY <1>1, <2>3 DEF Text
      <4> QED
        BY <4>1 DEF Text
    <3>2. q \in Text /\ Len(q) = d - c + 1 /\ \A i \in 1..Len(q) : q[i] = s[c + i - 1]
      BY <1>1, <2>2 DEF Text
    <3> HIDE DEF p, q
    <3>3. Len(p) = Len(q) /\ \A i \in 1..Len(p) : p[i] = q[i]
      <4>1. Len(p) = Len(q) /\ Len(p) = d - c + 1
        BY <3>1, <3>2, <2>2 DEF e, f
      <4>2. ASSUME NEW i \in 1..Len(p) PROVE p[i] = q[i]
        <5>1. e + i - 1 \in 1..Len(t) /\ a + (e + i - 1) - 1 = c + i - 1
          BY <1>1, <2>2, <2>3, <4>1 DEF e, f
        <5> QED
          BY <1>1, <3>1, <3>2, <4>1, <5>1
      <4> QED
        BY <4>1, <4>2
    <3>4. p = q
      <4>1. p \in Seq(Char) /\ q \in Seq(Char)
        BY <3>1, <3>2 DEF Text
      <4> QED
        BY <3>3, <4>1
    <3> QED
      BY <3>4 DEF p, q
  <2> QED
    BY <1>1, <2>6, <2>7 DEF t
<1> QED
  BY <1>2, <1>3 DEF t

\* What trim() leaves is solid at both ends and made of the same characters.
LEMMA TrimmedText ==
  ASSUME NEW s \in Text
  PROVE  /\ trim(s) \in Text /\ trim(trim(s)) = trim(s)
         /\ trim(s) # <<>> => trim(s)[1] \notin Blank /\ trim(s)[Len(trim(s))] \notin Blank
         /\ \A i \in 1..Len(trim(s)) : \E j \in 1..Len(s) : trim(s)[i] = s[j]
<1>1. CASE \A i \in 1..Len(s) : s[i] \in Blank
  <2>1. trim(s) = <<>>
    BY <1>1, TrimBlank
  <2>2. <<>> \in Text /\ \A i \in 1..Len(<<>>) : <<>>[i] \in Blank
    BY DEF Text
  <2>3. trim(<<>>) = <<>>
    BY <2>2, TrimBlank
  <2> QED
    BY <2>1, <2>2, <2>3
<1>2. CASE \E i \in 1..Len(s) : s[i] \notin Blank
  <2>1. PICK a, b \in 1..Len(s) : Spans(s, a, b)
    BY <1>2, SpanExists
  <2>2. trim(s) = SubSeq(s, a, b)
    BY <2>1, TrimSpan
  <2>3. a <= b /\ s[a] \notin Blank /\ s[b] \notin Blank
        /\ \A i \in 1..Len(s) : i < a \/ i > b => s[i] \in Blank
    BY <2>1 DEF Spans
  <2>4. SubSeq(s, a, b) \in Text /\ trim(SubSeq(s, a, b)) = trim(s)
    BY <2>3, TrimWithin DEF Text
  <2>5. /\ Len(SubSeq(s, a, b)) = b - a + 1
        /\ \A i \in 1..Len(SubSeq(s, a, b)) : SubSeq(s, a, b)[i] = s[a + i - 1] /\ a + i - 1 \in 1..Len(s)
    BY <2>3 DEF Text
  <2>6. SubSeq(s, a, b)[1] = s[a] /\ SubSeq(s, a, b)[b - a + 1] = s[b]
    BY <2>3, <2>5
  <2> DEFINE t == SubSeq(s, a, b)
  <2> HIDE DEF t
  <2> QED
    BY <2>2, <2>3, <2>4, <2>5, <2>6
<1> QED
  BY <1>1, <1>2

LEMMA TrimBegins ==
  ASSUME NEW s \in Text, s # <<>>, s[1] \notin Blank
  PROVE  trim(s) # <<>> /\ trim(s)[1] = s[1]
<1>1. 1 \in 1..Len(s) /\ Len(s) \in Nat
  BY DEF Text
<1>2. PICK a, b \in 1..Len(s) : Spans(s, a, b)
  BY <1>1, SpanExists
<1>3. a = 1 /\ 1 <= b
  BY <1>1, <1>2 DEF Spans
<1>4. trim(s) = SubSeq(s, 1, b)
  BY <1>2, <1>3, TrimSpan
<1>5. SubSeq(s, 1, b) # <<>> /\ SubSeq(s, 1, b)[1] = s[1]
  BY <1>1, <1>3 DEF Text
<1> QED
  BY <1>4, <1>5

\* The characters of t are characters of s.
Within(t, s) == \A i \in 1..Len(t) : \E j \in 1..Len(s) : t[i] = s[j]

LEMMA WithinTrans ==
  ASSUME NEW t, NEW u, NEW s, Within(t, u), Within(u, s)
  PROVE  Within(t, s)
BY DEF Within

LEMMA WithinLacks ==
  ASSUME NEW t, NEW s, NEW c, Within(t, s), \A i \in 1..Len(s) : s[i] # c
  PROVE  \A i \in 1..Len(t) : t[i] # c
BY DEF Within

LEMMA TrimWhole ==
  ASSUME NEW s \in Text, trim(s) = s, s # <<>>
  PROVE  s[1] \notin Blank /\ s[Len(s)] \notin Blank
BY TrimmedText

LEMMA SubText ==
  ASSUME NEW s \in Text, NEW a \in 1..(Len(s) + 1), NEW b \in 0..Len(s)
  PROVE  SubSeq(s, a, b) \in Text /\ Within(SubSeq(s, a, b), s)
<1>1. Len(s) \in Nat /\ \A i \in a..b : s[i] \in Char
  BY DEF Text
<1>2. SubSeq(s, a, b) \in Text
  BY <1>1 DEF Text
<1>3. ASSUME NEW i \in 1..Len(SubSeq(s, a, b))
      PROVE  SubSeq(s, a, b)[i] = s[a + i - 1] /\ a + i - 1 \in 1..Len(s)
  BY <1>1 DEF Text
<1> QED
  BY <1>2, <1>3 DEF Within

-----------------------------------------------------------------------------
(* What is before and behind a character. *)

LEMMA FirstOfIs ==
  ASSUME NEW s \in Text, NEW c, NEW p \in 1..Len(s), s[p] = c, \A i \in 1..(p - 1) : s[i] # c
  PROVE  FirstOf(c, s) = p
<1> DEFINE T == {i \in 1..Len(s) : s[i] = c}
<1>1. Len(s) \in Nat /\ T \in SUBSET Nat /\ p \in T /\ \A k \in T : p <= k
  BY DEF Text
<1>2. Min(T) = p /\ T # {}
  BY <1>1, MinIs
<1> QED
  BY <1>2 DEF FirstOf, SelectInSeq

LEMMA FirstOfNone ==
  ASSUME NEW s \in Text, NEW c, \A i \in 1..Len(s) : s[i] # c
  PROVE  FirstOf(c, s) = 0
BY DEF FirstOf, SelectInSeq

LEMMA FirstOfType ==
  ASSUME NEW s \in Text, NEW c
  PROVE  /\ FirstOf(c, s) \in 0..Len(s)
         /\ FirstOf(c, s) = 0 => \A i \in 1..Len(s) : s[i] # c
         /\ FirstOf(c, s) # 0 =>
              s[FirstOf(c, s)] = c /\ \A i \in 1..(FirstOf(c, s) - 1) : s[i] # c
<1>1. Len(s) \in Nat
  BY DEF Text
<1>2. CASE \A i \in 1..Len(s) : s[i] # c
  BY <1>1, <1>2, FirstOfNone
<1>3. CASE \E i \in 1..Len(s) : s[i] = c
  <2> DEFINE T == {i \in 1..Len(s) : s[i] = c}
  <2>1. T \in SUBSET Nat /\ T # {}
    BY <1>1, <1>3
  <2>2. PICK p \in T : \A k \in T : p <= k
    BY <2>1, LeastNatural
  <2>3. p \in 1..Len(s) /\ s[p] = c /\ \A i \in 1..(p - 1) : s[i] # c
    BY <1>1, <2>2
  <2>4. FirstOf(c, s) = p
    BY <2>3, FirstOfIs
  <2> QED
    BY <1>1, <2>3, <2>4
<1> QED
  BY <1>2, <1>3

\* The text that Before() trims.
Left(c, s) == IF FirstOf(c, s) = 0 THEN s ELSE SubSeq(s, 1, FirstOf(c, s) - 1)
Right(c, s) == SubSeq(s, FirstOf(c, s) + 1, Len(s))

LEMMA LeftRight ==
  ASSUME NEW s \in Text, NEW c
  PROVE  /\ Before(c, s) = trim(Left(c, s)) /\ Behind(c, s) = trim(Right(c, s))
         /\ Left(c, s) \in Text /\ Within(Left(c, s), s)
         /\ \A i \in 1..Len(Left(c, s)) : Left(c, s)[i] # c
         /\ Right(c, s) \in Text /\ Within(Right(c, s), s)
<1>1. Before(c, s) = trim(Left(c, s)) /\ Behind(c, s) = trim(Right(c, s))
  BY DEF Before, Behind, Left, Right
<1>2. Len(s) \in Nat
  BY DEF Text
<1>3. FirstOf(c, s) \in 0..Len(s)
  BY FirstOfType
<1>4. Right(c, s) \in Text /\ Within(Right(c, s), s)
  BY <1>2, <1>3, SubText DEF Right
<1>5. CASE FirstOf(c, s) = 0
  <2>1. Left(c, s) = s
    BY <1>5 DEF Left
  <2>2. Within(s, s)
    BY DEF Within
  <2> QED
    BY <1>1, <1>4, <1>5, <2>1, <2>2, FirstOfType
<1>6. CASE FirstOf(c, s) # 0
  <2> DEFINE p == FirstOf(c, s)
  <2>1. p \in 1..Len(s) /\ \A i \in 1..(p - 1) : s[i] # c
    BY <1>3, <1>6, FirstOfType
  <2>2. Left(c, s) = SubSeq(s, 1, p - 1)
    BY <1>6 DEF Left
  <2> HIDE DEF p
  <2>3. SubSeq(s, 1, p - 1) \in Text /\ Within(SubSeq(s, 1, p - 1), s)
    <3>1. 1 \in 1..(Len(s) + 1) /\ p - 1 \in 0..Len(s)
      BY <1>2, <2>1
    <3> QED
      BY <3>1, SubText
  <2>4. \A i \in 1..Len(SubSeq(s, 1, p - 1)) : SubSeq(s, 1, p - 1)[i] = s[i] /\ i \in 1..(p - 1)
    BY <1>2, <2>1 DEF Text
  <2>5. \A i \in 1..Len(SubSeq(s, 1, p - 1)) : SubSeq(s, 1, p - 1)[i] # c
    BY <2>1, <2>4
  <2> QED
    BY <1>1, <1>4, <2>2, <2>3, <2>5
<1> QED
  BY <1>5, <1>6

LEMMA BeforeIs ==
  ASSUME NEW s \in Text, NEW c
  PROVE  /\ Before(c, s) \in Text /\ trim(Before(c, s)) = Before(c, s)
         /\ Within(Before(c, s), s) /\ FirstOf(c, Before(c, s)) = 0
<1> DEFINE t == Left(c, s)
           b == trim(t)
<1>1. Before(c, s) = b /\ t \in Text /\ Within(t, s) /\ \A i \in 1..Len(t) : t[i] # c
  BY LeftRight
<1> HIDE DEF t
<1>2. b \in Text /\ trim(b) = b /\ Within(b, t)
  BY <1>1, TrimmedText DEF Within
<1> HIDE DEF b
<1>3. \A i \in 1..Len(b) : b[i] # c
  BY <1>1, <1>2, WithinLacks
<1>4. FirstOf(c, b) = 0
  BY <1>2, <1>3, FirstOfNone
<1> QED
  BY <1>1, <1>2, <1>4, WithinTrans

LEMMA BehindIs ==
  ASSUME NEW s \in Text, NEW c
  PROVE  /\ Behind(c, s) \in Text /\ trim(Behind(c, s)) = Behind(c, s)
         /\ Within(Behind(c, s), s)
<1> DEFINE t == Right(c, s)
           b == trim(t)
<1>1. Behind(c, s) = b /\ t \in Text /\ Within(t, s)
  BY LeftRight
<1> HIDE DEF t
<1>2. b \in Text /\ trim(b) = b /\ Within(b, t)
  BY <1>1, TrimmedText DEF Within
<1> HIDE DEF b
<1> QED
  BY <1>1, <1>2, WithinTrans

\* A key begins like its line.
LEMMA BeforeBegins ==
  ASSUME NEW s \in Text, NEW c, s # <<>>, s[1] \notin Blank, Before(c, s) # <<>>
  PROVE  Before(c, s)[1] = s[1]
<1> DEFINE t == Left(c, s)
<1>1. Before(c, s) = trim(t) /\ t \in Text
  BY LeftRight
<1>2. t # <<>>
  BY <1>1, TrimBlank DEF Text
<1>3. t[1] = s[1]
  <2>1. Len(s) \in Nat /\ FirstOf(c, s) \in 0..Len(s)
    BY FirstOfType DEF Text
  <2>2. CASE FirstOf(c, s) = 0
    BY <2>2 DEF Left
  <2>3. CASE FirstOf(c, s) # 0
    <3> DEFINE p == FirstOf(c, s)
    <3>1. t = SubSeq(s, 1, p - 1) /\ p \in 1..Len(s)
      BY <2>1, <2>3 DEF Left
    <3> HIDE DEF p
    <3>2. p # 1
      <4> SUFFICES ASSUME p = 1 PROVE FALSE
        OBVIOUS
      <4>1. SubSeq(s, 1, p - 1) = <<>>
        BY <2>1, <3>1 DEF Text
      <4> QED
        BY <1>2, <3>1, <4>1
    <3>3. SubSeq(s, 1, p - 1)[1] = s[1]
      BY <2>1, <3>1, <3>2 DEF Text
    <3> QED
      BY <3>1, <3>3
  <2> QED
    BY <2>2, <2>3
<1> HIDE DEF t
<1> QED
  BY <1>1, <1>2, <1>3, TrimBegins

LEMMA SubSub ==
  ASSUME NEW s \in Text, NEW a \in 1..(Len(s) + 1), NEW b \in (a - 1)..Len(s),
         NEW c \in Nat \ {0}, NEW d \in Nat, c <= d + 1, a + d - 1 <= b
  PROVE  SubSeq(SubSeq(s, a, b), c, d) = SubSeq(s, a + c - 1, a + d - 1)
<1> DEFINE u == SubSeq(s, a, b)
           p == SubSeq(u, c, d)
           q == SubSeq(s, a + c - 1, a + d - 1)
<1>1. Len(s) \in Nat
  BY DEF Text
<1>2. u \in Text /\ Len(u) = b - a + 1 /\ \A i \in 1..Len(u) : u[i] = s[a + i - 1]
  BY <1>1 DEF Text
<1>3. q \in Text /\ Len(q) = d - c + 1 /\ \A i \in 1..(d - c + 1) : q[i] = s[a + c - 1 + i - 1]
  <2> DEFINE e == a + c - 1
             f == a + d - 1
  <2>1. e \in 1..(Len(s) + 1) /\ f \in (e - 1)..Len(s) /\ f - e = d - c
    BY <1>1
  <2> HIDE DEF e, f
  <2>2. SubSeq(s, e, f) \in Text /\ Len(SubSeq(s, e, f)) = f - e + 1
        /\ \A i \in 1..(f - e + 1) : SubSeq(s, e, f)[i] = s[e + i - 1]
    BY <1>1, <2>1 DEF Text
  <2> QED
    BY <2>1, <2>2 DEF e, f
<1> HIDE DEF u
<1>4. p \in Text /\ Len(p) = d - c + 1 /\ \A i \in 1..(d - c + 1) : p[i] = u[c + i - 1]
  <2>1. Len(u) \in Nat /\ c \in 1..(Len(u) + 1) /\ d \in (c - 1)..Len(u)
    BY <1>1, <1>2
  <2> QED
    BY <1>2, <2>1 DEF Text
<1> HIDE DEF p, q
<1>5. ASSUME NEW i \in 1..(d - c + 1) PROVE p[i] = q[i]
  <2>1. c + i - 1 \in 1..Len(u) /\ a + (c + i - 1) - 1 = a + c - 1 + i - 1
    BY <1>1, <1>2
  <2>2. u[c + i - 1] = s[a + (c + i - 1) - 1]
    BY <1>2, <2>1
  <2> QED
    BY <1>3, <1>4, <2>1, <2>2
<1>6. p = q
  BY <1>3, <1>4, <1>5 DEF Text
<1> QED
  BY <1>6 DEF p, q, u

\* It makes no difference whether a line is trimmed before it is taken apart.
LEMMA TrimmedFirst ==
  ASSUME NEW s \in Text, NEW c, c \notin Blank
  PROVE  Before(c, trim(s)) = Before(c, s) /\ Behind(c, trim(s)) = Behind(c, s)
<1> DEFINE t == trim(s)
<1>1. t \in Text /\ trim(t) = trim(s) /\ Within(t, s) /\ Len(s) \in Nat /\ Len(t) \in Nat
  BY TrimmedText DEF Within, Text
<1>2. CASE FirstOf(c, s) = 0
  <2> HIDE DEF t
  <2>1. FirstOf(c, t) = 0
    <3>1. \A i \in 1..Len(s) : s[i] # c
      BY <1>2, FirstOfType
    <3>2. \A i \in 1..Len(t) : t[i] # c
      BY <1>1, <3>1, WithinLacks
    <3> QED
      BY <1>1, <3>2, FirstOfNone
  <2>2. SubSeq(s, 1, Len(s)) = s /\ SubSeq(t, 1, Len(t)) = t
    BY <1>1 DEF Text
  <2>3. Before(c, t) = trim(t) /\ Before(c, s) = trim(s)
    BY <1>2, <2>1 DEF Before
  <2>4. Behind(c, t) = trim(t) /\ Behind(c, s) = trim(s)
    <3>1. 0 + 1 = 1
      OBVIOUS
    <3> QED
      BY <1>2, <2>1, <2>2, <3>1 DEF Behind
  <2> QED
    BY <1>1, <2>3, <2>4 DEF t
<1>3. CASE FirstOf(c, s) # 0
  <2> DEFINE p == FirstOf(c, s)
  <2>1. p \in 1..Len(s) /\ s[p] = c /\ \A i \in 1..(p - 1) : s[i] # c
    BY <1>1, <1>3, FirstOfType
  <2>2. PICK a, b \in 1..Len(s) : Spans(s, a, b)
    BY <2>1, SpanExists
  <2>3. a <= p /\ p <= b /\ \A i \in 1..Len(s) : i < a \/ i > b => s[i] \in Blank
    BY <2>1, <2>2 DEF Spans
  <2> DEFINE q == p - a + 1
  <2> HIDE DEF p
  <2>4. t = SubSeq(s, a, b)
    BY <2>2, TrimSpan
  <2>5. Len(t) = b - a + 1 /\ \A i \in 1..Len(t) : t[i] = s[a + i - 1]
    <3>1. /\ Len(SubSeq(s, a, b)) = b - a + 1
          /\ \A i \in 1..(b - a + 1) : SubSeq(s, a, b)[i] = s[a + i - 1]
      BY <1>1, <2>1, <2>3 DEF Text
    <3> HIDE DEF t
    <3> QED
      BY <2>4, <3>1
  <2> HIDE DEF t
  <2>6. FirstOf(c, t) = q
    <3>1. q \in 1..Len(t) /\ t[q] = c
      BY <1>1, <2>1, <2>3, <2>5
    <3>2. ASSUME NEW i \in 1..(q - 1) PROVE t[i] # c
      <4>1. i \in 1..Len(t) /\ a + i - 1 \in 1..(p - 1)
        BY <1>1, <2>1, <2>3, <2>5
      <4> QED
        BY <2>1, <2>5, <4>1
    <3> HIDE DEF q
    <3> QED
      BY <1>1, <3>1, <3>2, FirstOfIs
  <2>7. trim(Left(c, t)) = trim(Left(c, s))
    <3> DEFINE u == SubSeq(s, 1, p - 1)
    <3>1. Left(c, s) = u /\ Left(c, t) = SubSeq(t, 1, q - 1)
      BY <1>3, <2>1, <2>3, <2>6 DEF Left, p
    <3>2. u \in Text /\ Len(u) = p - 1 /\ \A i \in 1..Len(u) : u[i] = s[i]
      BY <1>1, <2>1 DEF Text
    <3>3. SubSeq(t, 1, q - 1) = SubSeq(s, a, p - 1)
      <4>1. a \in 1..(Len(s) + 1) /\ b \in (a - 1)..Len(s) /\ q - 1 \in Nat /\ a + (q - 1) - 1 <= b
            /\ a + (q - 1) - 1 = p - 1 /\ a + 1 - 1 = a
        BY <1>1, <2>1, <2>3
      <4>2. SubSeq(SubSeq(s, a, b), 1, q - 1) = SubSeq(s, a + 1 - 1, a + (q - 1) - 1)
        <5> DEFINE f == q - 1
        <5>1. /\ a \in 1..(Len(s) + 1) /\ b \in (a - 1)..Len(s)
              /\ 1 \in Nat \ {0} /\ f \in Nat /\ 1 <= f + 1 /\ a + f - 1 <= b
              /\ a + q - 1 - 1 = a + f - 1
          BY <1>1, <2>1, <2>3, <2>5, <4>1
        <5> HIDE DEF f
        <5>2. SubSeq(SubSeq(s, a, b), 1, f) = SubSeq(s, a + 1 - 1, a + f - 1)
          BY <5>1, SubSub
        <5>3. SubSeq(SubSeq(s, a, b), 1, f) = SubSeq(s, a + 1 - 1, a + q - 1 - 1)
          BY <5>1, <5>2
        <5> QED
          BY <5>3 DEF f
      <4> QED
        BY <2>4, <4>1, <4>2
    <3>4. SubSeq(u, a, p - 1) = SubSeq(s, a, p - 1)
      <4>1. 1 \in 1..(Len(s) + 1) /\ p - 1 \in (1 - 1)..Len(s) /\ a \in Nat \ {0} /\ p - 1 \in Nat
            /\ a <= (p - 1) + 1 /\ 1 + (p - 1) - 1 <= p - 1
            /\ 1 + a - 1 = a /\ 1 + (p - 1) - 1 = p - 1
        BY <1>1, <2>1, <2>3
      <4>2. SubSeq(SubSeq(s, 1, p - 1), a, p - 1) = SubSeq(s, 1 + a - 1, 1 + (p - 1) - 1)
        BY <4>1, SubSub
      <4> QED
        BY <4>1, <4>2
    <3> HIDE DEF u
    <3>5. trim(SubSeq(u, a, p - 1)) = trim(u)
      <4>1. a \in 1..(Len(u) + 1) /\ p - 1 \in (a - 1)..Len(u)
        BY <1>1, <2>1, <2>3, <3>2
      <4>2. ASSUME NEW i \in 1..Len(u), i < a \/ i > p - 1 PROVE u[i] \in Blank
        <5>1. i \in 1..Len(s) /\ u[i] = s[i] /\ i < a
          BY <1>1, <2>1, <2>3, <3>2, <4>2
        <5> QED
          BY <2>3, <5>1
      <4> QED
        BY <3>2, <4>1, <4>2, TrimWithin
    <3> QED
      BY <3>1, <3>3, <3>4, <3>5
  <2>8. trim(Right(c, t)) = trim(Right(c, s))
    <3> DEFINE u == SubSeq(s, p + 1, Len(s))
    <3>1. Right(c, s) = u /\ Right(c, t) = SubSeq(t, q + 1, Len(t))
      BY <2>6 DEF Right, p
    <3>2. u \in Text /\ Len(u) = Len(s) - p /\ \A i \in 1..Len(u) : u[i] = s[p + i]
      <4>1. p + 1 \in 1..(Len(s) + 1) /\ Len(s) \in Nat
        BY <1>1, <2>1
      <4>2. u \in Text /\ Len(u) = Len(s) - p /\ \A i \in 1..Len(u) : u[i] = s[p + 1 + i - 1]
        BY <4>1, <2>1 DEF Text
      <4>3. \A i \in 1..Len(u) : p + 1 + i - 1 = p + i
        BY <2>1, <4>2, <4>1
      <4> HIDE DEF u
      <4> QED
        BY <4>2, <4>3
    <3>3. SubSeq(t, q + 1, Len(t)) = SubSeq(s, p + 1, b)
      <4>1. /\ a \in 1..(Len(s) + 1) /\ b \in (a - 1)..Len(s)
            /\ q + 1 \in Nat \ {0} /\ Len(t) \in Nat /\ q + 1 <= Len(t) + 1
            /\ a + Len(t) - 1 <= b /\ a + Len(t) - 1 = b /\ a + (q + 1) - 1 = p + 1
        BY <1>1, <2>1, <2>3, <2>5
      <4>2. SubSeq(SubSeq(s, a, b), q + 1, Len(t)) = SubSeq(s, a + (q + 1) - 1, a + Len(t) - 1)
        <5> DEFINE e == q + 1
                   f == Len(t)
        <5>1. /\ a \in 1..(Len(s) + 1) /\ b \in (a - 1)..Len(s)
              /\ e \in Nat \ {0} /\ f \in Nat /\ e <= f + 1 /\ a + f - 1 <= b
          BY <4>1
        <5> HIDE DEF e, f
        <5>2. SubSeq(SubSeq(s, a, b), e, f) = SubSeq(s, a + e - 1, a + f - 1)
          BY <5>1, SubSub
        <5> QED
          BY <5>2 DEF e, f
      <4> QED
        BY <2>4, <4>1, <4>2
    <3>4. SubSeq(u, 1, b - p) = SubSeq(s, p + 1, b)
      <4>1. /\ p + 1 \in 1..(Len(s) + 1) /\ Len(s) \in ((p + 1) - 1)..Len(s)
            /\ b - p \in Nat /\ 1 <= (b - p) + 1 /\ (p + 1) + (b - p) - 1 <= Len(s)
            /\ (p + 1) + 1 - 1 = p + 1 /\ (p + 1) + (b - p) - 1 = b
        BY <1>1, <2>1, <2>3
      <4>2. SubSeq(SubSeq(s, p + 1, Len(s)), 1, b - p) = SubSeq(s, (p + 1) + 1 - 1, (p + 1) + (b - p) - 1)
        <5> DEFINE e == p + 1
                   f == Len(s)
                   g == b - p
        <5>1. /\ e \in 1..(Len(s) + 1) /\ f \in (e - 1)..Len(s)
              /\ g \in Nat /\ 1 <= g + 1 /\ e + g - 1 <= f /\ 1 \in Nat \ {0}
          BY <4>1
        <5> HIDE DEF e, f, g
        <5>2. SubSeq(SubSeq(s, e, f), 1, g) = SubSeq(s, e + 1 - 1, e + g - 1)
          BY <5>1, SubSub
        <5> QED
          BY <5>2 DEF e, f, g
      <4> QED
        BY <4>1, <4>2
    <3> HIDE DEF u
    <3>5. trim(SubSeq(u, 1, b - p)) = trim(u)
      <4>1. 1 \in 1..(Len(u) + 1) /\ b - p \in (1 - 1)..Len(u)
        BY <1>1, <2>1, <2>3, <3>2
      <4>2. ASSUME NEW i \in 1..Len(u), i < 1 \/ i > b - p PROVE u[i] \in Blank
        <5>1. p + i \in 1..Len(s) /\ p + i > b
          BY <1>1, <2>1, <2>3, <3>2, <4>2
        <5> QED
          BY <2>3, <3>2, <5>1
      <4> QED
        BY <3>2, <4>1, <4>2, TrimWithin
    <3> QED
      BY <3>1, <3>3, <3>4, <3>5
  <2> QED
    BY <1>1, <2>7, <2>8, LeftRight DEF t
<1> QED
  BY <1>2, <1>3

-----------------------------------------------------------------------------
(* Reading a file line by line. *)

\* f has the states after the first n lines.
Reads(f, table, lines, n) ==
  f = [i \in 0..n |->
        IF i = 0 THEN [table |-> table, in |-> <<>>] ELSE LoadLine(f[i-1], lines[i])]

LEMMA ReadsExists ==
  ASSUME NEW table, NEW lines, NEW n \in Nat
  PROVE  \E f : Reads(f, table, lines, n)
<1> DEFINE T == {m \in Nat : \E f : Reads(f, table, lines, m)}
           base == [table |-> table, in |-> <<>>]
<1>1. 0 \in T
  <2> DEFINE f == [i \in 0..0 |-> base]
  <2>1. f = [i \in 0..0 |-> IF i = 0 THEN base ELSE LoadLine(f[i-1], lines[i])]
    <3>1. \A i \in 0..0 : i = 0
      OBVIOUS
    <3> HIDE DEF base
    <3> QED
      BY <3>1
  <2>2. Reads(f, table, lines, 0)
    BY <2>1 DEF Reads
  <2> QED
    BY <2>2
<1>2. ASSUME NEW m \in T PROVE m + 1 \in T
  <2>1. PICK f : Reads(f, table, lines, m)
    OBVIOUS
  <2> DEFINE next == LoadLine(f[m], lines[m+1])
             g == [i \in 0..m+1 |-> IF i <= m THEN f[i] ELSE next]
  <2> HIDE DEF base
  <2>2. /\ f[0] = base
        /\ \A i \in 0..m : i # 0 => f[i] = LoadLine(f[i-1], lines[i])
    <3>1. \A i \in 0..m : f[i] = IF i = 0 THEN base ELSE LoadLine(f[i-1], lines[i])
      BY <2>1 DEF Reads, base
    <3>2. 0 \in 0..m
      OBVIOUS
    <3> QED
      BY <3>1, <3>2
  <2>3. /\ \A i \in 0..m : g[i] = f[i] /\ (i # 0 => g[i-1] = f[i-1])
        /\ g[m+1] = next /\ g[m] = f[m]
    OBVIOUS
  <2>4. g = [i \in 0..m+1 |-> g[i]]
    OBVIOUS
  <2> HIDE DEF g, next
  <2>5. \A i \in 0..m+1 : g[i] = IF i = 0 THEN base ELSE LoadLine(g[i-1], lines[i])
    <3> TAKE i \in 0..m+1
    <3>1. CASE i \in 0..m
      <4>1. g[i] = f[i] /\ (i # 0 => g[i-1] = f[i-1])
        BY <2>3, <3>1
      <4>2. i # 0 => f[i] = LoadLine(f[i-1], lines[i])
        BY <2>2, <3>1
      <4> QED
        BY <2>2, <4>1, <4>2
    <3>2. CASE i = m + 1
      <4>1. i # 0 /\ i - 1 = m
        BY <3>2
      <4>2. g[i] = LoadLine(f[m], lines[i]) /\ g[i-1] = f[m]
        BY <2>3, <3>2, <4>1 DEF next
      <4> QED
        BY <4>1, <4>2
    <3> QED
      BY <3>1, <3>2
  <2>6. Reads(g, table, lines, m+1)
    BY <2>4, <2>5 DEF Reads, base
  <2> QED
    BY <2>6
<1> HIDE DEF T
<1>3. T = Nat
  <2>1. T \subseteq Nat
    BY DEF T
  <2> QED
    BY <1>1, <1>2, <2>1, Induction
<1> QED
  BY <1>3 DEF T

\* The state before the first line, and how one line changes it.
LEMMA LineByLine ==
  ASSUME NEW table, NEW lines, Len(lines) \in Nat
  PROVE  /\ AfterLines(table, lines)[0] = [table |-> table, in |-> <<>>]
         /\ \A i \in 1..Len(lines) :
              AfterLines(table, lines)[i] = LoadLine(AfterLines(table, lines)[i-1], lines[i])
<1> DEFINE f == CHOOSE f : Reads(f, table, lines, Len(lines))
<1>1. Reads(f, table, lines, Len(lines))
  BY ReadsExists
<1>2. AfterLines(table, lines) = f
  BY Zenon DEF AfterLines, Reads
<1> HIDE DEF f
<1>3. \A i \in 0..Len(lines) :
        f[i] = IF i = 0 THEN [table |-> table, in |-> <<>>] ELSE LoadLine(f[i-1], lines[i])
  BY <1>1, Zenon DEF Reads
<1>4. 0 \in 0..Len(lines) /\ \A i \in 1..Len(lines) : i \in 0..Len(lines) /\ i # 0
  OBVIOUS
<1> QED
  BY <1>2, <1>3, <1>4

-----------------------------------------------------------------------------
(* Writing a file. *)

\* One more character of a file.
Put(lines, c) ==
  IF c = "\n" THEN Append(lines, <<>>) ELSE [lines EXCEPT ![Len(lines)] = Append(@, c)]

\* f has the lines of the first n characters.
Cuts(f, text, n) == f = [i \in 0..n |-> IF i = 0 THEN << <<>> >> ELSE Put(f[i-1], text[i])]

LEMMA CutsExists ==
  ASSUME NEW text, NEW n \in Nat
  PROVE  \E f : Cuts(f, text, n)
<1> DEFINE T == {m \in Nat : \E f : Cuts(f, text, m)}
           base == << <<>> >>
<1>1. 0 \in T
  <2> DEFINE f == [i \in 0..0 |-> base]
  <2>1. f = [i \in 0..0 |-> IF i = 0 THEN base ELSE Put(f[i-1], text[i])]
    <3>1. \A i \in 0..0 : i = 0
      OBVIOUS
    <3> HIDE DEF base
    <3> QED
      BY <3>1
  <2>2. Cuts(f, text, 0)
    BY <2>1 DEF Cuts
  <2> QED
    BY <2>2
<1>2. ASSUME NEW m \in T PROVE m + 1 \in T
  <2>1. PICK f : Cuts(f, text, m)
    OBVIOUS
  <2> DEFINE next == Put(f[m], text[m+1])
             g == [i \in 0..m+1 |-> IF i <= m THEN f[i] ELSE next]
  <2> HIDE DEF base
  <2>2. /\ f[0] = base
        /\ \A i \in 0..m : i # 0 => f[i] = Put(f[i-1], text[i])
    <3>1. \A i \in 0..m : f[i] = IF i = 0 THEN base ELSE Put(f[i-1], text[i])
      BY <2>1 DEF Cuts, base
    <3>2. 0 \in 0..m
      OBVIOUS
    <3> QED
      BY <3>1, <3>2
  <2>3. /\ \A i \in 0..m : g[i] = f[i] /\ (i # 0 => g[i-1] = f[i-1])
        /\ g[m+1] = next /\ g[m] = f[m]
    OBVIOUS
  <2>4. g = [i \in 0..m+1 |-> g[i]]
    OBVIOUS
  <2> HIDE DEF g, next
  <2>5. \A i \in 0..m+1 : g[i] = IF i = 0 THEN base ELSE Put(g[i-1], text[i])
    <3> TAKE i \in 0..m+1
    <3>1. CASE i \in 0..m
      <4>1. g[i] = f[i] /\ (i # 0 => g[i-1] = f[i-1])
        BY <2>3, <3>1
      <4>2. i # 0 => f[i] = Put(f[i-1], text[i])
        BY <2>2, <3>1
      <4> QED
        BY <2>2, <4>1, <4>2
    <3>2. CASE i = m + 1
      <4>1. i # 0 /\ i - 1 = m
        BY <3>2
      <4>2. g[i] = Put(f[m], text[i]) /\ g[i-1] = f[m]
        BY <2>3, <3>2, <4>1 DEF next
      <4> QED
        BY <4>1, <4>2
    <3> QED
      BY <3>1, <3>2
  <2>6. Cuts(g, text, m+1)
    BY <2>4, <2>5 DEF Cuts, base
  <2> QED
    BY <2>6
<1> HIDE DEF T
<1>3. T = Nat
  <2>1. T \subseteq Nat
    BY DEF T
  <2> QED
    BY <1>1, <1>2, <2>1, Induction
<1> QED
  BY <1>3 DEF T

LEMMA CharByChar ==
  ASSUME NEW text, Len(text) \in Nat
  PROVE  \E f : /\ f[0] = << <<>> >> /\ Split(text) = f[Len(text)]
               /\ \A i \in 1..Len(text) : f[i] = Put(f[i-1], text[i])
<1> DEFINE f == CHOOSE f : Cuts(f, text, Len(text))
<1>1. Cuts(f, text, Len(text))
  BY CutsExists
<1>2. Split(text) = f[Len(text)]
  BY Zenon DEF Split, Cuts, Put
<1> HIDE DEF f
<1>3. \A i \in 0..Len(text) : f[i] = IF i = 0 THEN << <<>> >> ELSE Put(f[i-1], text[i])
  BY <1>1, Zenon DEF Cuts
<1>4. 0 \in 0..Len(text) /\ \A i \in 1..Len(text) : i \in 0..Len(text) /\ i # 0
  OBVIOUS
<1>5. f[0] = << <<>> >> /\ \A i \in 1..Len(text) : f[i] = Put(f[i-1], text[i])
  BY <1>3, <1>4
<1> QED
  BY <1>2, <1>5

\* A line has no end of line in it.
Line == {l \in Text : \A i \in 1..Len(l) : l[i] # "\n"}

LEMMA PutType ==
  ASSUME NEW ls \in Seq(Line), ls # <<>>, NEW c \in Char
  PROVE  Put(ls, c) \in Seq(Line) /\ Put(ls, c) # <<>>
<1>1. CASE c = "\n"
  <2>1. <<>> \in Line
    BY DEF Line, Text
  <2>2. Append(ls, <<>>) \in Seq(Line) /\ Append(ls, <<>>) # <<>>
    BY <2>1
  <2> QED
    BY <1>1, <2>2 DEF Put
<1>2. CASE c # "\n"
  <2> DEFINE n == Len(ls)
             l == Append(ls[n], c)
  <2>1. n \in Nat /\ n \in 1..Len(ls) /\ ls[n] \in Line
    OBVIOUS
  <2>2. l \in Line
    <3>1. ls[n] \in Seq(Char) /\ \A i \in 1..Len(ls[n]) : ls[n][i] # "\n"
      BY <2>1 DEF Line, Text
    <3>2. l \in Seq(Char) /\ \A i \in 1..Len(l) : l[i] # "\n"
      BY <1>2, <3>1
    <3> QED
      BY <3>2 DEF Line, Text
  <2> HIDE DEF l, n
  <2>3. [ls EXCEPT ![n] = l] \in Seq(Line) /\ [ls EXCEPT ![n] = l] # <<>>
    BY <2>1, <2>2
  <2> QED
    BY <1>2, <2>3 DEF Put, l, n
<1> QED
  BY <1>1, <1>2

LEMMA SplitType ==
  ASSUME NEW s \in Text
  PROVE  Split(s) \in Seq(Line)
<1>0. Len(s) \in Nat /\ \A i \in 1..Len(s) : s[i] \in Char
  BY DEF Text
<1>1. PICK f : /\ f[0] = << <<>> >> /\ Split(s) = f[Len(s)]
               /\ \A i \in 1..Len(s) : f[i] = Put(f[i-1], s[i])
  BY <1>0, CharByChar
<1> DEFINE T == {i \in Nat : i \in 0..Len(s) => f[i] \in Seq(Line) /\ f[i] # <<>>}
<1>2. 0 \in T
  <2>1. <<>> \in Line
    BY DEF Line, Text
  <2>2. << <<>> >> \in Seq(Line) /\ << <<>> >> # <<>>
    BY <2>1
  <2> QED
    BY <1>1, <2>2
<1>3. ASSUME NEW i \in T PROVE i + 1 \in T
  <2> SUFFICES ASSUME i + 1 \in 0..Len(s) PROVE f[i+1] \in Seq(Line) /\ f[i+1] # <<>>
    OBVIOUS
  <2>1. i + 1 \in 1..Len(s) /\ i \in 0..Len(s) /\ (i + 1) - 1 = i
    BY <1>0
  <2>2. f[i+1] = Put(f[i], s[i+1]) /\ f[i] \in Seq(Line) /\ f[i] # <<>> /\ s[i+1] \in Char
    BY <1>0, <1>1, <2>1
  <2> QED
    BY <2>2, PutType
<1> HIDE DEF T
<1>4. T = Nat
  <2>1. T \subseteq Nat
    BY DEF T
  <2> QED
    BY <1>2, <1>3, <2>1, Induction
<1>5. Len(s) \in T /\ Len(s) \in 0..Len(s)
  BY <1>0, <1>4
<1> QED
  BY <1>1, <1>5 DEF T

LEMMA SplitLine ==
  ASSUME NEW s \in Line
  PROVE  Split(s) = <<s>>
<1>0. s \in Text /\ Len(s) \in Nat /\ \A i \in 1..Len(s) : s[i] \in Char /\ s[i] # "\n"
  BY DEF Line, Text
<1>1. PICK f : /\ f[0] = << <<>> >> /\ Split(s) = f[Len(s)]
               /\ \A i \in 1..Len(s) : f[i] = Put(f[i-1], s[i])
  BY <1>0, CharByChar
<1> DEFINE T == {i \in Nat : i \in 0..Len(s) => f[i] = <<SubSeq(s, 1, i)>>}
<1>2. 0 \in T
  <2>1. SubSeq(s, 1, 0) = <<>>
    BY <1>0 DEF Text
  <2> QED
    BY <1>1, <2>1
<1>3. ASSUME NEW i \in T PROVE i + 1 \in T
  <2> SUFFICES ASSUME i + 1 \in 0..Len(s) PROVE f[i+1] = <<SubSeq(s, 1, i + 1)>>
    OBVIOUS
  <2>1. i + 1 \in 1..Len(s) /\ i \in 0..Len(s) /\ (i + 1) - 1 = i
    BY <1>0
  <2>2. f[i+1] = Put(f[i], s[i+1]) /\ f[i] = <<SubSeq(s, 1, i)>> /\ s[i+1] # "\n"
    BY <1>0, <1>1, <2>1
  <2>3. SubSeq(s, 1, i + 1) = Append(SubSeq(s, 1, i), s[i+1])
    BY <1>0, <2>1 DEF Text
  <2> DEFINE a == SubSeq(s, 1, i)
             b == Append(a, s[i+1])
  <2> HIDE DEF a, b
  <2>4. [<<a>> EXCEPT ![1] = b] = <<b>> /\ Len(<<a>>) = 1 /\ <<a>>[1] = a
    OBVIOUS
  <2>5. Put(<<a>>, s[i+1]) = <<b>>
    BY <2>2, <2>4 DEF Put, b
  <2> QED
    BY <2>2, <2>3, <2>5 DEF a, b
<1> HIDE DEF T
<1>4. T = Nat
  <2>1. T \subseteq Nat
    BY DEF T
  <2> QED
    BY <1>2, <1>3, <2>1, Induction
<1>5. Len(s) \in T /\ Len(s) \in 0..Len(s)
  BY <1>0, <1>4
<1>6. SubSeq(s, 1, Len(s)) = s
  BY <1>0 DEF Text
<1> QED
  BY <1>1, <1>5, <1>6 DEF T

LEMMA LinesType ==
  ASSUME NEW texts \in Seq(Text)
  PROVE  Lines(texts) \in Seq(Line)
<1> DEFINE p == [i \in DOMAIN texts |-> Split(texts[i])]
           n == Len(texts)
<1>1. n \in Nat /\ DOMAIN texts = 1..n /\ \A i \in 1..n : texts[i] \in Text
  OBVIOUS
<1>2. p \in Seq(Seq(Line))
  <2>1. \A i \in 1..n : Split(texts[i]) \in Seq(Line)
    BY <1>1, SplitType
  <2>2. p = [i \in 1..n |-> Split(texts[i])]
    BY <1>1
  <2> HIDE DEF n, p
  <2> QED
    BY <1>1, <2>1, <2>2
<1> HIDE DEF p
<1>3. FlattenSeq(p) \in Seq(Line)
  BY <1>2, FlattenType
<1> QED
  BY <1>3 DEF Lines, p

\* Texts without an end of line are the lines that are read.
LEMMA LinesSame ==
  ASSUME NEW texts \in Seq(Line)
  PROVE  Lines(texts) = texts
<1> DEFINE p == [i \in DOMAIN texts |-> Split(texts[i])]
           n == Len(texts)
<1>1. n \in Nat /\ DOMAIN texts = 1..n /\ \A i \in 1..n : texts[i] \in Line
  OBVIOUS
<1>2. /\ p \in Seq(Seq(Line)) /\ Len(p) = n /\ \A i \in 1..n : p[i] = <<texts[i]>>
  <2>1. ASSUME NEW i \in 1..n PROVE Split(texts[i]) = <<texts[i]>> /\ Split(texts[i]) \in Seq(Line)
    <3>1. texts[i] \in Line
      BY <1>1
    <3>2. Split(texts[i]) = <<texts[i]>>
      BY <3>1, SplitLine
    <3>3. <<texts[i]>> \in Seq(Line)
      BY <3>1
    <3> QED
      BY <3>2, <3>3
  <2>2. p = [i \in 1..n |-> Split(texts[i])]
    BY <1>1
  <2> HIDE DEF n, p
  <2> QED
    BY <1>1, <2>1, <2>2
<1> DEFINE T == {i \in Nat : i \in 0..n => Joined(p, i) = SubSeq(texts, 1, i)}
<1> HIDE DEF p
<1>3. 0 \in T
  <2>1. SubSeq(texts, 1, 0) = <<>> /\ SubSeq(p, 1, 0) = <<>>
    BY <1>2
  <2>2. FlattenSeq(<<>>) = <<>>
    BY DEF FlattenSeq
  <2> QED
    BY <2>1, <2>2 DEF Joined
<1>4. ASSUME NEW i \in T PROVE i + 1 \in T
  <2> SUFFICES ASSUME i + 1 \in 0..n PROVE Joined(p, i + 1) = SubSeq(texts, 1, i + 1)
    OBVIOUS
  <2>1. i \in Nat /\ i + 1 <= n /\ i \in 0..n /\ i + 1 \in 1..n
    BY <1>1
  <2>2. Joined(p, i + 1) = Joined(p, i) \o p[i+1]
    BY <1>2, <2>1, JoinedNext
  <2>3. Joined(p, i) = SubSeq(texts, 1, i) /\ p[i+1] = <<texts[i+1]>>
    BY <1>2, <2>1
  <2>4. SubSeq(texts, 1, i + 1) = SubSeq(texts, 1, i) \o <<texts[i+1]>>
    BY <2>1
  <2> QED
    BY <2>2, <2>3, <2>4
<1> HIDE DEF T
<1>5. T = Nat
  <2>1. T \subseteq Nat
    BY DEF T
  <2> QED
    BY <1>3, <1>4, <2>1, Induction
<1>6. Joined(p, n) = SubSeq(texts, 1, n)
  BY <1>1, <1>5 DEF T
<1>7. SubSeq(texts, 1, n) = texts
  OBVIOUS
<1>8. Joined(p, n) = FlattenSeq(p)
  BY <1>2, JoinedAll
<1> QED
  BY <1>6, <1>7, <1>8 DEF Lines, p

-----------------------------------------------------------------------------
(* Tables *)

\* Functions of texts, of which there are finitely many.
IsFcn(f) == f = [x \in DOMAIN f |-> f[x]]
IsEntries(e) ==
  /\ IsFcn(e) /\ DOMAIN e \subseteq Text /\ IsFiniteSet(DOMAIN e)
  /\ \A k \in DOMAIN e : e[k] \in Text
IsTable(t) ==
  /\ IsFcn(t) /\ DOMAIN t \subseteq Text /\ IsFiniteSet(DOMAIN t)
  /\ \A s \in DOMAIN t : IsEntries(t[s])

LEMMA WithIs ==
  ASSUME NEW f, NEW x, NEW e
  PROVE  /\ IsFcn(With(f, x, e)) /\ DOMAIN With(f, x, e) = DOMAIN f \cup {x}
         /\ With(f, x, e)[x] = e
         /\ \A y \in DOMAIN f : y # x => With(f, x, e)[y] = f[y]
BY DEF With, IsFcn

LEMMA WithEntriesType ==
  ASSUME NEW e, IsEntries(e), NEW k \in Text, NEW v \in Text
  PROVE  IsEntries(With(e, k, v))
<1> DEFINE w == With(e, k, v)
<1>1. IsFiniteSet(DOMAIN e \cup {k})
  BY FS_AddElement DEF IsEntries
<1>2. /\ IsFcn(w) /\ DOMAIN w = DOMAIN e \cup {k} /\ w[k] = v
      /\ \A y \in DOMAIN e : y # k => w[y] = e[y]
  BY DEF With, IsFcn
<1> HIDE DEF w
<1>3. IsEntries(w)
  BY <1>1, <1>2 DEF IsEntries
<1> QED
  BY <1>3 DEF w

LEMMA WithTableType ==
  ASSUME NEW t, IsTable(t), NEW s \in Text, NEW e, IsEntries(e)
  PROVE  IsTable(With(t, s, e))
<1>1. IsFiniteSet(DOMAIN t \cup {s})
  BY FS_AddElement DEF IsTable
<1> DEFINE w == With(t, s, e)
<1>2. /\ IsFcn(w) /\ DOMAIN w = DOMAIN t \cup {s} /\ w[s] = e
      /\ \A y \in DOMAIN t : y # s => w[y] = t[y]
  BY DEF With, IsFcn
<1> HIDE DEF w
<1>3. IsTable(w)
  BY <1>1, <1>2 DEF IsTable
<1> QED
  BY <1>3 DEF w

LEMMA EmptyIs ==
  DOMAIN Empty = {} /\ IsFcn(Empty) /\ IsEntries(Empty) /\ IsTable(Empty)
<1>1. DOMAIN Empty = {} /\ IsFcn(Empty)
  BY DEF Empty, IsFcn
<1> QED
  BY <1>1, FS_EmptySet DEF IsEntries, IsTable

LEMMA SectionType ==
  ASSUME NEW t, IsTable(t), NEW s
  PROVE  IsEntries(Section(t, s))
BY EmptyIs DEF Section, IsTable

LEMMA WithEntryType ==
  ASSUME NEW t, IsTable(t), NEW s \in Text, NEW k \in Text, NEW v \in Text
  PROVE  IsTable(WithEntry(t, s, k, v))
<1>1. IsEntries(With(Section(t, s), k, v))
  BY SectionType, WithEntriesType
<1> QED
  BY <1>1, WithTableType DEF WithEntry

LEMMA WithoutType ==
  ASSUME NEW f, NEW x
  PROVE  /\ IsEntries(f) => IsEntries(Without(f, x))
         /\ IsTable(f) => IsTable(Without(f, x))
<1>1. /\ IsFcn(Without(f, x)) /\ DOMAIN Without(f, x) = DOMAIN f \ {x}
      /\ \A y \in DOMAIN f \ {x} : Without(f, x)[y] = f[y]
  BY DEF Without, IsFcn
<1>2. IsFiniteSet(DOMAIN f) => IsFiniteSet(DOMAIN f \ {x})
  BY FS_RemoveElement
<1> QED
  BY <1>1, <1>2 DEF IsEntries, IsTable

-----------------------------------------------------------------------------
(* What a line makes of a table. *)

\* A line is blank, or names a section, or has an entry.
LEMMA LineIs ==
  ASSUME NEW l \in Text
  PROVE  /\ trim(l) \in Text /\ trim(trim(l)) = trim(l) /\ Within(trim(l), l)
         /\ NamesSection(trim(l)) =>
              SectionName(trim(l)) \in Text /\ Within(SectionName(trim(l)), l)
         /\ Before("=", trim(l)) \in Text /\ Behind("=", trim(l)) \in Text
<1> DEFINE t == trim(l)
<1>1. t \in Text /\ trim(t) = t /\ Within(t, l)
  BY TrimmedText DEF Within
<1> HIDE DEF t
<1>2. Before("=", t) \in Text /\ Behind("=", t) \in Text
  BY <1>1, BeforeIs, BehindIs
<1>3. ASSUME NamesSection(t) PROVE SectionName(t) \in Text /\ Within(SectionName(t), l)
  <2>1. Tail(t) \in Text /\ Within(Tail(t), t)
    BY <1>1, <1>3 DEF NamesSection, Text, Within
  <2>2. Before("]", Tail(t)) \in Text /\ Within(Before("]", Tail(t)), Tail(t))
    BY <2>1, BeforeIs
  <2> DEFINE u == Tail(t)
             b == Before("]", u)
  <2> HIDE DEF u
  <2>3. b \in Text /\ Within(b, u) /\ Within(u, t)
    BY <2>1, <2>2 DEF u
  <2> HIDE DEF b
  <2>4. Within(b, l)
    BY <1>1, <2>3, WithinTrans
  <2> QED
    BY <2>3, <2>4 DEF SectionName, b, u
<1> QED
  BY <1>1, <1>2, <1>3 DEF t

IsState(st) == IsTable(st.table) /\ st.in \in Text

LEMMA LoadLineType ==
  ASSUME NEW st, IsState(st), NEW l \in Text
  PROVE  IsState(LoadLine(st, l))
<1> DEFINE t == trim(l)
<1>1. CASE t = <<>>
  BY <1>1 DEF LoadLine
<1>2. CASE NamesSection(t)
  <2>1. t # <<>> /\ SectionName(t) \in Text
    BY <1>2, LineIs DEF NamesSection
  <2>2. IsTable(With(st.table, SectionName(t), Empty))
    BY <2>1, WithTableType, EmptyIs DEF IsState
  <2>3. LoadLine(st, l) = [table |-> With(st.table, SectionName(t), Empty), in |-> SectionName(t)]
    BY <1>2, <2>1 DEF LoadLine
  <2> QED
    BY <2>1, <2>2, <2>3 DEF IsState
<1>3. CASE t # <<>> /\ ~NamesSection(t)
  <2> DEFINE n == WithEntry(st.table, st.in, Before("=", t), Behind("=", t))
  <2>1. Before("=", t) \in Text /\ Behind("=", t) \in Text
    BY LineIs
  <2>2. IsTable(n)
    BY <2>1, WithEntryType DEF IsState
  <2>3. LoadLine(st, l) = [table |-> n, in |-> st.in]
    BY <1>3 DEF LoadLine
  <2> HIDE DEF n
  <2> QED
    BY <2>2, <2>3 DEF IsState
<1> QED
  BY <1>1, <1>2, <1>3

LEMMA ReadType ==
  ASSUME NEW table, IsTable(table), NEW lines \in Seq(Text)
  PROVE  /\ \A i \in 0..Len(lines) : IsState(AfterLines(table, lines)[i])
         /\ IsTable(Loaded(table, lines))
<1> DEFINE n == Len(lines)
           st == AfterLines(table, lines)
           T == {i \in Nat : i \in 0..n => IsState(st[i])}
<1>0. n \in Nat /\ \A i \in 1..n : lines[i] \in Text
  OBVIOUS
<1>1. /\ st[0] = [table |-> table, in |-> <<>>]
      /\ \A i \in 1..n : st[i] = LoadLine(st[i-1], lines[i])
  BY <1>0, LineByLine
<1> HIDE DEF n, st
<1>2. 0 \in T
  <2>1. <<>> \in Text
    BY DEF Text
  <2> QED
    BY <1>1, <2>1 DEF IsState
<1>3. ASSUME NEW i \in T PROVE i + 1 \in T
  <2> SUFFICES ASSUME i + 1 \in 0..n PROVE IsState(st[i+1])
    OBVIOUS
  <2>1. i + 1 \in 1..n /\ (i + 1) - 1 = i /\ i \in 0..n
    BY <1>0
  <2>2. st[i+1] = LoadLine(st[i], lines[i+1]) /\ lines[i+1] \in Text /\ IsState(st[i])
    BY <1>0, <1>1, <2>1
  <2> QED
    BY <2>2, LoadLineType
<1> HIDE DEF T
<1>4. T = Nat
  <2>1. T \subseteq Nat
    BY DEF T
  <2> QED
    BY <1>2, <1>3, <2>1, Induction
<1>5. \A i \in 0..n : IsState(st[i])
  BY <1>0, <1>4 DEF T
<1>6. IsState(st[n])
  BY <1>0, <1>5
<1> QED
  BY <1>5, <1>6 DEF IsState, Loaded, n, st

-----------------------------------------------------------------------------
(* The text of a table. *)

\* SetToSeq has every element of a set once.
LEMMA EnumIs ==
  ASSUME NEW S, IsFiniteSet(S)
  PROVE  /\ SetToSeq(S) \in Seq(S) /\ DOMAIN SetToSeq(S) = 1..Len(SetToSeq(S))
         /\ \A i, j \in DOMAIN SetToSeq(S) : SetToSeq(S)[i] = SetToSeq(S)[j] => i = j
         /\ \A x \in S : \E i \in DOMAIN SetToSeq(S) : SetToSeq(S)[i] = x
<1> DEFINE n == Cardinality(S)
           q == SetToSeq(S)
<1>1. n \in Nat /\ ExistsBijection(1..n, S)
  BY FS_CardinalityType
<1>2. \E f \in [1..n -> S] : IsInjective(f)
  BY <1>1 DEF ExistsBijection, Bijection, Injection
<1>3. q \in [1..n -> S] /\ IsInjective(q)
  BY <1>2 DEF SetToSeq
<1> HIDE DEF q
<1>4. q \in Injection(1..n, S)
  BY <1>3 DEF Injection
<1>5. Cardinality(1..n) = n
  BY <1>1, FS_Interval
<1>6. q \in Surjection(1..n, S)
  <2> HIDE DEF n
  <2>1. Cardinality(1..n) = Cardinality(S) <=> q \in Surjection(1..n, S)
    BY <1>4, FS_Injection
  <2> QED
    BY <1>5, <2>1 DEF n
<1>7. \A x \in S : \E i \in 1..n : q[i] = x
  BY <1>6 DEF Surjection
<1>8. q \in Seq(S) /\ DOMAIN q = 1..n /\ Len(q) = n
  BY <1>1, <1>3
<1> QED
  BY <1>3, <1>7, <1>8 DEF IsInjective, q

\* The lines of one section.
Block(table, s) == << <<"[">> \o s \o <<"]">> >> \o EntryLines(table[s]) \o << <<>> >>

LEMMA EntryLinesType ==
  ASSUME NEW e, IsEntries(e)
  PROVE  LET keys == SetToSeq(DOMAIN e) IN
         /\ EntryLines(e) \in Seq(Text) /\ Len(EntryLines(e)) = Len(keys)
         /\ \A i \in 1..Len(keys) : EntryLines(e)[i] = keys[i] \o <<" ", "=", " ">> \o e[keys[i]]
<1> DEFINE keys == SetToSeq(DOMAIN e)
           n == Len(keys)
<1>1. keys \in Seq(DOMAIN e) /\ DOMAIN keys = 1..n /\ n \in Nat
  BY EnumIs DEF IsEntries
<1> HIDE DEF keys
<1>2. ASSUME NEW i \in 1..n PROVE keys[i] \o <<" ", "=", " ">> \o e[keys[i]] \in Text
  <2>1. keys[i] \in DOMAIN e
    BY <1>1
  <2>2. keys[i] \in Seq(Char) /\ e[keys[i]] \in Seq(Char)
    BY <2>1 DEF IsEntries, Text
  <2>3. <<" ", "=", " ">> \in Seq(Char)
    <3>1. " " \in Char /\ "=" \in Char
      BY CharAssumption DEF Blank
    <3>2. \A x, y \in Char : <<x, y, x>> \in Seq(Char)
      OBVIOUS
    <3> QED
      BY <3>1, <3>2
  <2> DEFINE a == keys[i]
             b == <<" ", "=", " ">>
             c == e[keys[i]]
  <2>4. a \in Seq(Char) /\ b \in Seq(Char) /\ c \in Seq(Char)
    BY <2>2, <2>3
  <2> HIDE DEF a, b, c
  <2>5. a \o b \o c \in Seq(Char)
    BY <2>4
  <2> QED
    BY <2>5 DEF Text, a, b, c
<1>3. EntryLines(e) = [i \in 1..n |-> keys[i] \o <<" ", "=", " ">> \o e[keys[i]]]
  BY <1>1 DEF EntryLines, keys
<1> DEFINE L(i) == keys[i] \o <<" ", "=", " ">> \o e[keys[i]]
<1>4. EntryLines(e) \in Seq(Text) /\ Len(EntryLines(e)) = n
  <2>1. EntryLines(e) = [i \in 1..n |-> L(i)] /\ \A i \in 1..n : L(i) \in Text
    BY <1>2, <1>3
  <2> HIDE DEF n, L
  <2> QED
    BY <1>1, <2>1
<1> QED
  BY <1>3, <1>4 DEF keys, n

LEMMA BlockType ==
  ASSUME NEW table, IsTable(table), NEW s \in DOMAIN table
  PROVE  /\ Block(table, s) \in Seq(Text)
         /\ Len(Block(table, s)) = Len(EntryLines(table[s])) + 2
         /\ Block(table, s)[1] = <<"[">> \o s \o <<"]">>
         /\ \A i \in 1..Len(EntryLines(table[s])) : Block(table, s)[i+1] = EntryLines(table[s])[i]
         /\ Block(table, s)[Len(EntryLines(table[s])) + 2] = <<>>
<1> DEFINE h == <<"[">> \o s \o <<"]">>
           e == EntryLines(table[s])
           n == Len(e)
<1>1. e \in Seq(Text) /\ n \in Nat
  <2>1. IsEntries(table[s])
    BY DEF IsTable
  <2>2. e \in Seq(Text)
    BY <2>1, EntryLinesType
  <2> HIDE DEF e
  <2> QED
    BY <2>2
<1>2. h \in Text /\ <<>> \in Text
  <2>1. s \in Seq(Char) /\ "[" \in Char /\ "]" \in Char
    BY CharAssumption DEF IsTable, Text
  <2>2. <<"[">> \in Seq(Char) /\ <<"]">> \in Seq(Char)
    BY <2>1
  <2> QED
    BY <2>1, <2>2 DEF Text
<1>3. Block(table, s) = <<h>> \o e \o << <<>> >>
  BY DEF Block
<1> HIDE DEF h, e
<1> DEFINE b == <<h>> \o e \o << <<>> >>
<1>4. <<h>> \in Seq(Text) /\ << <<>> >> \in Seq(Text)
  BY <1>2
<1>5. b \in Seq(Text) /\ Len(b) = n + 2
  BY <1>1, <1>4
<1>6. b[1] = h /\ b[n + 2] = <<>> /\ \A i \in 1..n : b[i+1] = e[i]
  BY <1>1, <1>4
<1> HIDE DEF b
<1> QED
  BY <1>3, <1>5, <1>6 DEF b, h, e

\* The blocks of the sections, and all that is written.
Blocks(table) == [i \in DOMAIN SetToSeq(DOMAIN table) |-> Block(table, SetToSeq(DOMAIN table)[i])]

LEMMA BlocksType ==
  ASSUME NEW table, IsTable(table)
  PROVE  /\ Blocks(table) \in Seq(Seq(Text)) /\ Len(Blocks(table)) = Len(SetToSeq(DOMAIN table))
         /\ \A i \in 1..Len(Blocks(table)) :
              /\ SetToSeq(DOMAIN table)[i] \in DOMAIN table
              /\ Blocks(table)[i] = Block(table, SetToSeq(DOMAIN table)[i])
         /\ str(table) = FlattenSeq(Blocks(table)) /\ str(table) \in Seq(Text)
<1> DEFINE names == SetToSeq(DOMAIN table)
           n == Len(names)
<1>1. names \in Seq(DOMAIN table) /\ DOMAIN names = 1..n /\ n \in Nat
  BY EnumIs DEF IsTable
<1>2. str(table) = FlattenSeq(Blocks(table))
  BY DEF str, Blocks, Block
<1> HIDE DEF names
<1>3. \A i \in 1..n : names[i] \in DOMAIN table
  BY <1>1
<1>4. \A i \in 1..n : Block(table, names[i]) \in Seq(Text)
  BY <1>3, BlockType
<1>5. Blocks(table) = [i \in 1..n |-> Block(table, names[i])]
  BY <1>1 DEF Blocks, names
<1> HIDE DEF n
<1>6. Blocks(table) \in Seq(Seq(Text)) /\ Len(Blocks(table)) = n
  BY <1>1, <1>4, <1>5
<1>7. FlattenSeq(Blocks(table)) \in Seq(Text)
  BY <1>6, FlattenType
<1> QED
  BY <1>2, <1>3, <1>5, <1>6, <1>7 DEF names, n

-----------------------------------------------------------------------------
(* Types: a table is finite and of texts, and a file is of lines. *)

TableInv == IsTable(m_sections) /\ disk \in Seq(Line)

LEMMA LinesAreTexts ==
  ASSUME NEW lines \in Seq(Line)
  PROVE  lines \in Seq(Text)
<1>1. \A i \in 1..Len(lines) : lines[i] \in Text
  BY DEF Line
<1> QED
  BY <1>1

LEMMA ManualType ==
  ASSUME NEW f \in Manual
  PROVE  f \in Seq(Line)
<1>1. f \in Seq(Text) /\ \A i \in DOMAIN f : \A j \in DOMAIN f[i] : f[i][j] # "\n"
  BY ManualAssumption
<1>2. ASSUME NEW i \in 1..Len(f) PROVE f[i] \in Line
  <2>1. i \in DOMAIN f /\ f[i] \in Text
    BY <1>1
  <2>2. DOMAIN f[i] = 1..Len(f[i])
    BY <2>1 DEF Text
  <2> QED
    BY <1>1, <2>1, <2>2 DEF Line
<1> QED
  BY <1>1, <1>2

LEMMA NamesAreTexts ==
  Server \in Text /\ Port \in Text /\ <<>> \in Text /\ Server # <<>> /\ Port # <<>>
<1>1. Server[1] \in Char /\ Port[1] \in Char
  BY PortAssumption
<1>2. Server = <<Server[1]>> /\ Port = <<Port[1]>>
  BY DEF Server, Port
<1>3. \A c \in Char : <<c>> \in Seq(Char)
  OBVIOUS
<1>4. <<>> \in Seq(Char)
  OBVIOUS
<1> DEFINE a == Server[1]
           b == Port[1]
<1> HIDE DEF a, b
<1>5. <<a>> \in Seq(Char) /\ <<b>> \in Seq(Char)
  BY <1>1, <1>3 DEF a, b
<1>6. Server # <<>> /\ Port # <<>>
  <2>1. Len(Server) = 1 /\ Len(Port) = 1 /\ Len(<<>>) = 0
    BY DEF Server, Port
  <2> QED
    BY <2>1
<1> QED
  BY <1>2, <1>4, <1>5, <1>6 DEF Text, a, b

LEMMA TableStep ==
  ASSUME TableInv, [StartNext]_startVars
  PROVE  TableInv'
<1> USE DEF TableInv
<1>0. disk \in Seq(Text)
  BY LinesAreTexts
<1>1. ASSUME NEW s \in Sections, NEW k \in Keys, NEW v \in Text, set(s, k, v) PROVE TableInv'
  <2>1. s \in Text /\ k \in Text
    BY TextAssumption
  <2> QED
    BY <1>1, <2>1, WithEntryType DEF set
<1>2. ASSUME NEW s \in Sections, at(s) PROVE TableInv'
  <2>1. s \in Text
    BY TextAssumption
  <2> QED
    BY <1>2, <2>1, WithTableType, EmptyIs DEF at
<1>3. ASSUME NEW s \in Sections, remove(s) PROVE TableInv'
  <2>1. IsTable(Without(m_sections, s))
    BY WithoutType
  <2> QED
    BY <1>3, <2>1 DEF remove
<1>4. ASSUME NEW s \in Sections, NEW k \in Keys, removeKey(s, k) PROVE TableInv'
  <2>1. IsEntries(Without(m_sections[s], k))
    BY <1>4, WithoutType DEF removeKey, IsTable
  <2> DEFINE e == Without(m_sections[s], k)
  <2>2. m_sections' = [m_sections EXCEPT ![s] = e] /\ UNCHANGED disk
    BY <1>4 DEF removeKey
  <2> HIDE DEF e
  <2>3. IsTable([m_sections EXCEPT ![s] = e])
    BY <2>1 DEF IsTable, IsFcn, e
  <2> QED
    BY <2>2, <2>3
<1>5. ASSUME clear PROVE TableInv'
  BY <1>5, EmptyIs DEF clear
<1>6. ASSUME save PROVE TableInv'
  <2>1. str(m_sections) \in Seq(Text)
    BY BlocksType
  <2> QED
    BY <1>6, <2>1, LinesType DEF save
<1>7. ASSUME load PROVE TableInv'
  BY <1>0, <1>7, ReadType DEF load
<1>8. ASSUME disk' \in Manual, UNCHANGED m_sections PROVE TableInv'
  BY <1>8, ManualType
<1>9. ASSUME run PROVE TableInv'
  <2>1. IsTable(Loaded(Empty, disk))
    BY <1>0, ReadType, EmptyIs
  <2>2. IsTable(WithEntry(Loaded(Empty, disk), Server, Port, <<>>))
    BY <2>1, WithEntryType, NamesAreTexts
  <2> QED
    BY <1>9, <2>1, <2>2 DEF run, Config
<1>10. ASSUME m_sections' = Empty, UNCHANGED disk PROVE TableInv'
  BY <1>10, EmptyIs
<1>11. ASSUME UNCHANGED vars PROVE TableInv'
  BY <1>11 DEF vars
<1>12. ASSUME Next PROVE TableInv'
  <2>1. ASSUME NEW s \in Sections, NEW k \in Keys, get(s, k) PROVE TableInv'
    BY <1>1, <2>1, NamesAreTexts DEF get
  <2>2. ASSUME NEW s \in Sections, NEW k \in Keys, NEW v \in Values, set(s, k, v) PROVE TableInv'
    BY <1>1, <2>2, TextAssumption
  <2> QED
    BY <1>2, <1>3, <1>4, <1>5, <1>6, <1>7, <1>8, <1>12, <2>1, <2>2 DEF Next, Edit
<1>13. CASE Program
  BY <1>12, <1>13 DEF Program
<1>14. CASE EditConfig
  BY <1>8, <1>14 DEF EditConfig, Edit
<1>15. CASE Exit
  BY <1>10, <1>15 DEF Exit
<1>16. CASE EpollFails
  BY <1>11, <1>16 DEF EpollFails
<1>17. CASE UNCHANGED startVars
  BY <1>11, <1>17 DEF startVars
<1> QED
  BY <1>9, <1>13, <1>14, <1>15, <1>16, <1>17 DEF StartNext

\* The table is finite and of texts, and no line of the file has an end of line in it.
THEOREM TablesTyped == StartSpec => []TableInv
<1>1. StartInit => TableInv
  BY EmptyIs, ManualType DEF StartInit, Init, TableInv
<1>2. QED
  BY <1>1, TableStep, PTL DEF StartSpec

-----------------------------------------------------------------------------
(* What is loaded can be saved. *)

LEMMA PlainOfLine ==
  ASSUME NEW t \in Text, NEW l \in Line, trim(t) = t, Within(t, l)
  PROVE  Plain(t)
<1>1. \A i \in 1..Len(t) : t[i] # "\n"
  BY WithinLacks DEF Line
<1>2. FirstOf("\n", t) = 0
  BY <1>1, FirstOfNone
<1> QED
  BY <1>2 DEF Plain

LEMMA EmptySection == SavableSection(<<>>)
<1>1. <<>> \in Text /\ Len(<<>>) = 0
  BY DEF Text
<1>2. trim(<<>>) = <<>>
  BY <1>1, TrimBlank
<1>3. FirstOf("\n", <<>>) = 0 /\ FirstOf("]", <<>>) = 0
  BY <1>1, FirstOfNone
<1> QED
  BY <1>2, <1>3 DEF SavableSection, Plain

LEMMA LineSavable ==
  ASSUME NEW l \in Line
  PROVE  /\ NamesSection(trim(l)) => SavableSection(SectionName(trim(l)))
         /\ trim(l) # <<>> /\ ~NamesSection(trim(l)) =>
              SavableKey(Before("=", trim(l))) /\ Plain(Behind("=", trim(l)))
<1> DEFINE t == trim(l)
<1>1. t \in Text /\ trim(t) = t /\ Within(t, l)
  BY LineIs DEF Line
<1> HIDE DEF t
<1>2. ASSUME NamesSection(t) PROVE SavableSection(SectionName(t))
  <2>1. Tail(t) \in Text /\ SectionName(t) = Before("]", Tail(t))
    BY <1>1, <1>2 DEF NamesSection, Text, SectionName
  <2>2. SectionName(t) \in Text /\ Within(SectionName(t), l)
    BY <1>2, LineIs DEF Line, t
  <2>3. trim(SectionName(t)) = SectionName(t) /\ FirstOf("]", SectionName(t)) = 0
    BY <2>1, BeforeIs
  <2>4. Plain(SectionName(t))
    BY <2>2, <2>3, PlainOfLine
  <2> QED
    BY <2>3, <2>4 DEF SavableSection
<1>3. ASSUME t # <<>>, ~NamesSection(t) PROVE SavableKey(Before("=", t)) /\ Plain(Behind("=", t))
  <2> DEFINE k == Before("=", t)
             v == Behind("=", t)
  <2>1. k \in Text /\ trim(k) = k /\ Within(k, t) /\ FirstOf("=", k) = 0
    BY <1>1, BeforeIs
  <2>2. v \in Text /\ trim(v) = v /\ Within(v, t)
    BY <1>1, BehindIs
  <2>3. t[1] \notin Blank /\ t[1] # "["
    BY <1>1, <1>3, TrimWhole DEF NamesSection
  <2>4. k # <<>> => k[1] # "["
    BY <1>1, <1>3, <2>3, BeforeBegins
  <2> HIDE DEF k, v
  <2>5. Within(k, l) /\ Within(v, l)
    BY <1>1, <2>1, <2>2, WithinTrans
  <2>6. Plain(k) /\ Plain(v)
    BY <2>1, <2>2, <2>5, PlainOfLine
  <2> QED
    BY <2>1, <2>4, <2>6 DEF SavableKey, NamesSection, k, v
<1> QED
  BY <1>2, <1>3 DEF t

LEMMA LoadLineSavable ==
  ASSUME NEW st, Savable(st.table), SavableSection(st.in), NEW l \in Line
  PROVE  Savable(LoadLine(st, l).table) /\ SavableSection(LoadLine(st, l).in)
<1> DEFINE t == trim(l)
<1>1. CASE t = <<>>
  BY <1>1 DEF LoadLine
<1>2. CASE NamesSection(t)
  <2> DEFINE s == SectionName(t)
             w == With(st.table, s, Empty)
  <2>1. t # <<>> /\ SavableSection(s)
    BY <1>2, LineSavable DEF NamesSection
  <2>2. LoadLine(st, l) = [table |-> w, in |-> s]
    BY <1>2, <2>1 DEF LoadLine
  <2>3. /\ DOMAIN w = DOMAIN st.table \cup {s} /\ w[s] = Empty
        /\ \A y \in DOMAIN st.table : y # s => w[y] = st.table[y]
    BY DEF With
  <2> HIDE DEF w, s
  <2>4. Savable(w)
    BY <2>1, <2>3, EmptyIs DEF Savable
  <2> QED
    BY <2>1, <2>2, <2>4
<1>3. CASE t # <<>> /\ ~NamesSection(t)
  <2> DEFINE k == Before("=", t)
             v == Behind("=", t)
             e == Section(st.table, st.in)
             f == With(e, k, v)
             w == With(st.table, st.in, f)
  <2>1. SavableKey(k) /\ Plain(v)
    BY <1>3, LineSavable
  <2>2. LoadLine(st, l) = [table |-> w, in |-> st.in]
    BY <1>3 DEF LoadLine, WithEntry
  <2>3. /\ DOMAIN w = DOMAIN st.table \cup {st.in} /\ w[st.in] = f
        /\ \A y \in DOMAIN st.table : y # st.in => w[y] = st.table[y]
    BY DEF With
  <2>4. /\ DOMAIN f = DOMAIN e \cup {k} /\ f[k] = v
        /\ \A y \in DOMAIN e : y # k => f[y] = e[y]
    BY DEF With
  <2> HIDE DEF w, f, k, v
  <2>5. \A y \in DOMAIN e : SavableKey(y) /\ Plain(e[y])
    BY EmptyIs DEF Section, Savable
  <2> HIDE DEF e
  <2>6. \A y \in DOMAIN f : SavableKey(y) /\ Plain(f[y])
    BY <2>1, <2>4, <2>5
  <2>7. Savable(w)
    BY <2>3, <2>6 DEF Savable
  <2> QED
    BY <2>2, <2>7
<1> QED
  BY <1>1, <1>2, <1>3

LEMMA LoadedSavable ==
  ASSUME NEW lines \in Seq(Line)
  PROVE  Savable(Loaded(Empty, lines))
<1> DEFINE n == Len(lines)
           st == AfterLines(Empty, lines)
           T == {i \in Nat : i \in 0..n => Savable(st[i].table) /\ SavableSection(st[i].in)}
<1>0. n \in Nat /\ \A i \in 1..n : lines[i] \in Line
  OBVIOUS
<1>1. /\ st[0] = [table |-> Empty, in |-> <<>>]
      /\ \A i \in 1..n : st[i] = LoadLine(st[i-1], lines[i])
  BY <1>0, LineByLine
<1> HIDE DEF n, st
<1>2. 0 \in T
  <2>1. Savable(Empty)
    BY EmptyIs DEF Savable
  <2> QED
    BY <1>1, <2>1, EmptySection
<1>3. ASSUME NEW i \in T PROVE i + 1 \in T
  <2> SUFFICES ASSUME i + 1 \in 0..n PROVE Savable(st[i+1].table) /\ SavableSection(st[i+1].in)
    OBVIOUS
  <2>1. i + 1 \in 1..n /\ (i + 1) - 1 = i /\ i \in 0..n
    BY <1>0
  <2>2. /\ st[i+1] = LoadLine(st[i], lines[i+1]) /\ lines[i+1] \in Line
        /\ Savable(st[i].table) /\ SavableSection(st[i].in)
    BY <1>0, <1>1, <2>1
  <2> QED
    BY <2>2, LoadLineSavable
<1> HIDE DEF T
<1>4. T = Nat
  <2>1. T \subseteq Nat
    BY DEF T
  <2> QED
    BY <1>2, <1>3, <2>1, Induction
<1>5. Savable(st[n].table)
  BY <1>0, <1>4 DEF T
<1> QED
  BY <1>5 DEF Loaded, n, st

\* What load() made of a file can be saved and loaded again without a difference.
THEOREM LoadsAreSavable == StartSpec => []LoadedIsSavable
<1>1. TableInv => LoadedIsSavable
  BY LoadedSavable DEF TableInv, LoadedIsSavable
<1>2. QED
  BY <1>1, TablesTyped, PTL

-----------------------------------------------------------------------------
(* Loading on top of a table. *)

\* The sections that the first n lines name.
Named(lines, n) ==
  {SectionName(trim(lines[i])) : i \in {i \in 1..n : NamesSection(trim(lines[i]))}}

LEMMA NamedNext ==
  ASSUME NEW lines, NEW n \in Nat
  PROVE  /\ Named(lines, 0) = {}
         /\ NamesSection(trim(lines[n+1])) =>
              Named(lines, n + 1) = Named(lines, n) \cup {SectionName(trim(lines[n+1]))}
         /\ ~NamesSection(trim(lines[n+1])) => Named(lines, n + 1) = Named(lines, n)
<1>1. 1..0 = {} /\ 1..(n + 1) = (1..n) \cup {n + 1}
  OBVIOUS
<1> QED
  BY <1>1 DEF Named

\* e, and what f has that e has not.
Over(e, f) == [k \in DOMAIN e \cup DOMAIN f |-> IF k \in DOMAIN e THEN e[k] ELSE f[k]]

LEMMA OverWith ==
  ASSUME NEW e, NEW f, NEW k, NEW v
  PROVE  With(Over(e, f), k, v) = Over(With(e, k, v), f)
BY DEF With, Over

LEMMA OverEmpty ==
  ASSUME NEW e, IsFcn(e)
  PROVE  Over(e, Empty) = e /\ Over(Empty, e) = e
BY DEF Over, IsFcn, Empty

LEMMA OverOver ==
  ASSUME NEW e, NEW f
  PROVE  Over(e, Over(e, f)) = Over(e, f)
BY DEF Over

LEMMA SectionWith ==
  ASSUME NEW t, NEW s, NEW e, NEW x
  PROVE  Section(With(t, s, e), x) = IF x = s THEN e ELSE Section(t, x)
BY DEF Section, With

\* What is left in a section of what it had before the file was read.
Kept(table, s, named) == IF s \in named THEN Empty ELSE Section(table, s)

\* Reading on top of a table, and reading alone.
Agree(table, t, a, named) ==
  /\ t.in = a.in
  /\ DOMAIN t.table = DOMAIN table \cup DOMAIN a.table
  /\ \A s \in Text : Section(t.table, s) = Over(Section(a.table, s), Kept(table, s, named))
  /\ named \subseteq DOMAIN a.table /\ DOMAIN a.table \subseteq named \cup {<<>>}
  /\ a.in \in named \cup {<<>>}

LEMMA AgreeStep ==
  ASSUME NEW table, NEW t, NEW a, NEW named, NEW l \in Text,
         Agree(table, t, a, named), a.in \in Text
  PROVE  Agree(table, LoadLine(t, l), LoadLine(a, l),
               IF NamesSection(trim(l)) THEN named \cup {SectionName(trim(l))} ELSE named)
<1> DEFINE x == trim(l)
<1>1. CASE x = <<>>
  BY <1>1 DEF LoadLine, NamesSection
<1>2. CASE NamesSection(x)
  <2> DEFINE s == SectionName(x)
             tt == With(t.table, s, Empty)
             aa == With(a.table, s, Empty)
             nn == named \cup {s}
  <2>1. s \in Text /\ x # <<>>
    BY <1>2, LineIs DEF NamesSection
  <2>2. LoadLine(t, l) = [table |-> tt, in |-> s] /\ LoadLine(a, l) = [table |-> aa, in |-> s]
    BY <1>2, <2>1 DEF LoadLine
  <2>3. DOMAIN tt = DOMAIN t.table \cup {s} /\ DOMAIN aa = DOMAIN a.table \cup {s}
    BY DEF With
  <2>4. \A y : /\ Section(tt, y) = IF y = s THEN Empty ELSE Section(t.table, y)
               /\ Section(aa, y) = IF y = s THEN Empty ELSE Section(a.table, y)
    BY SectionWith
  <2> HIDE DEF tt, aa, s
  <2>5. ASSUME NEW y \in Text PROVE Section(tt, y) = Over(Section(aa, y), Kept(table, y, nn))
    <3>1. CASE y = s
      <4>1. Section(tt, y) = Empty /\ Section(aa, y) = Empty
        BY <2>4, <3>1
      <4>2. Kept(table, y, nn) = Empty
        BY <3>1 DEF Kept
      <4> QED
        BY <4>1, <4>2, EmptyIs, OverEmpty
    <3>2. CASE y # s
      <4>1. Section(tt, y) = Section(t.table, y) /\ Section(aa, y) = Section(a.table, y)
        BY <2>4, <3>2
      <4>2. Kept(table, y, nn) = Kept(table, y, named)
        BY <3>2 DEF Kept
      <4> QED
        BY <4>1, <4>2 DEF Agree
    <3> QED
      BY <3>1, <3>2
  <2>6. Agree(table, [table |-> tt, in |-> s], [table |-> aa, in |-> s], nn)
    BY <2>3, <2>5 DEF Agree
  <2> QED
    BY <1>2, <2>2, <2>6 DEF s
<1>3. CASE x # <<>> /\ ~NamesSection(x)
  <2> DEFINE k == Before("=", x)
             v == Behind("=", x)
             in == a.in
             te == With(Section(t.table, in), k, v)
             ae == With(Section(a.table, in), k, v)
             tt == With(t.table, in, te)
             aa == With(a.table, in, ae)
  <2>1. in \in Text /\ t.in = in
    BY DEF Agree
  <2>2. LoadLine(t, l) = [table |-> tt, in |-> in] /\ LoadLine(a, l) = [table |-> aa, in |-> in]
    BY <1>3, <2>1 DEF LoadLine, WithEntry
  <2>3. DOMAIN tt = DOMAIN t.table \cup {in} /\ DOMAIN aa = DOMAIN a.table \cup {in}
    BY DEF With
  <2>4. \A y : /\ Section(tt, y) = IF y = in THEN te ELSE Section(t.table, y)
               /\ Section(aa, y) = IF y = in THEN ae ELSE Section(a.table, y)
    BY SectionWith
  <2> HIDE DEF tt, aa
  <2>5. te = Over(ae, Kept(table, in, named))
    <3>1. Section(t.table, in) = Over(Section(a.table, in), Kept(table, in, named))
      BY <2>1 DEF Agree
    <3> HIDE DEF k, v, in
    <3>2. With(Over(Section(a.table, in), Kept(table, in, named)), k, v)
            = Over(With(Section(a.table, in), k, v), Kept(table, in, named))
      BY OverWith
    <3> QED
      BY <3>1, <3>2
  <2> HIDE DEF te, ae
  <2>6. \A y \in Text : Section(tt, y) = Over(Section(aa, y), Kept(table, y, named))
    BY <2>4, <2>5 DEF Agree
  <2>7. Agree(table, [table |-> tt, in |-> in], [table |-> aa, in |-> in], named)
    BY <2>3, <2>6 DEF Agree
  <2> QED
    BY <1>3, <2>2, <2>7
<1> QED
  BY <1>1, <1>2, <1>3

LEMMA ReadsAgree ==
  ASSUME NEW table, IsTable(table), NEW lines \in Seq(Text)
  PROVE  \A i \in 0..Len(lines) :
           Agree(table, AfterLines(table, lines)[i], AfterLines(Empty, lines)[i], Named(lines, i))
<1> DEFINE n == Len(lines)
           t == AfterLines(table, lines)
           a == AfterLines(Empty, lines)
           T == {i \in Nat : i \in 0..n => Agree(table, t[i], a[i], Named(lines, i))}
<1>0. n \in Nat /\ \A i \in 1..n : lines[i] \in Text
  OBVIOUS
<1>1. /\ t[0] = [table |-> table, in |-> <<>>]
      /\ \A i \in 1..n : t[i] = LoadLine(t[i-1], lines[i])
  BY <1>0, LineByLine
<1>2. /\ a[0] = [table |-> Empty, in |-> <<>>]
      /\ \A i \in 1..n : a[i] = LoadLine(a[i-1], lines[i])
  BY <1>0, LineByLine
<1>3. \A i \in 0..n : a[i].in \in Text
  BY ReadType, EmptyIs DEF IsState
<1> HIDE DEF n, t, a
<1>4. 0 \in T
  <2>1. ASSUME NEW s \in Text
        PROVE  Section(table, s) = Over(Section(Empty, s), Kept(table, s, {}))
    <3>1. Section(Empty, s) = Empty /\ Kept(table, s, {}) = Section(table, s)
      BY EmptyIs DEF Section, Kept
    <3>2. IsFcn(Section(table, s))
      BY SectionType DEF IsEntries
    <3> QED
      BY <3>1, <3>2, OverEmpty
  <2>2. Named(lines, 0) = {}
    BY NamedNext
  <2>3. Agree(table, t[0], a[0], {})
    BY <1>1, <1>2, <2>1, EmptyIs DEF Agree
  <2> QED
    BY <2>2, <2>3
<1>5. ASSUME NEW i \in T PROVE i + 1 \in T
  <2> SUFFICES ASSUME i + 1 \in 0..n
               PROVE  Agree(table, t[i+1], a[i+1], Named(lines, i + 1))
    OBVIOUS
  <2>1. i + 1 \in 1..n /\ (i + 1) - 1 = i /\ i \in 0..n /\ i \in Nat
    BY <1>0
  <2>2. /\ t[i+1] = LoadLine(t[i], lines[i+1]) /\ a[i+1] = LoadLine(a[i], lines[i+1])
        /\ lines[i+1] \in Text /\ a[i].in \in Text /\ Agree(table, t[i], a[i], Named(lines, i))
    BY <1>0, <1>1, <1>2, <1>3, <2>1
  <2>3. Named(lines, i + 1) = IF NamesSection(trim(lines[i+1]))
                              THEN Named(lines, i) \cup {SectionName(trim(lines[i+1]))}
                              ELSE Named(lines, i)
    BY <2>1, NamedNext
  <2> DEFINE l == lines[i+1]
             named == Named(lines, i)
  <2>4. Agree(table, LoadLine(t[i], l), LoadLine(a[i], l),
              IF NamesSection(trim(l)) THEN named \cup {SectionName(trim(l))} ELSE named)
    <3>1. l \in Text /\ a[i].in \in Text /\ Agree(table, t[i], a[i], named)
      BY <2>2
    <3> HIDE DEF l, named
    <3> QED
      BY <3>1, AgreeStep
  <2> QED
    BY <2>2, <2>3, <2>4
<1> HIDE DEF T
<1>6. T = Nat
  <2>1. T \subseteq Nat
    BY DEF T
  <2> QED
    BY <1>4, <1>5, <2>1, Induction
<1>7. \A i \in 0..n : Agree(table, t[i], a[i], Named(lines, i))
  BY <1>0, <1>6 DEF T
<1> QED
  BY <1>7 DEF n, t, a

LEMMA LoadedIs ==
  ASSUME NEW table, IsTable(table), NEW lines \in Seq(Text)
  PROVE  LET t == Loaded(table, lines)
             a == Loaded(Empty, lines)
             named == Named(lines, Len(lines)) IN
         /\ DOMAIN t = DOMAIN table \cup DOMAIN a
         /\ \A s \in Text : Section(t, s) = Over(Section(a, s), Kept(table, s, named))
         /\ named \subseteq DOMAIN a /\ DOMAIN a \subseteq named \cup {<<>>}
<1>1. Len(lines) \in 0..Len(lines)
  OBVIOUS
<1>2. Agree(table, AfterLines(table, lines)[Len(lines)], AfterLines(Empty, lines)[Len(lines)],
            Named(lines, Len(lines)))
  BY <1>1, ReadsAgree
<1> QED
  BY <1>2 DEF Agree, Loaded

LEMMA LoadedTwice ==
  ASSUME NEW table, IsTable(table), NEW lines \in Seq(Text)
  PROVE  Loaded(Loaded(table, lines), lines) = Loaded(table, lines)
<1> DEFINE t == Loaded(table, lines)
           u == Loaded(t, lines)
           a == Loaded(Empty, lines)
           named == Named(lines, Len(lines))
<1>1. IsTable(t)
  BY ReadType
<1>2. DOMAIN t = DOMAIN table \cup DOMAIN a
      /\ \A s \in Text : Section(t, s) = Over(Section(a, s), Kept(table, s, named))
  BY LoadedIs
<1>3. IsTable(u) /\ DOMAIN u = DOMAIN t \cup DOMAIN a
      /\ \A s \in Text : Section(u, s) = Over(Section(a, s), Kept(t, s, named))
  <2> HIDE DEF t
  <2> QED
    BY <1>1, LoadedIs, ReadType
<1> HIDE DEF t, u, a, named
<1>4. DOMAIN u = DOMAIN t /\ DOMAIN t \subseteq Text
  BY <1>1, <1>2, <1>3 DEF IsTable
<1>5. ASSUME NEW s \in DOMAIN t PROVE u[s] = t[s]
  <2>1. s \in Text /\ u[s] = Section(u, s) /\ t[s] = Section(t, s)
    BY <1>4 DEF Section
  <2>2. CASE s \in named
    <3>1. Kept(t, s, named) = Kept(table, s, named)
      BY <2>2 DEF Kept
    <3> QED
      BY <1>2, <1>3, <2>1, <3>1
  <2>3. CASE s \notin named
    <3> DEFINE e == Section(a, s)
               f == Section(table, s)
    <3>1. Kept(t, s, named) = Section(t, s) /\ Kept(table, s, named) = f
      BY <2>3 DEF Kept
    <3>2. Section(u, s) = Over(e, Section(t, s)) /\ Section(t, s) = Over(e, f)
      BY <1>2, <1>3, <2>1, <3>1
    <3> HIDE DEF e, f
    <3> QED
      BY <2>1, <3>2, OverOver
  <2> QED
    BY <2>2, <2>3
<1>6. u = t
  BY <1>1, <1>3, <1>4, <1>5 DEF IsTable, IsFcn
<1> QED
  BY <1>6 DEF t, u

\* Loading a file once more gives what its text says in the sections it lists,
\* and takes nothing from the others.
THEOREM ReloadsAreExact == StartSpec => []ReloadIsExact
<1>1. TableInv => ReloadIsExact
  <2> SUFFICES ASSUME TableInv PROVE ReloadIsExact
    OBVIOUS
  <2> DEFINE t == Loaded(m_sections, disk)
             a == Loaded(Empty, disk)
             named == Named(disk, Len(disk))
  <2>1. disk \in Seq(Text) /\ IsTable(m_sections)
    BY LinesAreTexts DEF TableInv
  <2>2. Loaded(t, disk) = t
    BY <2>1, LoadedTwice
  <2>3. /\ DOMAIN t = DOMAIN m_sections \cup DOMAIN a
        /\ \A s \in Text : Section(t, s) = Over(Section(a, s), Kept(m_sections, s, named))
        /\ named \subseteq DOMAIN a /\ DOMAIN a \subseteq named \cup {<<>>}
    BY <2>1, LoadedIs
  <2>4. IsTable(t) /\ IsTable(a)
    BY <2>1, ReadType, EmptyIs
  <2> HIDE DEF t, a, named
  <2>5. ASSUME NEW s \in DOMAIN a \ {<<>>} PROVE t[s] = a[s]
    <3>1. s \in Text /\ s \in named /\ s \in DOMAIN t
      BY <2>3, <2>4 DEF IsTable
    <3>2. Section(t, s) = t[s] /\ Section(a, s) = a[s] /\ Kept(m_sections, s, named) = Empty
      BY <3>1 DEF Section, Kept
    <3>3. IsFcn(a[s])
      BY <2>4 DEF IsTable, IsEntries
    <3> QED
      BY <2>3, <3>1, <3>2, <3>3, OverEmpty
  <2>6. ASSUME NEW s \in DOMAIN m_sections \ DOMAIN a PROVE t[s] = m_sections[s]
    <3>1. s \in Text /\ s \notin named /\ s \in DOMAIN t
      BY <2>1, <2>3 DEF IsTable
    <3>2. /\ Section(t, s) = t[s] /\ Section(a, s) = Empty
          /\ Kept(m_sections, s, named) = m_sections[s]
      BY <3>1 DEF Section, Kept
    <3>3. IsFcn(m_sections[s])
      BY <2>1 DEF IsTable, IsEntries
    <3> QED
      BY <2>3, <3>1, <3>2, <3>3, OverEmpty
  <2> QED
    BY <2>2, <2>5, <2>6 DEF ReloadIsExact, t, a
<1>2. QED
  BY <1>1, TablesTyped, PTL

-----------------------------------------------------------------------------
(* What is saved is loaded. *)

\* What Join has where, of three texts.
LEMMA ThreeTexts ==
  ASSUME NEW a \in Text, NEW b \in Text, NEW c \in Text
  PROVE  /\ a \o b \o c \in Text /\ Len(a \o b \o c) = Len(a) + Len(b) + Len(c)
         /\ \A i \in 1..Len(a) : (a \o b \o c)[i] = a[i]
         /\ \A i \in 1..Len(b) : (a \o b \o c)[Len(a) + i] = b[i]
         /\ \A i \in 1..Len(c) : (a \o b \o c)[Len(a) + Len(b) + i] = c[i]
<1>1. a \in Seq(Char) /\ b \in Seq(Char) /\ c \in Seq(Char)
  BY DEF Text
<1> DEFINE m == Len(a)
           n == Len(b)
           d == a \o b
           k == m + n
<1>2. /\ m \in Nat /\ n \in Nat /\ d \in Seq(Char) /\ Len(d) = k /\ k \in Nat
      /\ \A i \in 1..m : d[i] = a[i]
      /\ \A i \in 1..n : d[m + i] = b[i]
  <2>1. m \in Nat /\ n \in Nat
    BY <1>1
  <2> QED
    BY <1>1, <2>1, PutBehind
<1> HIDE DEF d, m, n, k
<1>3. /\ d \o c \in Seq(Char) /\ Len(d \o c) = k + Len(c)
      /\ \A i \in 1..k : (d \o c)[i] = d[i]
      /\ \A i \in 1..Len(c) : (d \o c)[k + i] = c[i]
  <2>1. d \in Seq(Char) /\ c \in Seq(Char) /\ k \in Nat /\ Len(d) = k
    BY <1>1, <1>2
  <2> QED
    BY <2>1, PutBehind
<1>4. \A i \in 1..m : (d \o c)[i] = a[i]
  BY <1>2, <1>3 DEF k
<1>5. \A i \in 1..n : (d \o c)[m + i] = b[i]
  <2>1. \A i \in 1..n : m + i \in 1..k
    BY <1>2 DEF k
  <2> HIDE DEF m, n, k
  <2>2. \A i \in 1..n : (d \o c)[m + i] = d[m + i]
    BY <2>1, <1>3
  <2>3. \A i \in 1..n : d[m + i] = b[i]
    BY <1>2
  <2> QED
    BY <2>2, <2>3
<1> QED
  BY <1>3, <1>4, <1>5 DEF d, m, n, k, Text

\* A text is trimmed of one blank in front or behind.
LEMMA TrimAround ==
  ASSUME NEW s \in Text, NEW u \in Text, trim(s) = s
  PROVE  /\ Len(u) = Len(s) + 1 /\ u[Len(s) + 1] \in Blank
              /\ (\A i \in 1..Len(s) : u[i] = s[i]) => trim(u) = s
         /\ Len(u) = Len(s) + 1 /\ u[1] \in Blank
              /\ (\A i \in 1..Len(s) : u[i + 1] = s[i]) => trim(u) = s
<1> DEFINE n == Len(s)
<1>0. n \in Nat /\ s \in Seq(Char) /\ u \in Seq(Char)
  BY DEF Text
<1>1. ASSUME Len(u) = n + 1, u[n + 1] \in Blank, \A i \in 1..n : u[i] = s[i]
      PROVE  trim(u) = s
  <2>1. SubSeq(u, 1, n) = s
    BY <1>0, <1>1
  <2>2. 1 \in 1..(Len(u) + 1) /\ n \in (1 - 1)..Len(u)
        /\ \A i \in 1..Len(u) : i < 1 \/ i > n => u[i] \in Blank
    <3>1. \A i \in 1..Len(u) : i < 1 \/ i > n => i = n + 1
      BY <1>0, <1>1
    <3> QED
      BY <1>0, <1>1, <3>1
  <2> HIDE DEF n
  <2>3. trim(SubSeq(u, 1, n)) = trim(u)
    BY <2>2, TrimWithin
  <2> QED
    BY <2>1, <2>3
<1>2. ASSUME Len(u) = n + 1, u[1] \in Blank, \A i \in 1..n : u[i + 1] = s[i]
      PROVE  trim(u) = s
  <2>1. SubSeq(u, 2, n + 1) = s
    <3> DEFINE v == SubSeq(u, 2, n + 1)
    <3>1. v \in Seq(Char) /\ Len(v) = n /\ \A i \in 1..n : v[i] = u[i + 1]
      BY <1>0, <1>2
    <3> HIDE DEF v
    <3>2. v = s
      BY <1>0, <1>2, <3>1
    <3> QED
      BY <3>2 DEF v
  <2>2. 2 \in 1..(Len(u) + 1) /\ n + 1 \in (2 - 1)..Len(u)
        /\ \A i \in 1..Len(u) : i < 2 \/ i > n + 1 => u[i] \in Blank
    <3>1. \A i \in 1..Len(u) : i < 2 \/ i > n + 1 => i = 1
      BY <1>0, <1>2
    <3> QED
      BY <1>0, <1>2, <3>1
  <2> DEFINE k == n + 1
  <2> HIDE DEF k
  <2>3. trim(SubSeq(u, 2, k)) = trim(u)
    BY <2>2, TrimWithin DEF k
  <2> QED
    BY <2>1, <2>3 DEF k
<1> QED
  BY <1>1, <1>2

\* The line of a section.
LEMMA HeaderLine ==
  ASSUME NEW s \in Text, SavableSection(s)
  PROVE  LET h == <<"[">> \o s \o <<"]">> IN
         h \in Line /\ NamesSection(trim(h)) /\ SectionName(trim(h)) = s
<1> DEFINE h == <<"[">> \o s \o <<"]">>
           n == Len(s)
<1>0. n \in Nat
  BY DEF Text
<1>1. <<"[">> \in Text /\ <<"]">> \in Text
  <2>1. "[" \in Char /\ "]" \in Char
    BY CharAssumption
  <2> QED
    BY <2>1 DEF Text
<1>2. /\ h \in Text /\ Len(h) = n + 2 /\ h[1] = "[" /\ h[n + 2] = "]"
      /\ \A i \in 1..n : h[i + 1] = s[i]
  <2> DEFINE a == <<"[">>
             c == <<"]">>
             g == a \o s \o c
  <2>0. a \in Text /\ c \in Text /\ h = g
    BY <1>1
  <2>1. Len(a) = 1 /\ a[1] = "[" /\ Len(c) = 1 /\ c[1] = "]"
    OBVIOUS
  <2> HIDE DEF a, c, h
  <2>2. /\ g \in Text /\ Len(g) = Len(a) + n + Len(c)
        /\ \A i \in 1..Len(a) : g[i] = a[i]
        /\ \A i \in 1..n : g[Len(a) + i] = s[i]
        /\ \A i \in 1..Len(c) : g[Len(a) + n + i] = c[i]
    BY <2>0, ThreeTexts
  <2> HIDE DEF g, n
  <2>3. Len(g) = n + 2 /\ g[1] = "[" /\ g[n + 2] = "]"
    <3>1. 1 + n + 1 = n + 2
      BY <1>0
    <3> QED
      BY <1>0, <2>1, <2>2, <3>1
  <2>4. ASSUME NEW i \in 1..n PROVE g[i + 1] = s[i]
    <3>1. 1 + i = i + 1
      BY <1>0
    <3> QED
      BY <2>1, <2>2, <3>1
  <2> QED
    BY <2>0, <2>2, <2>3, <2>4
<1> HIDE DEF h
<1>3. trim(s) = s /\ \A i \in 1..n : s[i] # "\n" /\ s[i] # "]"
  BY FirstOfType DEF SavableSection, Plain
<1>4. h \in Line
  <2>1. ASSUME NEW i \in 1..Len(h) PROVE h[i] # "\n"
    <3>1. i = 1 \/ i = n + 2 \/ (i - 1 \in 1..n /\ (i - 1) + 1 = i)
      BY <1>0, <1>2
    <3> QED
      BY <1>2, <1>3, <3>1
  <2> QED
    BY <1>2, <2>1 DEF Line
<1>5. trim(h) = h
  <2> DEFINE q == n + 2
  <2>0. q \in Nat /\ 1 <= q /\ Len(h) = q /\ h[1] \notin Blank /\ h[q] \notin Blank
    <3>1. "[" \notin Blank /\ "]" \notin Blank
      BY DEF Blank
    <3> QED
      BY <1>0, <1>2, <3>1
  <2> HIDE DEF q
  <2>1. Spans(h, 1, q)
    BY <2>0 DEF Spans
  <2>2. SubSeq(h, 1, q) = h
    BY <1>2, <2>0 DEF Text
  <2>3. h \in Text
    BY <1>2
  <2>4. trim(h) = SubSeq(h, 1, q)
    BY <2>1, <2>3, TrimSpan
  <2> QED
    BY <2>2, <2>4
<1> DEFINE t == Tail(h)
<1>6. t \in Text /\ Len(t) = n + 1 /\ t[n + 1] = "]" /\ \A i \in 1..n : t[i] = s[i]
  <2>1. h \in Seq(Char) /\ h # <<>>
    BY <1>0, <1>2 DEF Text
  <2>2. t \in Seq(Char) /\ Len(t) = n + 1 /\ \A i \in 1..(n + 1) : t[i] = h[i + 1]
    BY <1>0, <1>2, <2>1
  <2> HIDE DEF t
  <2>3. t[n + 1] = "]"
    BY <1>0, <1>2, <2>2
  <2>4. ASSUME NEW i \in 1..n PROVE t[i] = s[i]
    BY <1>0, <1>2, <2>2
  <2> QED
    BY <2>2, <2>3, <2>4 DEF Text
<1> HIDE DEF t
<1>7. FirstOf("]", t) = n + 1
  <2> DEFINE p == n + 1
  <2>1. p \in 1..Len(t) /\ t[p] = "]" /\ \A i \in 1..(p - 1) : t[i] # "]"
    BY <1>0, <1>3, <1>6
  <2> HIDE DEF p
  <2>2. FirstOf("]", t) = p
    BY <1>6, <2>1, FirstOfIs
  <2> QED
    BY <2>2 DEF p
<1>8. SubSeq(t, 1, n) = s
  BY <1>0, <1>6 DEF Text
<1>9. Before("]", t) = s
  <2>1. n + 1 # 0 /\ (n + 1) - 1 = n
    BY <1>0
  <2> QED
    BY <1>3, <1>7, <1>8, <2>1 DEF Before
<1>10. NamesSection(h)
  BY <1>0, <1>2 DEF NamesSection, Text
<1> QED
  BY <1>4, <1>5, <1>9, <1>10 DEF SectionName, h, t

\* The line of an entry.
LEMMA EntryLine ==
  ASSUME NEW k \in Text, NEW v \in Text, SavableKey(k), Plain(v)
  PROVE  LET l == k \o <<" ", "=", " ">> \o v IN
         /\ l \in Line /\ trim(l) # <<>> /\ ~NamesSection(trim(l))
         /\ Before("=", trim(l)) = k /\ Behind("=", trim(l)) = v
<1> DEFINE b == " "
           e == <<" ", "=", " ">>
           l == k \o e \o v
           m == Len(k)
           n == Len(v)
<1>0. m \in Nat /\ n \in Nat
  BY DEF Text
<1>1. e \in Text /\ Len(e) = 3 /\ e[1] = b /\ e[2] = "=" /\ e[3] = b
  <2>1. b \in Char /\ "=" \in Char
    BY CharAssumption DEF Blank
  <2>2. e = <<b, "=", b>>
    OBVIOUS
  <2> HIDE DEF b, e
  <2> QED
    BY <2>1, <2>2 DEF Text
<1>b. b \in Blank /\ b # "=" /\ b # "\n" /\ "=" \notin Blank
  BY DEF Blank
<1> HIDE DEF b
<1> HIDE DEF e
<1>2. /\ l \in Text /\ Len(l) = m + 3 + n
      /\ \A i \in 1..m : l[i] = k[i]
      /\ l[m + 1] = b /\ l[m + 2] = "=" /\ l[m + 3] = b
      /\ \A i \in 1..n : l[m + 3 + i] = v[i]
  <2>1. 1 \in 1..Len(e) /\ 2 \in 1..Len(e) /\ 3 \in 1..Len(e)
    BY <1>1
  <2>2. /\ l \in Text /\ Len(l) = m + Len(e) + n
        /\ \A i \in 1..m : l[i] = k[i]
        /\ \A i \in 1..Len(e) : l[m + i] = e[i]
        /\ \A i \in 1..n : l[m + Len(e) + i] = v[i]
    <3>1. e \in Text
      BY <1>1
    <3> QED
      BY <3>1, ThreeTexts
  <2> HIDE DEF l, m, n
  <2> QED
    BY <1>1, <2>1, <2>2
<1> HIDE DEF l
<1>3. /\ trim(k) = k /\ \A i \in 1..m : k[i] # "\n" /\ k[i] # "="
      /\ trim(v) = v /\ \A i \in 1..n : v[i] # "\n"
  BY FirstOfType DEF SavableKey, Plain
<1>4. l \in Line
  <2>1. ASSUME NEW i \in 1..Len(l) PROVE l[i] # "\n"
    <3>1. CASE i \in 1..m
      BY <1>2, <1>3, <3>1
    <3>2. CASE i = m + 1 \/ i = m + 2 \/ i = m + 3
      BY <1>b, <1>2, <3>2
    <3>3. CASE i > m + 3
      <4> DEFINE j == i - m - 3
      <4>1. j \in 1..n /\ m + 3 + j = i
        BY <1>0, <1>2, <3>3
      <4> HIDE DEF j
      <4> QED
        BY <1>2, <1>3, <4>1
    <3>4. i \in 1..m \/ i = m + 1 \/ i = m + 2 \/ i = m + 3 \/ i > m + 3
      BY <1>0, <1>2
    <3> QED
      BY <3>1, <3>2, <3>3, <3>4
  <2> QED
    BY <1>2, <2>1 DEF Line
<1>5. FirstOf("=", l) = m + 2
  <2> DEFINE p == m + 2
  <2>1. p \in 1..Len(l) /\ l[p] = "="
    BY <1>0, <1>2
  <2>2. ASSUME NEW i \in 1..(p - 1) PROVE l[i] # "="
    <3>1. i \in 1..m \/ i = m + 1
      BY <1>0
    <3> QED
      BY <1>b, <1>2, <1>3, <3>1
  <2> HIDE DEF p
  <2>3. FirstOf("=", l) = p
    BY <1>2, <2>1, <2>2, FirstOfIs
  <2> QED
    BY <2>3 DEF p
<1>6. Before("=", l) = k
  <2> DEFINE u == SubSeq(l, 1, m + 1)
  <2>1. Before("=", l) = trim(u)
    <3>1. (m + 2) - 1 = m + 1 /\ m + 2 # 0
      BY <1>0
    <3> QED
      BY <1>5, <3>1 DEF Before
  <2>2. u \in Text /\ Len(u) = m + 1 /\ \A i \in 1..(m + 1) : u[i] = l[i]
    BY <1>0, <1>2 DEF Text
  <2> HIDE DEF u
  <2>3. u[m + 1] \in Blank /\ \A i \in 1..m : u[i] = k[i]
    BY <1>0, <1>b, <1>2, <2>2
  <2>4. trim(u) = k
    BY <1>3, <2>2, <2>3, TrimAround
  <2> QED
    BY <2>1, <2>4
<1>7. Behind("=", l) = v
  <2> DEFINE p == m + 3
             q == m + 3 + n
             u == SubSeq(l, p, q)
  <2>1. Behind("=", l) = trim(u)
    <3>1. (m + 2) + 1 = p
      BY <1>0
    <3> QED
      BY <1>2, <1>5, <3>1 DEF Behind
  <2>2. u \in Text /\ Len(u) = n + 1 /\ \A i \in 1..(n + 1) : u[i] = l[m + 2 + i]
    <3>1. p \in 1..Len(l) /\ q = Len(l) /\ q - p + 1 = n + 1 /\ p - 1 = m + 2 /\ p \in Nat /\ q \in Nat
      BY <1>0, <1>2
    <3> HIDE DEF p, q
    <3>2. SubSeq(l, p, q) \in Text /\ Len(SubSeq(l, p, q)) = q - p + 1
          /\ \A i \in 1..(q - p + 1) : SubSeq(l, p, q)[i] = l[p - 1 + i]
      BY <1>2, <3>1 DEF Text
    <3> QED
      BY <3>1, <3>2
  <2> HIDE DEF u
  <2>3. u[1] \in Blank /\ \A i \in 1..n : u[i + 1] = v[i]
    <3>1. u[1] = l[m + 3]
      BY <1>0, <2>2
    <3>2. ASSUME NEW i \in 1..n PROVE u[i + 1] = v[i]
      <4>1. i + 1 \in 1..(n + 1) /\ m + 2 + (i + 1) = m + 3 + i
        BY <1>0
      <4> QED
        BY <1>2, <2>2, <4>1
    <3> QED
      BY <1>b, <1>2, <3>1, <3>2
  <2>4. trim(u) = v
    BY <1>3, <2>2, <2>3, TrimAround
  <2> QED
    BY <2>1, <2>4
<1>8. trim(l) # <<>> /\ trim(l)[1] # "["
  <2>1. CASE m # 0
    <3>1. k # <<>> /\ k[1] \notin Blank
      BY <1>0, <1>3, <2>1, TrimWhole
    <3>2. l # <<>> /\ l[1] = k[1] /\ k[1] # "["
      BY <1>0, <1>2, <2>1, <3>1 DEF SavableKey, NamesSection, Text
    <3> QED
      BY <1>2, <3>1, <3>2, TrimBegins
  <2>2. CASE m = 0
    <3> DEFINE q == Len(l)
               w == SubSeq(l, 2, q)
    <3>1. q \in Nat /\ q >= 3 /\ l[1] = b /\ l[2] = "="
      BY <1>0, <1>2, <2>2
    <3>2. 2 \in 1..(Len(l) + 1) /\ q \in (2 - 1)..Len(l)
          /\ \A i \in 1..Len(l) : i < 2 \/ i > q => l[i] \in Blank
      <4>1. \A i \in 1..Len(l) : i < 2 \/ i > q => i = 1
        BY <3>1
      <4> QED
        BY <1>b, <3>1, <4>1
    <3>3. w # <<>> /\ w[1] = "="
      BY <1>2, <3>1 DEF Text
    <3> HIDE DEF q
    <3>4. w \in Text /\ trim(w) = trim(l)
      BY <1>2, <3>2, TrimWithin
    <3> HIDE DEF w
    <3>5. w[1] \notin Blank
      BY <1>b, <3>3
    <3> QED
      BY <3>3, <3>4, <3>5, TrimBegins
  <2> QED
    BY <2>1, <2>2
<1>9. Before("=", trim(l)) = k /\ Behind("=", trim(l)) = v
  BY <1>b, <1>2, <1>6, <1>7, TrimmedFirst
<1> QED
  BY <1>4, <1>8, <1>9 DEF NamesSection, l, e

\* What e has for the first j keys.
OfFirst(e, keys, j) == [k \in {keys[i] : i \in 1..j} |-> e[k]]

LEMMA EntriesNext ==
  ASSUME NEW e, NEW keys, NEW j \in Nat
  PROVE  /\ OfFirst(e, keys, 0) = Empty
         /\ OfFirst(e, keys, j + 1) = With(OfFirst(e, keys, j), keys[j+1], e[keys[j+1]])
<1>1. 1..0 = {} /\ 1..(j + 1) = (1..j) \cup {j + 1}
  OBVIOUS
<1>2. {keys[i] : i \in 1..(j + 1)} = {keys[i] : i \in 1..j} \cup {keys[j+1]}
  BY <1>1
<1>3. {keys[i] : i \in 1..0} = {}
  BY <1>1
<1>4. OfFirst(e, keys, 0) = Empty
  BY <1>3 DEF OfFirst, Empty
<1>5. OfFirst(e, keys, j + 1) = With(OfFirst(e, keys, j), keys[j+1], e[keys[j+1]])
  <2> DEFINE D == {keys[i] : i \in 1..j}
             x == keys[j+1]
  <2>1. OfFirst(e, keys, j + 1) = [k \in D \cup {x} |-> e[k]]
    BY <1>2 DEF OfFirst
  <2>2. OfFirst(e, keys, j) = [k \in D |-> e[k]]
    BY DEF OfFirst
  <2> HIDE DEF D, x
  <2> QED
    BY <2>1, <2>2 DEF With, x
<1> QED
  BY <1>4, <1>5

\* With all keys or names, these are all entries or sections.
LEMMA EntriesAll ==
  ASSUME NEW e, IsFcn(e), IsFiniteSet(DOMAIN e)
  PROVE  LET keys == SetToSeq(DOMAIN e) IN OfFirst(e, keys, Len(keys)) = e
<1> DEFINE keys == SetToSeq(DOMAIN e)
           n == Len(keys)
<1>1. /\ keys \in Seq(DOMAIN e) /\ DOMAIN keys = 1..n
      /\ \A x \in DOMAIN e : \E i \in 1..n : keys[i] = x
  BY EnumIs
<1> HIDE DEF keys
<1>2. \A i \in 1..n : keys[i] \in DOMAIN e
  BY <1>1
<1>3. {keys[i] : i \in 1..n} = DOMAIN e
  BY <1>1, <1>2
<1> HIDE DEF n
<1>4. OfFirst(e, keys, n) = e
  BY <1>3 DEF OfFirst, IsFcn
<1> QED
  BY <1>4 DEF keys, n

\* Without such texts, SMT loses the arithmetic.
KeyLine(k, v) == k \o <<" ", "=", " ">> \o v

LEMMA BlockIs ==
  ASSUME NEW table, IsTable(table), NEW s \in DOMAIN table
  PROVE  LET e == table[s]
             keys == SetToSeq(DOMAIN e)
             n == Len(keys)
             b == Block(table, s) IN
         /\ n \in Nat /\ \A j \in 1..n : keys[j] \in DOMAIN e
         /\ Len(b) = n + 2 /\ b[1] = <<"[">> \o s \o <<"]">> /\ b[n + 2] = <<>>
         /\ \A j \in 1..n : b[j+1] = KeyLine(keys[j], e[keys[j]])
<1> DEFINE e == table[s]
           keys == SetToSeq(DOMAIN e)
           n == Len(keys)
           b == Block(table, s)
           h == <<"[">> \o s \o <<"]">>
           el == EntryLines(e)
<1>1. IsEntries(e)
  BY DEF IsTable
<1>2. n \in Nat /\ \A j \in 1..n : keys[j] \in DOMAIN e
  <2>1. keys \in Seq(DOMAIN e)
    BY <1>1, EnumIs DEF IsEntries
  <2> HIDE DEF keys
  <2> QED
    BY <2>1
<1>3. Len(el) = n /\ \A j \in 1..n : el[j] = KeyLine(keys[j], e[keys[j]])
  BY <1>1, EntryLinesType, Zenon DEF KeyLine
<1>4. /\ Len(b) = Len(el) + 2 /\ b[1] = h /\ b[Len(el) + 2] = <<>>
      /\ \A j \in 1..Len(el) : b[j+1] = el[j]
  <2>1. Len(b) = Len(el) + 2
    BY BlockType, Zenon
  <2>2. b[1] = h
    BY BlockType, Zenon
  <2>3. b[Len(el) + 2] = <<>>
    BY BlockType, Zenon
  <2>4. ASSUME NEW j \in 1..Len(el) PROVE b[j+1] = el[j]
    <3>1. \A i \in 1..Len(EntryLines(table[s])) : Block(table, s)[i+1] = EntryLines(table[s])[i]
      BY BlockType
    <3> QED
      BY <3>1
  <2> QED
    BY <2>1, <2>2, <2>3, <2>4, Zenon
<1> HIDE DEF h, el, b, keys, e, n
<1>5. Len(b) = n + 2 /\ b[1] = h /\ b[n + 2] = <<>>
      /\ \A j \in 1..n : b[j+1] = KeyLine(keys[j], e[keys[j]])
  BY <1>3, <1>4, Zenon
<1> QED
  BY <1>2, <1>5, Zenon DEF h, b, keys, e, n

\* Reading the lines of a section.
LEMMA BlockRead ==
  ASSUME NEW table, IsTable(table), Savable(table), NEW s \in DOMAIN table,
         NEW f, \A i \in 1..Len(Block(table, s)) : f[i] = LoadLine(f[i-1], Block(table, s)[i])
  PROVE  f[Len(Block(table, s))].table = With(f[0].table, s, table[s])
<1> DEFINE e == table[s]
           keys == SetToSeq(DOMAIN e)
           n == Len(keys)
           b == Block(table, s)
           t0 == f[0].table
           State(j) == [table |-> With(t0, s, OfFirst(e, keys, j)), in |-> s]
           T == {j \in Nat : j \in 0..n => f[j+1] = State(j)}
<1>1. /\ IsEntries(e) /\ s \in Text /\ SavableSection(s)
      /\ \A k \in DOMAIN e : SavableKey(k) /\ Plain(e[k]) /\ k \in Text /\ e[k] \in Text
  BY DEF IsTable, Savable, IsEntries
<1>2. n \in Nat /\ \A j \in 1..n : keys[j] \in DOMAIN e
  BY BlockIs, Zenon
<1>4. /\ Len(b) = n + 2 /\ b[1] = <<"[">> \o s \o <<"]">> /\ b[n + 2] = <<>>
      /\ \A j \in 1..n : b[j+1] = KeyLine(keys[j], e[keys[j]])
  BY BlockIs, Zenon
<1>5. \A i \in 1..(n + 2) : f[i] = LoadLine(f[i-1], b[i])
  BY <1>4
<1> HIDE DEF b, e, keys, n, t0
<1>6. 0 \in T
  <2>1. NamesSection(trim(b[1])) /\ SectionName(trim(b[1])) = s
    BY <1>1, <1>4, HeaderLine
  <2>2. f[1] = LoadLine(f[0], b[1])
    BY <1>2, <1>5
  <2>3. LoadLine(f[0], b[1]) = [table |-> With(t0, s, Empty), in |-> s]
    BY <2>1 DEF LoadLine, NamesSection, t0
  <2>4. OfFirst(e, keys, 0) = Empty
    BY EntriesNext
  <2> QED
    BY <2>2, <2>3, <2>4
<1>7. ASSUME NEW j \in T PROVE j + 1 \in T
  <2> SUFFICES ASSUME j + 1 \in 0..n PROVE f[(j+1)+1] = State(j+1)
    OBVIOUS
  <2>1. j \in Nat /\ j \in 0..n /\ j + 1 \in 1..n /\ (j+1)+1 \in 1..(n + 2) /\ ((j+1)+1) - 1 = j + 1
    BY <1>2
  <2> DEFINE k == keys[j+1]
             v == e[k]
             l == KeyLine(k, v)
             w == With(t0, s, OfFirst(e, keys, j))
  <2>2. f[(j+1)+1] = LoadLine(f[j+1], b[(j+1)+1])
    <3> DEFINE x == (j+1)+1
    <3>1. x \in 1..(n + 2) /\ x - 1 = j + 1
      BY <2>1
    <3> HIDE DEF x
    <3>2. f[x] = LoadLine(f[j+1], b[x])
      BY <1>5, <3>1
    <3> QED
      BY <3>2 DEF x
  <2>3. f[j+1] = [table |-> w, in |-> s] /\ b[(j+1)+1] = l
    BY <1>4, <2>1
  <2>4. k \in Text /\ v \in Text /\ SavableKey(k) /\ Plain(v)
    BY <1>1, <1>2, <2>1
  <2> HIDE DEF k, v
  <2>5. trim(l) # <<>> /\ ~NamesSection(trim(l)) /\ Before("=", trim(l)) = k /\ Behind("=", trim(l)) = v
    BY <2>4, EntryLine, Zenon DEF KeyLine
  <2> HIDE DEF l, w
  <2>6. LoadLine([table |-> w, in |-> s], l) = [table |-> WithEntry(w, s, k, v), in |-> s]
    BY <2>5 DEF LoadLine
  <2>7. WithEntry(w, s, k, v) = With(t0, s, OfFirst(e, keys, j + 1))
    <3> DEFINE p == OfFirst(e, keys, j)
               q == OfFirst(e, keys, j + 1)
    <3>1. q = With(p, k, v)
      BY <2>1, EntriesNext DEF k, v
    <3> HIDE DEF p, q
    <3>2. w = With(t0, s, p)
      BY DEF w, p
    <3>3. Section(w, s) = p
      BY <3>2, SectionWith
    <3>4. With(With(t0, s, p), s, q) = With(t0, s, q)
      BY DEF With
    <3>5. WithEntry(w, s, k, v) = With(t0, s, q)
      BY <3>1, <3>2, <3>3, <3>4 DEF WithEntry
    <3> QED
      BY <3>5 DEF q
  <2> QED
    BY <2>2, <2>3, <2>6, <2>7
<1> HIDE DEF T
<1>8. T = Nat
  <2>1. T \subseteq Nat
    BY DEF T
  <2> QED
    BY <1>6, <1>7, <2>1, Induction
<1>9. f[n+1] = State(n)
  BY <1>2, <1>8 DEF T
<1>10. f[n+2] = f[n+1]
  <2> DEFINE x == n + 2
  <2>1. x \in 1..(n + 2) /\ x - 1 = n + 1
    BY <1>2
  <2> HIDE DEF x
  <2>2. f[x] = LoadLine(f[n+1], b[x])
    BY <1>5, <2>1
  <2>3. b[x] = <<>>
    BY <1>4 DEF x
  <2>4. trim(<<>>) = <<>>
    <3>1. <<>> \in Text /\ \A i \in 1..Len(<<>>) : <<>>[i] \in Blank
      BY DEF Text
    <3> QED
      BY <3>1, TrimBlank
  <2>5. LoadLine(f[n+1], <<>>) = f[n+1]
    BY <2>4 DEF LoadLine
  <2> QED
    BY <2>2, <2>3, <2>5 DEF x
<1>11. OfFirst(e, keys, n) = e
  BY <1>1, EntriesAll DEF IsEntries, keys, n
<1> QED
  BY <1>4, <1>9, <1>10, <1>11 DEF b, e, t0

\* The lines of a savable section are lines.
LEMMA BlockLines ==
  ASSUME NEW table, IsTable(table), Savable(table), NEW s \in DOMAIN table
  PROVE  Block(table, s) \in Seq(Line)
<1> DEFINE e == table[s]
           keys == SetToSeq(DOMAIN e)
           n == Len(keys)
           b == Block(table, s)
           h == <<"[">> \o s \o <<"]">>
<1>1. /\ s \in Text /\ SavableSection(s)
      /\ \A k \in DOMAIN e : SavableKey(k) /\ Plain(e[k]) /\ k \in Text /\ e[k] \in Text
  BY DEF IsTable, Savable, IsEntries
<1>2. n \in Nat /\ \A j \in 1..n : keys[j] \in DOMAIN e
  BY BlockIs, Zenon
<1>4. /\ Len(b) = n + 2 /\ b[1] = h /\ b[n + 2] = <<>>
      /\ \A j \in 1..n : b[j+1] = KeyLine(keys[j], e[keys[j]])
  BY BlockIs, Zenon
<1>t. b \in Seq(Text)
  BY BlockType
<1> HIDE DEF b, e, keys, n
<1>5. h \in Line
  BY <1>1, HeaderLine
<1> HIDE DEF h
<1>6. <<>> \in Line
  BY DEF Line, Text
<1>7. ASSUME NEW j \in 1..n PROVE b[j+1] \in Line
  <2>1. keys[j] \in Text /\ e[keys[j]] \in Text /\ SavableKey(keys[j]) /\ Plain(e[keys[j]])
    BY <1>1, <1>2
  <2>2. KeyLine(keys[j], e[keys[j]]) \in Line
    BY <2>1, EntryLine, Zenon DEF KeyLine
  <2> QED
    BY <1>4, <2>2
<1>8. ASSUME NEW i \in 1..(n + 2) PROVE b[i] \in Line
  <2>1. CASE i = 1
    BY <1>4, <1>5, <2>1
  <2>2. CASE i = n + 2
    BY <1>4, <1>6, <2>2
  <2>3. CASE i # 1 /\ i # n + 2
    <3> DEFINE j == i - 1
    <3>1. j \in 1..n /\ j + 1 = i
      BY <1>2, <2>3
    <3> HIDE DEF j
    <3> QED
      BY <1>7, <3>1
  <2> QED
    BY <2>1, <2>2, <2>3
<1>9. b \in Seq(Line)
  BY <1>2, <1>4, <1>t, <1>8
<1> QED
  BY <1>9 DEF b

LEMMA SavedLines ==
  ASSUME NEW table, IsTable(table), Savable(table)
  PROVE  Blocks(table) \in Seq(Seq(Line)) /\ str(table) \in Seq(Line)
<1> DEFINE p == Blocks(table)
           n == Len(p)
<1>1. /\ p \in Seq(Seq(Text)) /\ str(table) = FlattenSeq(p)
      /\ \A i \in 1..n : p[i] \in Seq(Line)
  BY BlocksType, BlockLines
<1> HIDE DEF p
<1>2. p \in Seq(Seq(Line))
  BY <1>1
<1>3. FlattenSeq(p) \in Seq(Line)
  BY <1>2, FlattenType
<1> QED
  BY <1>1, <1>2, <1>3 DEF p

\* Reading what is written, section by section.
LEMMA ReadBack ==
  ASSUME NEW table, IsTable(table), Savable(table)
  PROVE  Loaded(Empty, str(table)) = table
<1> DEFINE names == SetToSeq(DOMAIN table)
           p == Blocks(table)
           n == Len(p)
           lines == str(table)
           st == AfterLines(Empty, lines)
           T == {i \in Nat : i \in 0..n => st[EndOf(p, i)].table = OfFirst(table, names, i)}
<1>1. /\ p \in Seq(Seq(Line)) /\ lines \in Seq(Line) /\ lines = FlattenSeq(p)
      /\ n = Len(names)
      /\ \A i \in 1..n : names[i] \in DOMAIN table /\ p[i] = Block(table, names[i])
  BY BlocksType, SavedLines
<1>2. /\ st[0] = [table |-> Empty, in |-> <<>>]
      /\ \A i \in 1..Len(lines) : st[i] = LoadLine(st[i-1], lines[i])
  <2>1. Len(lines) \in Nat
    BY <1>1
  <2> QED
    BY <2>1, LineByLine
<1>3. OfFirst(table, names, n) = table
  <2>1. IsFcn(table) /\ IsFiniteSet(DOMAIN table)
    BY DEF IsTable
  <2>2. OfFirst(table, names, Len(names)) = table
    BY <2>1, EntriesAll
  <2> QED
    BY <1>1, <2>2
<1> HIDE DEF names, p, lines, st
<1>4. n \in Nat /\ EndOf(p, 0) = 0 /\ EndOf(p, n) = Len(lines)
  BY <1>1, JoinedAll
<1> HIDE DEF n
<1>5. 0 \in T
  <2>1. OfFirst(table, names, 0) = Empty
    BY EntriesNext
  <2> QED
    BY <1>2, <1>4, <2>1
<1>6. ASSUME NEW i \in T PROVE i + 1 \in T
  <2> SUFFICES ASSUME i + 1 \in 0..n
               PROVE  st[EndOf(p, i + 1)].table = OfFirst(table, names, i + 1)
    OBVIOUS
  <2> DEFINE j == i + 1
             a == EndOf(p, i)
             s == names[j]
             m == Len(p[j])
             f == [k \in 0..m |-> st[a + k]]
  <2>1. i \in Nat /\ i \in 0..n /\ j \in 1..n /\ i + 1 <= Len(p)
    BY <1>4 DEF n
  <2>2. st[a].table = OfFirst(table, names, i)
    BY <2>1 DEF T
  <2>3. s \in DOMAIN table /\ p[j] = Block(table, s)
    BY <1>1, <2>1
  <2>4. EndOf(p, i + 1) = a + m /\ p[j] \in Seq(Line)
    BY <1>1, <2>1, JoinedNext
  <2>5. a \in Nat /\ m \in Nat
    <3>1. i \in 0..Len(p)
      BY <2>1
    <3>2. a \in Nat
      BY <1>1, <3>1, JoinedType
    <3> QED
      BY <2>4, <3>2
  <2>6. a + m <= Len(lines) /\ \A k \in 1..m : lines[a + k] = p[j][k]
    BY <1>1, <2>1, PartAt
  <2>7. Len(lines) \in Nat
    BY <1>1
  <2> HIDE DEF a, s, m
  <2>8. ASSUME NEW k \in 1..m PROVE f[k] = LoadLine(f[k-1], p[j][k])
    <3> DEFINE q == a + k
    <3>1. q \in 1..Len(lines) /\ q - 1 = a + (k - 1) /\ k - 1 \in 0..m /\ k \in 0..m
      BY <2>5, <2>6, <2>7
    <3>2. lines[q] = p[j][k]
      BY <2>6
    <3>3. f[k] = st[q] /\ f[k-1] = st[a + (k - 1)]
      BY <3>1
    <3> HIDE DEF q, f
    <3>4. st[q] = LoadLine(st[q-1], lines[q])
      BY <1>2, <3>1
    <3> QED
      BY <3>1, <3>2, <3>3, <3>4
  <2>9. f[0] = st[a] /\ f[m] = st[a + m]
    BY <2>5
  <2> HIDE DEF f
  <2>10. f[m].table = With(f[0].table, s, table[s])
    <3>1. m = Len(Block(table, s))
      BY <2>3 DEF m
    <3>2. \A k \in 1..Len(Block(table, s)) : f[k] = LoadLine(f[k-1], Block(table, s)[k])
      BY <2>3, <2>8, <3>1
    <3> QED
      BY <2>3, <3>1, <3>2, BlockRead
  <2>11. OfFirst(table, names, i + 1) = With(OfFirst(table, names, i), s, table[s])
    BY <2>1, EntriesNext DEF s
  <2> QED
    BY <2>2, <2>4, <2>9, <2>10, <2>11
<1> HIDE DEF T
<1>7. T = Nat
  <2>1. T \subseteq Nat
    BY DEF T
  <2> QED
    BY <1>5, <1>6, <2>1, Induction
<1>8. st[EndOf(p, n)].table = OfFirst(table, names, n)
  BY <1>4, <1>7 DEF T
<1> QED
  BY <1>3, <1>4, <1>8 DEF Loaded, st, lines

\* A table comes back as it was from save() and a load() into a new IniFile if,
\* and only if, its text is savable.
THEOREM RoundTrips == StartSpec => []RoundTrip
<1>1. ASSUME IsTable(m_sections), Savable(m_sections)
      PROVE  Loaded(Empty, Lines(str(m_sections))) = m_sections
  <2>1. str(m_sections) \in Seq(Line)
    BY <1>1, SavedLines
  <2>2. Lines(str(m_sections)) = str(m_sections)
    BY <2>1, LinesSame
  <2> QED
    BY <1>1, <2>2, ReadBack
<1>2. ASSUME IsTable(m_sections), Loaded(Empty, Lines(str(m_sections))) = m_sections
      PROVE  Savable(m_sections)
  <2>1. Lines(str(m_sections)) \in Seq(Line)
    BY <1>2, BlocksType, LinesType
  <2>2. Savable(Loaded(Empty, Lines(str(m_sections))))
    BY <2>1, LoadedSavable
  <2> QED
    BY <1>2, <2>2
<1>3. TableInv => RoundTrip
  BY <1>1, <1>2 DEF TableInv, RoundTrip
<1>4. QED
  BY <1>3, TablesTyped, PTL

-----------------------------------------------------------------------------
(* The port. *)

Header(line) == NamesSection(trim(line))

\* The lines up to i, behind line h and before the next section, that say the port.
PortLines(lines, h, i) ==
  {k \in (h + 1)..i : (\A j \in (h + 1)..k : ~Header(lines[j])) /\ Before("=", lines[k]) = Port}

\* What is read of the port after i lines, if the last "[server]" is line h.
PortRead(lines, h, i, st) ==
  LET server == Section(st.table, Server)
      ports == PortLines(lines, h, i) IN
  /\ st.in = Server <=> \A j \in (h + 1)..i : ~Header(lines[j])
  /\ Port \in DOMAIN server <=> ports # {}
  /\ \A k \in ports : (\A j \in ports : j <= k) => server[Port] = Behind("=", lines[k])

LEMMA PortLinesGrow ==
  ASSUME NEW lines, NEW h \in Nat, NEW i \in Nat, h <= i
  PROVE  PortLines(lines, h, i + 1) =
           PortLines(lines, h, i) \cup
             (IF (\A j \in (h + 1)..(i + 1) : ~Header(lines[j])) /\ Before("=", lines[i+1]) = Port
              THEN {i + 1} ELSE {})
<1>1. (h + 1)..(i + 1) = ((h + 1)..i) \cup {i + 1}
  OBVIOUS
<1> QED
  BY <1>1 DEF PortLines

LEMMA PortLinesNext ==
  ASSUME NEW lines, NEW h \in Nat, NEW i \in Nat, h <= i
  PROVE  /\ PortLines(lines, h, h) = {}
         /\ PortLines(lines, h, i) \subseteq (h + 1)..i
         /\ (\A j \in (h + 1)..(i + 1) : ~Header(lines[j]))
              <=> (\A j \in (h + 1)..i : ~Header(lines[j])) /\ ~Header(lines[i+1])
<1>1. (h + 1)..h = {} /\ (h + 1)..(i + 1) = ((h + 1)..i) \cup {i + 1}
  OBVIOUS
<1> QED
  BY <1>1 DEF PortLines

LEMMA PortStep ==
  ASSUME NEW lines \in Seq(Text), NEW h \in Nat, NEW i \in Nat, h <= i, i + 1 \in 1..Len(lines),
         NEW st, IsState(st), PortRead(lines, h, i, st),
         ~(Header(lines[i+1]) /\ SectionName(trim(lines[i+1])) = Server)
  PROVE  PortRead(lines, h, i + 1, LoadLine(st, lines[i+1]))
<1> DEFINE l == lines[i+1]
           t == trim(l)
           k == Before("=", t)
           v == Behind("=", t)
           e == Section(st.table, Server)
           P == PortLines(lines, h, i)
           Q == PortLines(lines, h, i + 1)
           open == \A j \in (h + 1)..i : ~Header(lines[j])
           open1 == \A j \in (h + 1)..(i + 1) : ~Header(lines[j])
           s1 == LoadLine(st, l)
           e1 == Section(s1.table, Server)
<1>b. /\ open \in BOOLEAN /\ open1 \in BOOLEAN /\ Header(l) \in BOOLEAN
      /\ P \subseteq (h + 1)..i
  BY PortLinesNext DEF Header, NamesSection
<1>1. /\ open1 <=> (open /\ ~Header(l))
      /\ Q = P \cup (IF open1 /\ Before("=", l) = Port THEN {i + 1} ELSE {})
  <2>1. open1 <=> (open /\ ~Header(l))
    BY PortLinesNext
  <2>2. Q = P \cup (IF open1 /\ Before("=", l) = Port THEN {i + 1} ELSE {})
    BY PortLinesGrow
  <2> QED
    BY <2>1, <2>2
<1>2. l \in Text
  OBVIOUS
<1>3. "=" \notin Blank
  BY DEF Blank
<1>4. k = Before("=", l) /\ v = Behind("=", l)
  BY <1>2, <1>3, TrimmedFirst
<1>5. /\ st.in = Server <=> open
      /\ Port \in DOMAIN e <=> P # {}
      /\ \A x \in P : (\A j \in P : j <= x) => e[Port] = Behind("=", lines[x])
  BY DEF PortRead
<1> SUFFICES /\ s1.in = Server <=> open1
             /\ Port \in DOMAIN e1 <=> Q # {}
             /\ \A x \in Q : (\A j \in Q : j <= x) => e1[Port] = Behind("=", lines[x])
  BY DEF PortRead
<1> HIDE DEF l, P, Q, open, open1, e
<1>6. CASE t = <<>>
  <2>1. s1 = st
    BY <1>6 DEF LoadLine
  <2>2. ~Header(l)
    BY <1>6 DEF Header, NamesSection
  <2>3. Before("=", l) # Port
    <3>1. <<>> \in Text /\ Len(<<>>) = 0
      BY DEF Text
    <3>2. Before("=", <<>>) = <<>>
      <4>1. FirstOf("=", <<>>) = 0
        BY <3>1, FirstOfNone
      <4>2. trim(<<>>) = <<>>
        BY <3>1, TrimBlank
      <4> QED
        BY <4>1, <4>2 DEF Before
    <3> QED
      BY <1>4, <1>6, <3>2, NamesAreTexts
  <2>4. e1 = e
    BY <2>1 DEF e
  <2> HIDE DEF s1, e1
  <2> QED
    BY <1>1, <1>5, <2>1, <2>2, <2>3, <2>4
<1>7. CASE t # <<>> /\ NamesSection(t)
  <2>1. s1 = [table |-> With(st.table, SectionName(t), Empty), in |-> SectionName(t)]
    BY <1>7 DEF LoadLine
  <2>2. Header(l) /\ SectionName(t) # Server
    BY <1>7 DEF Header, l
  <2>3. e1 = e
    BY <2>1, <2>2 DEF Section, With, e
  <2>4. s1.in # Server
    BY <2>1, <2>2
  <2> HIDE DEF s1, e1
  <2> QED
    BY <1>1, <1>5, <2>2, <2>3, <2>4
<1>8. CASE t # <<>> /\ ~NamesSection(t)
  <2>1. s1 = [table |-> WithEntry(st.table, st.in, k, v), in |-> st.in]
    BY <1>8 DEF LoadLine
  <2>2. ~Header(l)
    BY <1>8 DEF Header
  <2>3. s1.in = Server <=> open1
    BY <1>1, <1>5, <2>1, <2>2
  <2>4. CASE st.in # Server
    <3>1. e1 = e
      BY <2>1, <2>4 DEF Section, WithEntry, With, e
    <3> HIDE DEF s1, e1
    <3> QED
      BY <1>1, <1>5, <2>3, <2>4, <3>1
  <2>5. CASE st.in = Server
    <3>1. e1 = With(e, k, v)
      BY <2>1, <2>5 DEF Section, WithEntry, With, e
    <3>2. open1
      BY <1>1, <1>5, <2>2, <2>5
    <3>3. CASE k = Port
      <4>1. Q = P \cup {i + 1}
        BY <1>1, <1>4, <3>2, <3>3
      <4>2. Port \in DOMAIN e1 /\ e1[Port] = v
        BY <3>1, <3>3 DEF With
      <4>3. ASSUME NEW x \in Q, \A j \in Q : j <= x PROVE e1[Port] = Behind("=", lines[x])
        <5>1. x = i + 1
          <6>1. i + 1 <= x /\ x \in P \cup {i + 1}
            BY <4>1, <4>3
          <6> QED
            BY <1>b, <6>1
        <5> QED
          BY <1>4, <4>2, <5>1 DEF l
      <4> HIDE DEF s1, e1
      <4> QED
        BY <2>3, <4>1, <4>2, <4>3
    <3>4. CASE k # Port
      <4>1. Q = P
        BY <1>1, <1>4, <3>4
      <4>2. /\ Port \in DOMAIN e1 <=> Port \in DOMAIN e
            /\ Port \in DOMAIN e => e1[Port] = e[Port]
        BY <3>1, <3>4 DEF With
      <4> HIDE DEF s1, e1
      <4> QED
        BY <1>5, <2>3, <4>1, <4>2
    <3> QED
      BY <3>3, <3>4
  <2> QED
    BY <2>4, <2>5
<1> QED
  BY <1>6, <1>7, <1>8

LEMMA PortReads ==
  ASSUME NEW lines \in Seq(Text), NEW h \in 1..Len(lines),
         Header(lines[h]), SectionName(trim(lines[h])) = Server,
         \A i \in (h + 1)..Len(lines) :
           ~(Header(lines[i]) /\ SectionName(trim(lines[i])) = Server)
  PROVE  PortRead(lines, h, Len(lines), AfterLines(Empty, lines)[Len(lines)])
<1> DEFINE n == Len(lines)
           st == AfterLines(Empty, lines)
           T == {i \in Nat : h + i <= n => PortRead(lines, h, h + i, st[h + i])}
<1>1. n \in Nat /\ h \in Nat /\ h \in 1..n
  OBVIOUS
<1>2. \A i \in 1..n : st[i] = LoadLine(st[i-1], lines[i])
  BY <1>1, LineByLine
<1>3. \A i \in 0..n : IsState(st[i])
  BY ReadType, EmptyIs
<1> HIDE DEF st
<1>4. 0 \in T
  <2>1. st[h] = LoadLine(st[h-1], lines[h])
    BY <1>1, <1>2
  <2>2. LoadLine(st[h-1], lines[h]) = [table |-> With(st[h-1].table, Server, Empty), in |-> Server]
    BY DEF LoadLine, Header, NamesSection
  <2>3. Section(st[h].table, Server) = Empty /\ st[h].in = Server
    BY <2>1, <2>2, SectionWith
  <2>4. PortLines(lines, h, h) = {}
    BY <1>1, PortLinesNext
  <2>5. (h + 1)..h = {}
    BY <1>1
  <2>6. PortRead(lines, h, h, st[h])
    BY <2>3, <2>4, <2>5, EmptyIs DEF PortRead
  <2>7. h + 0 = h
    BY <1>1
  <2> QED
    BY <2>6, <2>7
<1>5. ASSUME NEW i \in T PROVE i + 1 \in T
  <2> SUFFICES ASSUME h + (i + 1) <= n PROVE PortRead(lines, h, h + (i + 1), st[h + (i + 1)])
    OBVIOUS
  <2> DEFINE k == h + i
  <2>1. k \in Nat /\ h <= k /\ k + 1 = h + (i + 1) /\ k + 1 \in 1..n /\ k \in 0..n
        /\ (k + 1) - 1 = k /\ k + 1 \in (h + 1)..n
    BY <1>1
  <2>2. PortRead(lines, h, k, st[k])
    BY <2>1
  <2> HIDE DEF k, n
  <2>3. PortRead(lines, h, k + 1, LoadLine(st[k], lines[k+1]))
    BY <1>1, <1>3, <2>1, <2>2, PortStep DEF n
  <2>4. st[k+1] = LoadLine(st[k], lines[k+1])
    BY <1>2, <2>1
  <2> QED
    BY <2>1, <2>3, <2>4
<1> HIDE DEF T
<1>6. T = Nat
  <2>1. T \subseteq Nat
    BY DEF T
  <2> QED
    BY <1>4, <1>5, <2>1, Induction
<1>7. n - h \in T /\ h + (n - h) = n
  BY <1>1, <1>6
<1> QED
  BY <1>7 DEF T, st

LEMMA NoDigits == \A most : Number(<<>>, most) = 0
<1> TAKE most
<1> DEFINE Step(g) == [s \in SUBSET {} |->
             IF s = {} THEN 0
             ELSE LET x == Max(s) IN Min({10 * g[s \ {x}] + Digit[<<>>[x]], most})]
           iter == CHOOSE g : g = Step(g)
           zero == [s \in SUBSET {} |-> 0]
<1>1. DOMAIN <<>> = {}
  OBVIOUS
<1>2. Number(<<>>, most) = iter[{}]
  BY <1>1 DEF Number, FoldLeft, MapThenFoldSet
<1>3. zero = Step(zero)
  OBVIOUS
<1>4. iter = Step(iter)
  BY <1>3
<1> HIDE DEF iter
<1>5. iter[{}] = 0
  BY <1>4
<1> QED
  BY <1>2, <1>5

LEMMA IntOfZero == Int32(0) = 0
<1>1. IntModulus \in Nat \ {0} /\ IntModulus % 65536 = 0
  BY IntAssumption DEF PortModulus
<1>2. 0 % IntModulus = 0 /\ 0 < IntModulus \div 2
  BY <1>1
<1> QED
  BY <1>2 DEF Int32

LEMMA atoiEmpty == atoi(<<>>) = 0
<1>1. \A P \in {Space, DOMAIN Digit} : {i \in 1..Len(<<>>) : <<>>[i] \notin P} = {}
  OBVIOUS
<1>2. SelectInSeq(<<>>, LAMBDA c : c \notin Space) = 0
  BY <1>1 DEF SelectInSeq
<1>3. Digits(<<>>) = <<>>
  BY <1>1 DEF Digits, SelectInSeq
<1> QED
  BY <1>2, <1>3, NoDigits, IntOfZero DEF atoi

\* The port in the table that run() makes of a file is the one that its lines say.
LEMMA ConfigIs ==
  ASSUME disk \in Seq(Line)
  PROVE  atoi(Config[Server][Port]) = Written(disk)
<1> DEFINE lines == disk
           n == Len(lines)
           table == Loaded(Empty, lines)
           Names(i) == NamesSection(trim(lines[i]))
           servers == {i \in DOMAIN lines : Names(i) /\ SectionName(trim(lines[i])) = Server}
           ports == {i \in DOMAIN lines :
                       /\ i > Max(servers) /\ \A j \in Max(servers) + 1..i : ~Names(j)
                       /\ Before("=", lines[i]) = Port}
<1>1. lines \in Seq(Text) /\ n \in Nat /\ DOMAIN lines = 1..n
  BY LinesAreTexts
<1>2. Written(disk) = IF servers = {} \/ ports = {} THEN 0 ELSE atoi(Behind("=", lines[Max(ports)]))
  BY DEF Written
<1>3. ASSUME Port \notin DOMAIN Section(table, Server) PROVE atoi(Config[Server][Port]) = 0
  <2>1. Config = WithEntry(table, Server, Port, <<>>)
    BY <1>3 DEF Config
  <2>2. Config[Server][Port] = <<>>
    BY <2>1 DEF WithEntry, With
  <2> QED
    BY <2>2, atoiEmpty
<1>4. ASSUME Port \in DOMAIN Section(table, Server)
      PROVE  Config[Server][Port] = Section(table, Server)[Port]
  <2>1. Config = table /\ Server \in DOMAIN table
    BY <1>4, EmptyIs DEF Config, Section
  <2> QED
    BY <2>1 DEF Section
<1>5. CASE servers = {}
  <2>1. DOMAIN table \subseteq Named(lines, n) \cup {<<>>}
    BY <1>1, LoadedIs, EmptyIs
  <2>2. Server \notin Named(lines, n) /\ Server # <<>>
    BY <1>1, <1>5, NamesAreTexts DEF Named
  <2>3. Port \notin DOMAIN Section(table, Server)
    BY <2>1, <2>2, EmptyIs DEF Section
  <2> QED
    BY <1>2, <1>3, <1>5, <2>3
<1>6. CASE servers # {}
  <2>1. PICK h \in servers : \A k \in servers : h >= k
    BY <1>1, <1>6, GreatestNatural
  <2>2. Max(servers) = h
    <3>1. servers \in SUBSET Nat
      BY <1>1
    <3> HIDE DEF servers
    <3> QED
      BY <2>1, <3>1, MaxIs
  <2>3. h \in 1..n /\ Header(lines[h]) /\ SectionName(trim(lines[h])) = Server
    BY <1>1 DEF Header
  <2>4. \A i \in (h + 1)..n : ~(Header(lines[i]) /\ SectionName(trim(lines[i])) = Server)
    BY <1>1, <2>1, <2>3 DEF Header
  <2>5. PortRead(lines, h, n, AfterLines(Empty, lines)[n])
    BY <1>1, <2>3, <2>4, PortReads
  <2> DEFINE e == Section(table, Server)
  <2>6. /\ Port \in DOMAIN e <=> PortLines(lines, h, n) # {}
        /\ \A k \in PortLines(lines, h, n) : (\A j \in PortLines(lines, h, n) : j <= k)
             => e[Port] = Behind("=", lines[k])
    BY <2>5 DEF PortRead, Loaded
  <2>7. ports = PortLines(lines, h, n)
    <3>1. ports = {i \in 1..n : i > h /\ (\A j \in (h + 1)..i : ~Names(j)) /\ Before("=", lines[i]) = Port}
      BY <1>1, <2>2
    <3>2. \A i : i \in (h + 1)..n <=> i \in 1..n /\ i > h
      BY <1>1, <2>3
    <3> HIDE DEF ports
    <3> QED
      BY <3>1, <3>2 DEF PortLines, Header
  <2> HIDE DEF e, servers
  <2>8. CASE ports = {}
    BY <1>2, <1>3, <2>6, <2>7, <2>8 DEF e
  <2>9. CASE ports # {}
    <3>1. ports \in SUBSET (1..n)
      BY <1>1
    <3> HIDE DEF ports
    <3>2. PICK m \in ports : \A k \in ports : m >= k
      BY <1>1, <2>9, <3>1, GreatestNatural
    <3>3. Max(ports) = m
      BY <1>1, <3>1, <3>2, MaxIs
    <3>4. \A k \in ports : k <= m
      BY <1>1, <3>1, <3>2
    <3>5. e[Port] = Behind("=", lines[m]) /\ Port \in DOMAIN e
      BY <2>6, <2>7, <2>9, <3>2, <3>4
    <3> QED
      BY <1>2, <1>4, <1>6, <2>9, <3>3, <3>5 DEF e
  <2> QED
    BY <2>8, <2>9
<1> QED
  BY <1>5, <1>6

LEMMA ModulusIs == PortModulus \in Nat \ {0}
BY DEF PortModulus

\* A port has 16 bits.
LEMMA PortFits ==
  ASSUME NEW p \in 1..(PortModulus - 1)
  PROVE  p % PortModulus = p /\ p # 0
<1> DEFINE m == PortModulus
<1>1. m \in Nat \ {0}
  BY ModulusIs
<1> HIDE DEF m
<1>2. p \in 1..(m - 1)
  BY DEF m
<1>3. p \in 0..(m - 1) /\ p \in Nat /\ p = m * 0 + p /\ p # 0
  BY <1>1, <1>2
<1>4. p % m = p
  BY <1>1, <1>3, Remainder
<1> QED
  BY <1>3, <1>4 DEF m

\* The server listens on the port that the lines of its file say, or on any port if
\* they say none or 0: run() takes it from the table, whatever the file holds.
THEOREM ListensAsWritten == StartSpec => PortAsWritten
<1> DEFINE Step == phase = "off" /\ phase' # "off" =>
                     /\ port_' = Written(disk)
                     /\ phase' = "listening" /\ port_' \in 1..(PortModulus - 1) => bound' = port_'
<1>1. TableInv /\ [StartNext]_startVars => [Step]_startVars
  <2> SUFFICES ASSUME TableInv, StartNext, phase = "off", phase' # "off"
               PROVE  /\ port_' = Written(disk)
                      /\ phase' = "listening" /\ port_' \in 1..(PortModulus - 1) => bound' = port_'
    BY DEF Step
  <2>1. run
    BY DEF StartNext, Program, EpollFails, Exit, EditConfig
  <2>2. port_' = Written(disk)
    BY <2>1, ConfigIs DEF run, TableInv
  <2>3. ASSUME phase' = "listening", port_' \in 1..(PortModulus - 1) PROVE bound' = port_'
    <3>1. bound' \in (IF port_' % PortModulus = 0 THEN Ephemeral ELSE {port_' % PortModulus})
      BY <2>1, <2>3 DEF run, initserver
    <3>2. port_' % PortModulus = port_' /\ port_' # 0
      BY <2>3, PortFits
    <3> QED
      BY <3>1, <3>2
  <2> QED
    BY <2>2, <2>3
<1>2. QED
  BY <1>1, TablesTyped, PTL DEF StartSpec, PortAsWritten
=============================================================================
