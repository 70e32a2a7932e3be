--------------------------- MODULE H264Stream_proofs ---------------------------
(***************************************************************************)
(* What a receiver of the video stream puts together, for every file of    *)
(* NALs, every content of the buffer, all sizes and whatever is lost.      *)
(*                                                                         *)
(* The file is its NALs and their start codes, and has a start code        *)
(* nowhere else (CodesInFile).  So the reader is at the end of a NAL, or,  *)
(* behind one too long for the buffer, before the next start code ends     *)
(* (At), and what it finds next is the next NAL (NextNal).  BufferInv says *)
(* this of every state, that the NAL sent is in the buffer (InHand), that  *)
(* what the receiver gathers is a beginning of it (Gathered), and how far  *)
(* its numbers are behind (Gap).  VideoInv adds what it has received.      *)
(***************************************************************************)
EXTENDS H264Stream, SequenceLemmas

(* The file *)

\* The n-th NAL of a file and the length of its start code.
NalOf(v, n) == v[n].nal
CodeOf(v, n) == v[n].code

\* A NAL in the file, and the file.
Coded(unit) == (IF unit.code = 4 THEN <<0, 0, 0, 1>> ELSE <<0, 0, 1>>) \o unit.nal
Parts(v) == [i \in DOMAIN v |-> Coded(v[i])]
File(v) == FlattenSeq(Parts(v))

\* Where the n-th NAL and its start code end.
NalEnd(v, n) == EndOf(Parts(v), n)
CodeEnd(v, n) == NalEnd(v, n - 1) + CodeOf(v, n)

LEMMA BytesBehind ==
  ASSUME NEW h \in Seq(Byte), NEW d \in Seq(Byte), NEW n \in Nat, Len(h) = n
  PROVE  /\ h \o d \in Seq(Byte) /\ Len(h \o d) = n + Len(d)
         /\ \A k \in 1..n : (h \o d)[k] = h[k]
         /\ \A k \in 1..Len(d) : (h \o d)[n + k] = d[k]
  BY PutBehind

LEMMA NalType ==
  ASSUME NEW v \in Videos, NEW n \in 1..Len(v)
  PROVE  /\ v \in Seq(Unit) /\ Len(v) \in Nat
         /\ NalOf(v, n) \in Seq(Byte) /\ Len(NalOf(v, n)) \in Nat \ {0}
         /\ CodeOf(v, n) \in {3, 4}
         /\ NalOf(v, n)[Len(NalOf(v, n))] # 0
         /\ NalOf(v, n)[1] < 128 /\ Type(NalOf(v, n)[1]) # FU_A
         /\ \A k \in 1..(Len(NalOf(v, n)) - 2) : ~Code3In(NalOf(v, n), k)
<1>1. v \in Seq(Unit) /\ Len(v) \in Nat /\ n \in DOMAIN v /\ v[n] \in Unit
  BY VideosAssumption
<1>2. v[n].nal \in Seq(Byte) \ {<<>>} /\ v[n].code \in {3, 4}
  BY <1>1 DEF Unit
<1> DEFINE nal == v[n].nal
<1>3. /\ nal[Len(nal)] # 0 /\ nal[1] < 128 /\ Type(nal[1]) # FU_A
      /\ \A k \in 1..(Len(nal) - 2) : ~Code3In(nal, k)
  BY <1>1, VideosAssumption
<1> HIDE DEF nal
<1>4. nal \in Seq(Byte) /\ nal # <<>>
  BY <1>2 DEF nal
<1>5. Len(nal) \in Nat \ {0}
  BY <1>4
<1> QED
  BY <1>1, <1>2, <1>3, <1>4, <1>5 DEF NalOf, CodeOf, nal

LEMMA CodedType ==
  ASSUME NEW v \in Videos, NEW n \in 1..Len(v)
  PROVE  /\ Coded(v[n]) \in Seq(Byte)
         /\ Len(Coded(v[n])) = CodeOf(v, n) + Len(NalOf(v, n))
         /\ Coded(v[n])[CodeOf(v, n)] = 1
         /\ \A k \in 1..(CodeOf(v, n) - 1) : Coded(v[n])[k] = 0
         /\ \A k \in 1..Len(NalOf(v, n)) : Coded(v[n])[CodeOf(v, n) + k] = NalOf(v, n)[k]
<1> DEFINE c == CodeOf(v, n)
           nal == NalOf(v, n)
           code == IF c = 4 THEN <<0, 0, 0, 1>> ELSE <<0, 0, 1>>
<1>1. c \in {3, 4} /\ nal \in Seq(Byte)
  BY NalType
<1>2. Coded(v[n]) = code \o nal
  BY DEF Coded, NalOf, CodeOf
<1> HIDE DEF c, nal
<1>3. code \in Seq(Byte) /\ Len(code) = c /\ code[c] = 1 /\ \A k \in 1..(c - 1) : code[k] = 0
  <2>0. 0 \in Byte /\ 1 \in Byte
    BY DEF Byte
  <2>1. CASE c = 4
    <3>1. code = <<0, 0, 0, 1>>
      BY <2>1
    <3> QED
      BY <2>0, <2>1, <3>1
  <2>2. CASE c = 3
    <3>1. code = <<0, 0, 1>>
      BY <2>2
    <3> QED
      BY <2>0, <2>2, <3>1
  <2> QED
    BY <1>1, <2>1, <2>2
<1> HIDE DEF code
<1>4. c \in Nat /\ code \in Seq(Byte) /\ nal \in Seq(Byte) /\ Len(code) = c
  BY <1>1, <1>3
<1>5. /\ code \o nal \in Seq(Byte) /\ Len(code \o nal) = c + Len(nal)
      /\ \A k \in 1..c : (code \o nal)[k] = code[k]
      /\ \A k \in 1..Len(nal) : (code \o nal)[c + k] = nal[k]
  BY <1>4, BytesBehind
<1>6. c \in 1..c /\ \A k \in 1..(c - 1) : k \in 1..c
  BY <1>1
<1> QED
  BY <1>2, <1>3, <1>5, <1>6 DEF c, nal

LEMMA PartsType ==
  ASSUME NEW v \in Videos
  PROVE  /\ Parts(v) \in Seq(Seq(Byte)) /\ Len(Parts(v)) = Len(v) /\ Len(v) \in Nat \ {0}
         /\ \A n \in 1..Len(v) : Parts(v)[n] = Coded(v[n])
<1>1. v \in Seq(Unit) /\ v # <<>> /\ DOMAIN v = 1..Len(v) /\ Len(v) \in Nat \ {0}
  BY VideosAssumption
<1>2. \A n \in 1..Len(v) : Coded(v[n]) \in Seq(Byte)
  BY CodedType
<1> DEFINE p == Parts(v)
<1>3. p = [n \in 1..Len(v) |-> Coded(v[n])]
  BY <1>1 DEF Parts
<1> HIDE DEF p
<1>4. p \in [1..Len(v) -> Seq(Byte)]
  BY <1>2, <1>3
<1>5. p \in Seq(Seq(Byte)) /\ Len(p) = Len(v)
  BY <1>1, <1>3, <1>4
<1> QED
  BY <1>1, <1>3, <1>5 DEF p

\* Where the n-th NAL is, and what is there.
LEMMA Layout ==
  ASSUME NEW v \in Videos, NEW n \in 1..Len(v)
  PROVE  /\ NalEnd(v, n - 1) \in Nat /\ CodeEnd(v, n) \in Nat /\ NalEnd(v, n) \in Nat
         /\ CodeOf(v, n) \in {3, 4} /\ CodeEnd(v, n) = NalEnd(v, n - 1) + CodeOf(v, n)
         /\ Len(NalOf(v, n)) \in Nat \ {0} /\ NalEnd(v, n) = CodeEnd(v, n) + Len(NalOf(v, n))
         /\ NalEnd(v, n) <= Len(File(v)) /\ Len(File(v)) \in Nat
         /\ File(v)[CodeEnd(v, n)] = 1
         /\ \A k \in 1..(CodeOf(v, n) - 1) : File(v)[NalEnd(v, n - 1) + k] = 0
         /\ \A k \in 1..Len(NalOf(v, n)) : File(v)[CodeEnd(v, n) + k] = NalOf(v, n)[k]
         /\ File(v)[NalEnd(v, n)] # 0
<1> DEFINE p == Parts(v)
           m == n - 1
           c == CodeOf(v, n)
           nal == NalOf(v, n)
           x == Coded(v[n])
           f == File(v)
<1>1. /\ p \in Seq(Seq(Byte)) /\ Len(p) = Len(v) /\ Len(v) \in Nat /\ p[n] = x
  BY PartsType
<1>2. /\ c \in {3, 4} /\ nal \in Seq(Byte) /\ Len(nal) \in Nat \ {0} /\ nal[Len(nal)] # 0
  BY NalType
<1>3. /\ x \in Seq(Byte) /\ Len(x) = c + Len(nal) /\ x[c] = 1 /\ \A k \in 1..(c - 1) : x[k] = 0
      /\ \A k \in 1..Len(nal) : x[c + k] = nal[k]
  BY CodedType
<1>4. f = FlattenSeq(p) /\ m \in Nat /\ m + 1 = n /\ n <= Len(v) /\ f \in Seq(Byte)
  <2>1. FlattenSeq(p) \in Seq(Byte)
    BY <1>1, FlattenType
  <2> QED
    BY <1>1, <2>1 DEF File
<1>5. Len(f) \in Nat
  BY <1>4
<1> HIDE DEF p, c, nal, x, f, m
<1>6. EndOf(p, m) \in Nat
  <2>1. m \in 0..Len(p)
    BY <1>1, <1>4
  <2> QED
    BY <1>1, <2>1, JoinedType
<1>7. EndOf(p, n) = EndOf(p, m) + Len(x)
  BY <1>1, <1>4, JoinedNext
<1>8. EndOf(p, m) + Len(x) <= Len(f) /\ \A k \in 1..Len(x) : f[EndOf(p, m) + k] = x[k]
  BY <1>1, <1>4, PartAt
<1> DEFINE e == EndOf(p, m)
           g == e + c
<1>9. /\ NalEnd(v, n - 1) = e /\ NalEnd(v, n) = g + Len(nal) /\ CodeEnd(v, n) = g
  BY <1>2, <1>3, <1>6, <1>7 DEF NalEnd, CodeEnd, p, c, m
<1>10. f[g] = 1 /\ \A k \in 1..(c - 1) : f[e + k] = 0
  BY <1>2, <1>3, <1>8
<1>11. \A k \in 1..Len(nal) : f[g + k] = nal[k]
  <2> TAKE k \in 1..Len(nal)
  <2>1. c + k \in 1..Len(x) /\ x[c + k] = nal[k]
    BY <1>2, <1>3
  <2>2. f[e + (c + k)] = x[c + k]
    BY <1>8, <2>1
  <2>3. e + (c + k) = g + k
    BY <1>2, <1>6
  <2> QED
    BY <2>1, <2>2, <2>3
<1>12. f[g + Len(nal)] # 0
  BY <1>2, <1>11
<1>13. e \in Nat /\ g \in Nat /\ g + Len(nal) \in Nat /\ g + Len(nal) <= Len(f)
  BY <1>2, <1>3, <1>6, <1>8
<1> HIDE DEF g, e
<1>14. g = NalEnd(v, n - 1) + CodeOf(v, n)
  BY <1>9 DEF CodeEnd
<1> QED
  BY <1>2, <1>5, <1>9, <1>10, <1>11, <1>12, <1>13, <1>14 DEF c, nal, f

LEMMA EndsInOrder ==
  ASSUME NEW v \in Videos, NEW n \in 1..Len(v)
  PROVE  /\ NalEnd(v, n - 1) \in Nat /\ CodeEnd(v, n) \in Nat /\ NalEnd(v, n) \in Nat
         /\ NalEnd(v, n - 1) + 3 <= CodeEnd(v, n) /\ CodeEnd(v, n) < NalEnd(v, n)
         /\ NalEnd(v, n) <= Len(File(v))
<1> DEFINE a == NalEnd(v, n - 1)
           b == CodeEnd(v, n)
           c == NalEnd(v, n)
           k == CodeOf(v, n)
           l == Len(NalOf(v, n))
<1>1. /\ a \in Nat /\ b \in Nat /\ c \in Nat /\ k \in {3, 4} /\ b = a + k
      /\ l \in Nat \ {0} /\ c = b + l /\ c <= Len(File(v))
  BY Layout
<1> HIDE DEF a, b, c, k, l
<1>2. a + 3 <= b /\ b < c
  BY <1>1
<1> QED
  BY <1>1, <1>2 DEF a, b, c

\* Later NALs are further back; none end at 0, and the last where the file does.
LEMMA NalsGrow ==
  ASSUME NEW v \in Videos, NEW m \in 0..Len(v), NEW n \in 0..m
  PROVE  /\ NalEnd(v, n) \in Nat /\ NalEnd(v, m) \in Nat /\ NalEnd(v, n) <= NalEnd(v, m)
<1>1. Parts(v) \in Seq(Seq(Byte)) /\ Len(Parts(v)) = Len(v) /\ Len(v) \in Nat
  BY PartsType
<1> QED
  BY <1>1, EndsGrow DEF NalEnd

\* A NAL ends before the start code of any later one.
LEMMA NalsApart ==
  ASSUME NEW v \in Videos, NEW n \in 1..Len(v), NEW m \in 1..Len(v), m < n
  PROVE  /\ CodeEnd(v, m) \in Nat /\ NalEnd(v, m) \in Nat /\ CodeEnd(v, n) \in Nat
         /\ CodeEnd(v, m) < NalEnd(v, m) /\ NalEnd(v, m) + 3 <= CodeEnd(v, n)
<1> DEFINE a == CodeEnd(v, m)
           b == NalEnd(v, m)
           c == NalEnd(v, n - 1)
           d == CodeEnd(v, n)
<1>1. Len(v) \in Nat
  BY PartsType
<1>2. n - 1 \in 0..Len(v) /\ m \in 0..(n - 1)
  BY <1>1
<1>3. b <= c
  <2> DEFINE k == n - 1
  <2> HIDE DEF k
  <2>1. k \in 0..Len(v) /\ m \in 0..k
    BY <1>2 DEF k
  <2>2. NalEnd(v, m) <= NalEnd(v, k)
    BY <2>1, NalsGrow
  <2> QED
    BY <2>2 DEF k
<1>4. a \in Nat /\ b \in Nat /\ a < b
  BY EndsInOrder
<1>5. c \in Nat /\ d \in Nat /\ c + 3 <= d
  BY EndsInOrder
<1> HIDE DEF a, b, c, d
<1>6. b + 3 <= d
  BY <1>3, <1>4, <1>5
<1> QED
  BY <1>4, <1>5, <1>6 DEF a, b, d

LEMMA FileEnds ==
  ASSUME NEW v \in Videos
  PROVE  /\ NalEnd(v, 0) = 0 /\ NalEnd(v, Len(v)) = Len(File(v)) /\ Len(v) \in Nat \ {0}
         /\ File(v) \in Seq(Byte)
<1>1. Parts(v) \in Seq(Seq(Byte)) /\ Len(Parts(v)) = Len(v) /\ Len(v) \in Nat \ {0}
  BY PartsType
<1> QED
  BY <1>1, JoinedAll, FlattenType DEF NalEnd, File

\* A start code is found in the file where one is, and nowhere else.
LEMMA CodesInFile ==
  ASSUME NEW v \in Videos, NEW p \in Nat, p + 3 <= Len(File(v)),
         File(v)[p + 1] = 0, File(v)[p + 2] = 0, File(v)[p + 3] = 1
  PROVE  \E n \in 1..Len(v) : CodeEnd(v, n) = p + 3
<1> DEFINE f == File(v)
           j == p + 3
<1>1. /\ Parts(v) \in Seq(Seq(Byte)) /\ Len(Parts(v)) = Len(v) /\ Len(v) \in Nat \ {0}
      /\ f = FlattenSeq(Parts(v)) /\ f \in Seq(Byte) /\ j \in 1..Len(f)
  BY PartsType, FileEnds DEF File
<1>2. PICK m \in 0..(Len(v) - 1) : NalEnd(v, m) < j /\ j <= NalEnd(v, m + 1)
  <2> HIDE DEF j, f
  <2> QED
    BY <1>1, InSomePart DEF NalEnd
<1> DEFINE n == m + 1
           e == NalEnd(v, m)
           g == CodeEnd(v, n)
           c == CodeOf(v, n)
           nal == NalOf(v, n)
<1>3. n \in 1..Len(v) /\ n - 1 = m /\ m \in Nat
  BY <1>1, <1>2
<1> HIDE DEF n
<1>4. /\ e \in Nat /\ g \in Nat /\ c \in {3, 4} /\ g = e + c
      /\ Len(nal) \in Nat \ {0} /\ NalEnd(v, n) = g + Len(nal)
      /\ f[g] = 1 /\ \A k \in 1..Len(nal) : f[g + k] = nal[k]
      /\ \A k \in 1..(c - 1) : f[e + k] = 0
  BY <1>3, Layout
<1>5. \A k \in 1..(Len(nal) - 2) : ~Code3In(nal, k)
  BY <1>3, NalType
<1>6. m # 0 => f[e] # 0
  <2>1. m # 0 => m \in 1..Len(v)
    BY <1>2, <1>3
  <2> QED
    BY <2>1, Layout
<1>7. m = 0 => e = 0
  BY FileEnds
<1>8. e < j /\ j <= g + Len(nal)
  BY <1>2, <1>4 DEF n
<1> HIDE DEF e, g, c, nal, f, j
<1>9. f[p + 1] = 0 /\ f[p + 2] = 0 /\ f[p + 3] = 1 /\ j = p + 3
  BY DEF f, j
<1>13. e \in Nat /\ g \in Nat /\ c \in {3, 4} /\ g = e + c /\ j \in Nat
  BY <1>4, <1>9
<1>10. e <= p
  <2> SUFFICES ASSUME e > p PROVE FALSE
    BY <1>13
  <2>1. (e = p + 1 \/ e = p + 2) /\ e # 0
    BY <1>8, <1>9, <1>13
  <2> QED
    BY <1>6, <1>7, <1>9, <2>1
<1>11. CASE j <= g
  <2>1. CASE j = g
    BY <1>3, <1>9, <2>1 DEF g
  <2>2. CASE j < g
    <3> DEFINE k == j - e
    <3>1. k \in 1..(c - 1) /\ e + k = j
      BY <1>8, <1>13, <2>2
    <3> HIDE DEF k
    <3>2. f[e + k] = 0
      BY <1>4, <3>1
    <3> QED
      BY <1>9, <3>1, <3>2
  <2>3. j = g \/ j < g
    BY <1>11, <1>13
  <2> QED
    BY <2>1, <2>2, <2>3
<1>12. CASE j > g
  <2>1. g # p + 1 /\ g # p + 2
    BY <1>4, <1>9
  <2>2. g <= p
    BY <1>4, <1>9, <1>12, <2>1
  <2> DEFINE k == p + 1 - g
  <2>3. k \in 1..(Len(nal) - 2) /\ k + 1 \in 1..Len(nal) /\ k + 2 \in 1..Len(nal) /\ k \in 1..Len(nal)
    BY <1>4, <1>8, <1>9, <2>2
  <2>4. g + k = p + 1 /\ g + (k + 1) = p + 2 /\ g + (k + 2) = p + 3
    BY <1>4
  <2> HIDE DEF k
  <2>5. nal[k] = 0 /\ nal[k + 1] = 0 /\ nal[k + 2] = 1
    BY <1>4, <1>9, <2>3, <2>4
  <2> QED
    BY <1>5, <2>3, <2>5 DEF Code3In
<1> QED
  BY <1>4, <1>9, <1>11, <1>12

-----------------------------------------------------------------------------
(* Reading *)

\* Fits, of any file.
FitsIn(v, n) ==
  CodeOf(v, n) + Len(NalOf(v, n)) + (IF n < Len(v) THEN CodeOf(v, n + 1) ELSE 0) <= H264_FILE_BUFFER

\* Where the reader can be after n NALs: at the end of the n-th, or, if that does
\* not fit in the buffer, in it or in the start code behind it.
At(v, n, o) ==
  /\ n \in 0..Len(v) /\ o \in 0..Len(File(v))
  /\ n > 0 => CodeEnd(v, n) < o
  /\ n < Len(v) => o < CodeEnd(v, n + 1)
  /\ o # NalEnd(v, n) => n > 0 /\ ~FitsIn(v, n)

\* A start code behind that of the n-th NAL is behind the NAL.
LEMMA Code3Behind ==
  ASSUME NEW v \in Videos, NEW n \in 1..Len(v), NEW p \in Nat, CodeEnd(v, n) <= p,
         p + 3 <= Len(File(v)),
         File(v)[p + 1] = 0, File(v)[p + 2] = 0, File(v)[p + 3] = 1
  PROVE  n < Len(v) /\ NalEnd(v, n) <= p
<1>1. PICK m \in 1..Len(v) : CodeEnd(v, m) = p + 3
  BY CodesInFile
<1>2. Len(v) \in Nat
  BY FileEnds
<1> DEFINE x == CodeEnd(v, n)
           y == CodeEnd(v, m)
           z == NalEnd(v, n)
<1>3. x \in Nat /\ y = p + 3 /\ x <= p
  BY <1>1, EndsInOrder
<1>4. m # n
  <2> SUFFICES ASSUME m = n PROVE FALSE
    OBVIOUS
  <2>1. x = y
    OBVIOUS
  <2> HIDE DEF x, y
  <2> QED
    BY <1>3, <2>1
<1>5. ~(m < n)
  <2> SUFFICES ASSUME m < n PROVE FALSE
    OBVIOUS
  <2> DEFINE e == NalEnd(v, m)
  <2>1. y \in Nat /\ e \in Nat /\ y < e /\ e + 3 <= x
    BY NalsApart
  <2> HIDE DEF x, y, e
  <2> QED
    BY <1>3, <2>1
<1>6. n < m
  BY <1>2, <1>4, <1>5
<1>7. z \in Nat /\ z + 3 <= y
  BY <1>6, NalsApart
<1> HIDE DEF y, z
<1>8. z <= p
  BY <1>3, <1>7
<1> QED
  BY <1>2, <1>6, <1>8 DEF z

LEMMA Code4Behind ==
  ASSUME NEW v \in Videos, NEW n \in 1..Len(v), NEW p \in Nat, CodeEnd(v, n) <= p,
         p + 4 <= Len(File(v)), File(v)[p + 1] = 0,
         File(v)[p + 2] = 0, File(v)[p + 3] = 0, File(v)[p + 4] = 1
  PROVE  n < Len(v) /\ NalEnd(v, n) <= p
<1> DEFINE q == p + 1
<1>1. CodeEnd(v, n) \in Nat /\ NalEnd(v, n) \in Nat /\ File(v)[NalEnd(v, n)] # 0
  BY Layout
<1>2. q \in Nat /\ CodeEnd(v, n) <= q /\ q + 3 <= Len(File(v))
  BY <1>1, FileEnds
<1>3. File(v)[q + 1] = 0 /\ File(v)[q + 2] = 0 /\ File(v)[q + 3] = 1
  <2>1. q + 1 = p + 2 /\ q + 2 = p + 3 /\ q + 3 = p + 4
    OBVIOUS
  <2> HIDE DEF q
  <2> QED
    BY <2>1
<1>4. n < Len(v) /\ NalEnd(v, n) <= q
  <2> HIDE DEF q
  <2> QED
    BY <1>2, <1>3, Code3Behind
<1> QED
  BY <1>1, <1>4

\* Where the reader finds a start code, the next NAL begins.
LEMMA StartsNext ==
  ASSUME NEW v \in Videos, NEW c, NEW o, At(v, c, o), NEW s \in {3, 4},
         o + s <= Len(File(v)), File(v)[o + s] = 1,
         \A k \in 1..(s - 1) : File(v)[o + k] = 0
  PROVE  /\ c + 1 \in 1..Len(v) /\ CodeEnd(v, c + 1) = o + s /\ s <= CodeOf(v, c + 1)
<1> DEFINE f == File(v)
           p == o + s - 3
<1>1. Len(v) \in Nat /\ Len(f) \in Nat /\ c \in 0..Len(v) /\ o \in 0..Len(f) /\ NalEnd(v, 0) = 0
  BY FileEnds DEF At
<1>2. p \in Nat /\ p + 3 <= Len(f) /\ f[p + 1] = 0 /\ f[p + 2] = 0 /\ f[p + 3] = 1
  <2>1. CASE s = 3
    BY <1>1, <2>1
  <2>2. CASE s = 4
    <3>1. f[o + 2] = 0 /\ f[o + 3] = 0 /\ f[o + 4] = 1
      BY <1>1, <2>2
    <3> QED
      BY <1>1, <2>2, <3>1
  <2> QED
    BY <2>1, <2>2
<1>3. PICK n \in 1..Len(v) : CodeEnd(v, n) = p + 3
  <2> HIDE DEF p
  <2> QED
    BY <1>2, CodesInFile
<1>4. CodeEnd(v, n) = o + s
  BY <1>1, <1>3
<1> HIDE DEF p
<1>5. /\ NalEnd(v, n - 1) \in Nat /\ NalEnd(v, n) \in Nat /\ CodeEnd(v, n) < NalEnd(v, n)
      /\ CodeEnd(v, n) = NalEnd(v, n - 1) + CodeOf(v, n) /\ CodeOf(v, n) \in {3, 4}
  BY Layout
<1> DEFINE g == CodeEnd(v, n)
<1>6. n > c
  <2> SUFFICES ASSUME n <= c PROVE FALSE
    BY <1>1
  <2>1. c \in 1..Len(v) /\ c > 0
    BY <1>1
  <2> DEFINE h == CodeEnd(v, c)
  <2>2. h < o
    BY <2>1 DEF At
  <2>3. g = o + s /\ o \in Nat /\ s \in Nat
    BY <1>1, <1>4
  <2>4. CASE n = c
    <3>1. g = h
      BY <2>4
    <3> HIDE DEF g, h
    <3> QED
      BY <2>2, <2>3, <3>1
  <2>5. CASE n < c
    <3> DEFINE e == NalEnd(v, n)
    <3>1. g \in Nat /\ e \in Nat /\ h \in Nat /\ g < e /\ e + 3 <= h
      BY <2>1, <2>5, NalsApart
    <3> HIDE DEF g, h, e
    <3> QED
      BY <2>2, <2>3, <3>1
  <2> QED
    BY <1>1, <2>4, <2>5
<1>7. c < Len(v) /\ c + 1 \in 1..Len(v)
  BY <1>1, <1>6
<1>8. n = c + 1
  <2> SUFFICES ASSUME n > c + 1 PROVE FALSE
    BY <1>1, <1>6
  <2> DEFINE m == c + 1
             h == CodeEnd(v, m)
             e == NalEnd(v, m)
  <2>1. m \in 1..Len(v) /\ m < n
    BY <1>1, <1>7
  <2>2. o < h
    BY <1>7 DEF At
  <2> HIDE DEF m
  <2>3. h \in Nat /\ e \in Nat /\ g \in Nat /\ h < e /\ e + 3 <= g
    BY <2>1, NalsApart
  <2>4. g = o + s /\ o \in Nat /\ s \in {3, 4}
    BY <1>1, <1>4
  <2> HIDE DEF g, h, e
  <2> QED
    BY <2>2, <2>3, <2>4
<1>9. s <= CodeOf(v, n)
  <2> SUFFICES ASSUME s = 4, CodeOf(v, n) = 3 PROVE FALSE
    BY <1>5
  <2>1. NalEnd(v, c) = o + 1
    BY <1>1, <1>4, <1>5, <1>8
  <2>2. c \in 1..Len(v)
    BY <1>1, <2>1
  <2>3. f[NalEnd(v, c)] # 0
    BY <2>2, Layout
  <2>4. f[o + 1] = 0
    BY <1>1
  <2> QED
    BY <2>1, <2>3, <2>4
<1> QED
  BY <1>4, <1>7, <1>8, <1>9

\* What is in the buffer: a bytes of the file from o on.
InBuffer(v, o, a, b) ==
  /\ a \in Nat /\ o \in Nat /\ o + a <= Len(File(v))
  /\ \A k \in 0..(a - 1) : b[k] = File(v)[o + k + 1]

\* A start code found in the buffer is behind the NAL, or is in part a stale one.
LEMMA FoundBehind ==
  ASSUME NEW v \in Videos, NEW n \in 1..Len(v), NEW o, NEW a, NEW b, InBuffer(v, o, a, b), a > 0,
         NEW k \in Nat, CodeEnd(v, n) <= o + k, startCode3(b, k) \/ startCode4(b, k),
         k + 4 <= a \/ o + a = Len(File(v))
  PROVE  NalEnd(v, n) <= o + k
<1> DEFINE f == File(v)
           p == o + k
<1>1. a \in Nat /\ o \in Nat /\ o + a <= Len(f) /\ Len(f) \in Nat /\ p \in Nat
  BY FileEnds DEF InBuffer
<1>2. \A i \in 0..(a - 1) : b[i] = f[o + i + 1]
  BY DEF InBuffer
<1>3. b[k] = 0 /\ b[k + 1] = 0
  BY DEF startCode3, startCode4, Code3In, Code4In
<1>4. CASE startCode3(b, k) /\ k + 3 <= a
  <2>1. k \in 0..(a - 1) /\ k + 1 \in 0..(a - 1) /\ k + 2 \in 0..(a - 1)
    BY <1>1, <1>4
  <2>2. b[k] = 0 /\ b[k + 1] = 0 /\ b[k + 2] = 1
    BY <1>4 DEF startCode3, Code3In
  <2>3. f[o + k + 1] = 0 /\ f[o + (k + 1) + 1] = 0 /\ f[o + (k + 2) + 1] = 1
    BY <1>2, <2>1, <2>2
  <2>4. o + (k + 1) + 1 = p + 2 /\ o + (k + 2) + 1 = p + 3
    BY <1>1
  <2>5. f[p + 1] = 0 /\ f[p + 2] = 0 /\ f[p + 3] = 1 /\ p + 3 <= Len(f) /\ CodeEnd(v, n) <= p
    BY <1>1, <1>4, <2>3, <2>4
  <2> HIDE DEF p
  <2> QED
    BY <1>1, <2>5, Code3Behind DEF p
<1>5. CASE startCode4(b, k) /\ k + 4 <= a
  <2>1. k \in 0..(a - 1) /\ k + 1 \in 0..(a - 1) /\ k + 2 \in 0..(a - 1) /\ k + 3 \in 0..(a - 1)
    BY <1>1, <1>5
  <2>2. b[k] = 0 /\ b[k + 1] = 0 /\ b[k + 2] = 0 /\ b[k + 3] = 1
    <3>1. b[k] = 0 /\ b[k + 1] = 0 /\ b[k + 1 + 1] = 0 /\ b[k + 1 + 2] = 1
      BY <1>5 DEF startCode4, Code4In, Code3In
    <3>2. k + 1 + 1 = k + 2 /\ k + 1 + 2 = k + 3
      OBVIOUS
    <3> QED
      BY <3>1, <3>2
  <2>3. f[o + k + 1] = 0 /\ f[o + (k + 1) + 1] = 0 /\ f[o + (k + 2) + 1] = 0 /\ f[o + (k + 3) + 1] = 1
    BY <1>2, <2>1, <2>2
  <2>4. o + (k + 1) + 1 = p + 2 /\ o + (k + 2) + 1 = p + 3 /\ o + (k + 3) + 1 = p + 4
    BY <1>1
  <2>5. /\ f[p + 1] = 0 /\ f[p + 2] = 0 /\ f[p + 3] = 0 /\ f[p + 4] = 1
        /\ p + 4 <= Len(f) /\ CodeEnd(v, n) <= p
    BY <1>1, <1>5, <2>3, <2>4
  <2> HIDE DEF p
  <2> QED
    BY <1>1, <2>5, Code4Behind DEF p
<1>6. CASE o + a = Len(f)
  <2>1. b[a - 1] # 0
    <3>1. f[NalEnd(v, Len(v))] # 0 /\ NalEnd(v, Len(v)) = Len(f)
      <4>1. Len(v) \in 1..Len(v)
        BY FileEnds
      <4> QED
        BY <4>1, Layout, FileEnds
    <3>2. a - 1 \in 0..(a - 1) /\ o + (a - 1) + 1 = o + a
      BY <1>1
    <3> QED
      BY <1>2, <1>6, <3>1, <3>2
  <2>2. k + 1 # a /\ k + 2 # a
    BY <1>1, <1>3, <2>1
  <2>3. CASE k >= a
    <3>1. NalEnd(v, n) <= Len(f) /\ NalEnd(v, n) \in Nat
      BY EndsInOrder
    <3> QED
      BY <1>1, <1>6, <2>3, <3>1
  <2>4. CASE k + 3 <= a /\ startCode3(b, k)
    BY <1>4, <2>4
  <2>5. CASE k + 4 <= a /\ startCode4(b, k)
    BY <1>5, <2>5
  <2>6. CASE k + 3 = a /\ startCode4(b, k)
    <3>1. b[k + 1 + 1] = 0
      BY <2>6 DEF startCode4, Code4In, Code3In
    <3>2. k + 1 + 1 = a - 1
      BY <1>1, <2>6
    <3> QED
      BY <2>1, <3>1, <3>2
  <2> QED
    BY <1>1, <2>2, <2>3, <2>4, <2>5, <2>6
<1>7. CASE k + 4 <= a
  <2>1. k + 3 <= a
    BY <1>1, <1>7
  <2> QED
    BY <1>4, <1>5, <1>7, <2>1
<1> QED
  BY <1>6, <1>7

\* The three or four bytes of a start code, in a buffer that has them.
LEMMA CodeFound ==
  ASSUME NEW v \in Videos, NEW n \in 1..Len(v), NEW o, NEW a, NEW b, InBuffer(v, o, a, b),
         o <= NalEnd(v, n - 1), CodeEnd(v, n) <= o + a
  PROVE  /\ startCode3(b, CodeEnd(v, n) - 3 - o)
         /\ CodeOf(v, n) = 4 => startCode4(b, NalEnd(v, n - 1) - o)
<1> DEFINE f == File(v)
           e == NalEnd(v, n - 1)
           g == CodeEnd(v, n)
           d == CodeOf(v, n)
           q == g - 3 - o
<1>1. /\ e \in Nat /\ g \in Nat /\ d \in {3, 4} /\ g = e + d /\ f[g] = 1
      /\ \A k \in 1..(d - 1) : f[e + k] = 0
  BY Layout
<1>2. a \in Nat /\ o \in Nat /\ o <= e /\ g <= o + a /\ \A k \in 0..(a - 1) : b[k] = f[o + k + 1]
  BY DEF InBuffer
<1> HIDE DEF f, e, g, d
<1>3. f[g - 2] = 0 /\ f[g - 1] = 0
  <2>1. d - 2 \in 1..(d - 1) /\ d - 1 \in 1..(d - 1) /\ e + (d - 2) = g - 2 /\ e + (d - 1) = g - 1
    BY <1>1
  <2>2. f[e + (d - 2)] = 0 /\ f[e + (d - 1)] = 0
    BY <1>1, <2>1
  <2> QED
    BY <2>1, <2>2
<1>4. b[q] = 0 /\ b[q + 1] = 0 /\ b[q + 2] = 1
  <2>1. /\ q \in 0..(a - 1) /\ q + 1 \in 0..(a - 1) /\ q + 2 \in 0..(a - 1)
        /\ o + q + 1 = g - 2 /\ o + (q + 1) + 1 = g - 1 /\ o + (q + 2) + 1 = g
    BY <1>1, <1>2
  <2> HIDE DEF q
  <2>2. b[q] = f[o + q + 1] /\ b[q + 1] = f[o + (q + 1) + 1] /\ b[q + 2] = f[o + (q + 2) + 1]
    BY <1>2, <2>1
  <2> QED
    BY <1>1, <1>3, <2>1, <2>2
<1>5. startCode3(b, q)
  <2> HIDE DEF q
  <2> QED
    BY <1>4 DEF startCode3, Code3In
<1>6. ASSUME d = 4 PROVE startCode4(b, e - o)
  <2> DEFINE r == e - o
  <2>1. r \in 0..(a - 1) /\ r + 1 = q /\ o + r + 1 = e + 1
    BY <1>1, <1>2, <1>6
  <2>2. f[e + 1] = 0
    BY <1>1, <1>6
  <2> HIDE DEF r, q
  <2>3. b[r] = 0
    BY <1>2, <2>1, <2>2
  <2>4. startCode4(b, r)
    BY <1>5, <2>1, <2>3 DEF startCode4, Code4In, startCode3
  <2> QED
    BY <2>4 DEF r
<1> QED
  BY <1>5, <1>6 DEF e, g, d

\* What extract_content gets out of the buffer.
LEMMA NextNal ==
  ASSUME NEW v \in Videos, NEW c, NEW o, At(v, c, o), NEW a, NEW b, InBuffer(v, o, a, b),
         a > 0, a <= H264_FILE_BUFFER, a = H264_FILE_BUFFER \/ o + a = Len(File(v)),
         Extracts(b, a)
  PROVE  /\ StartCode(b) \in {3, 4} /\ First(Found(b, a)) \in (StartCode(b) + 1)..a
         /\ b[First(Found(b, a))] = 0
         /\ c + 1 \in 1..Len(v) /\ CodeEnd(v, c + 1) = o + StartCode(b)
         /\ o \in NalEnd(v, c)..(NalEnd(v, c) + 1)
         /\ At(v, c + 1, o + First(Found(b, a)))
         /\ First(Found(b, a)) - StartCode(b) <= RTP_MAX_PKT_SIZE
              <=> Len(NalOf(v, c + 1)) <= RTP_MAX_PKT_SIZE
<1> DEFINE f == File(v)
           s == StartCode(b)
           S == Found(b, a)
           k == First(S)
           n == c + 1
<1>1. /\ a \in Nat /\ o \in Nat /\ o + a <= Len(f) /\ Len(f) \in Nat /\ c \in 0..Len(v) /\ Len(v) \in Nat
      /\ H264_FILE_BUFFER \in Nat /\ H264_FILE_BUFFER >= 8
      /\ RTP_MAX_PKT_SIZE \in Nat /\ H264_FILE_BUFFER >= RTP_MAX_PKT_SIZE + 8
      /\ (a = H264_FILE_BUFFER \/ o + a = Len(f))
  BY FileEnds, BufferAssumption DEF InBuffer, At
<1>2. \A i \in 0..(a - 1) : b[i] = f[o + i + 1]
  BY DEF InBuffer
<1>3. s \in {3, 4}
  BY DEF Extracts, StartCode
<1>4. \A i \in s..(s + a - 4) : (startCode3(b, i) \/ startCode4(b, i)) => i \in S
  BY DEF Found
<1>5. /\ k \in s..(s + a - 4) /\ (startCode3(b, k) \/ startCode4(b, k))
      /\ \A i \in S : k <= i
  <2>1. S # {} /\ S \subseteq s..(s + a - 4)
    BY DEF Extracts, Found
  <2>2. S \in SUBSET Nat
    BY <1>1, <1>3, <2>1
  <2>3. \E i \in S : \A j \in S : i <= j
    <3> HIDE DEF S
    <3> QED
      BY <2>1, <2>2, LeastNatural
  <2>4. k \in S /\ \A i \in S : k <= i
    <3> HIDE DEF S
    <3> QED
      BY <2>3 DEF First
  <2>5. \A i \in S : startCode3(b, i) \/ startCode4(b, i)
    BY DEF Found
  <2> QED
    BY <2>1, <2>4, <2>5
<1>6. b[k] = 0 /\ k \in Nat /\ a >= 4 /\ k <= a
  <2>1. b[k] = 0
    BY <1>5 DEF startCode3, startCode4, Code3In, Code4In
  <2> QED
    BY <1>1, <1>3, <1>5, <2>1
<1> HIDE DEF k, S
<1>7. /\ n \in 1..Len(v) /\ CodeEnd(v, n) = o + s /\ s <= CodeOf(v, n)
  <2>1. CASE s = 3
    <3>1. b[0] = 0 /\ b[1] = 0 /\ b[2] = 1
      <4>1. startCode3(b, 0)
        BY <2>1 DEF StartCode
      <4> QED
        BY <4>1 DEF startCode3, Code3In
    <3>2. f[o + 1] = 0 /\ f[o + 2] = 0 /\ f[o + 3] = 1
      <4>1. 0 \in 0..(a - 1) /\ 1 \in 0..(a - 1) /\ 2 \in 0..(a - 1)
        BY <1>1, <1>6
      <4>2. b[0] = f[o + 0 + 1] /\ b[1] = f[o + 1 + 1] /\ b[2] = f[o + 2 + 1]
        BY <1>2, <4>1
      <4> QED
        BY <1>1, <3>1, <4>2
    <3>3. \A i \in 1..(s - 1) : f[o + i] = 0
      BY <2>1, <3>2
    <3>4. o + s <= Len(f) /\ f[o + s] = 1
      BY <1>1, <1>6, <2>1, <3>2
    <3> HIDE DEF s
    <3> QED
      BY <1>3, <3>3, <3>4, StartsNext
  <2>2. CASE s = 4
    <3>1. b[0] = 0 /\ b[1] = 0 /\ b[2] = 0 /\ b[3] = 1
      <4>1. startCode4(b, 0)
        BY <2>2 DEF StartCode
      <4> QED
        BY <4>1 DEF startCode4, Code4In, Code3In
    <3>2. f[o + 1] = 0 /\ f[o + 2] = 0 /\ f[o + 3] = 0 /\ f[o + 4] = 1
      <4>1. 0 \in 0..(a - 1) /\ 1 \in 0..(a - 1) /\ 2 \in 0..(a - 1) /\ 3 \in 0..(a - 1)
        BY <1>1, <1>6
      <4>2. b[0] = f[o + 0 + 1] /\ b[1] = f[o + 1 + 1] /\ b[2] = f[o + 2 + 1] /\ b[3] = f[o + 3 + 1]
        BY <1>2, <4>1
      <4>3. o + 0 + 1 = o + 1 /\ o + 1 + 1 = o + 2 /\ o + 2 + 1 = o + 3 /\ o + 3 + 1 = o + 4
        <5>1. o \in Nat
          BY <1>1
        <5> QED
          BY <5>1
      <4> QED
        BY <3>1, <4>2, <4>3, Zenon
    <3>3. \A i \in 1..(s - 1) : f[o + i] = 0
      BY <2>2, <3>2
    <3>4. o + s <= Len(f) /\ f[o + s] = 1
      BY <1>1, <1>6, <2>2, <3>2
    <3> HIDE DEF s
    <3> QED
      BY <1>3, <3>3, <3>4, StartsNext
  <2> QED
    BY <1>3, <2>1, <2>2
<1> HIDE DEF s, f
<1> DEFINE e == NalEnd(v, n)
           l == Len(NalOf(v, n))
<1>8. /\ e \in Nat /\ l \in Nat \ {0} /\ e = o + s + l /\ e <= Len(f)
      /\ NalEnd(v, c) \in Nat /\ o + s = NalEnd(v, c) + CodeOf(v, n) /\ CodeOf(v, n) \in {3, 4}
  <2>1. n - 1 = c
    BY <1>1
  <2> HIDE DEF n
  <2> QED
    BY <1>7, <2>1, Layout DEF f
<1>9. o \in NalEnd(v, c)..(NalEnd(v, c) + 1)
  <2> DEFINE x == CodeOf(v, n)
             z == NalEnd(v, c)
  <2>1. x \in {3, 4} /\ z \in Nat /\ o \in Nat /\ o + s = z + x /\ s <= x
    BY <1>1, <1>7, <1>8
  <2> HIDE DEF x, z
  <2>2. o \in z..(z + 1)
    BY <1>3, <2>1
  <2> QED
    BY <2>2 DEF z
<1> HIDE DEF e, l, n
<1>10. (k + 4 <= a \/ o + a = Len(f)) => e <= o + k
  <2>1. CodeEnd(v, n) <= o + k
    BY <1>1, <1>3, <1>5, <1>7
  <2> QED
    BY <1>5, <1>6, <1>7, <2>1, FoundBehind DEF e, f
<1>11. k # s
  <2> SUFFICES ASSUME k = s PROVE FALSE
    OBVIOUS
  <2>1. k + 4 <= a \/ o + a = Len(f)
    BY <1>1, <1>3 DEF f
  <2> QED
    BY <1>1, <1>3, <1>8, <1>10, <2>1
<1>12. ASSUME n < Len(v) PROVE o + k < CodeEnd(v, n + 1)
  <2> DEFINE g == CodeEnd(v, n + 1)
             q == g - 3 - o
  <2>1. n + 1 \in 1..Len(v) /\ (n + 1) - 1 = n
    BY <1>1, <1>7, <1>12
  <2>2. g \in Nat /\ e + 3 <= g
    BY <2>1, EndsInOrder DEF e
  <2> SUFFICES ASSUME g <= o + k PROVE FALSE
    BY <1>1, <1>6, <2>2
  <2>3. startCode3(b, q)
    <3> DEFINE m == n + 1
    <3>0. g <= o + a /\ o <= e
      <4>1. g \in Nat /\ g <= o + k /\ k \in Nat /\ k <= a /\ a \in Nat /\ o \in Nat
        BY <1>1, <1>6, <2>2
      <4>2. e = o + s + l /\ s \in Nat /\ l \in Nat
        BY <1>3, <1>8
      <4> HIDE DEF g
      <4>3. g <= o + a
        BY <4>1
      <4>4. o <= e
        BY <4>1, <4>2
      <4> QED
        BY <4>3, <4>4
    <3>1. m \in 1..Len(v) /\ o <= NalEnd(v, m - 1) /\ CodeEnd(v, m) <= o + a
      BY <2>1, <3>0 DEF e
    <3> HIDE DEF m
    <3>2. startCode3(b, CodeEnd(v, m) - 3 - o)
      BY <3>1, CodeFound
    <3> QED
      BY <3>2 DEF m
  <2>4. q \in s..(s + a - 4) /\ q < k
    <3> HIDE DEF g
    <3> QED
      BY <1>1, <1>3, <1>6, <1>8, <2>2
  <2> HIDE DEF q
  <2> QED
    BY <1>1, <1>3, <1>4, <1>5, <2>3, <2>4
<1>13. ASSUME FitsIn(v, n) PROVE o + k = e
  <2>1. CASE n < Len(v)
    <3> DEFINE g == CodeEnd(v, n + 1)
               d == CodeOf(v, n + 1)
               q == e - o
    <3>1. n + 1 \in 1..Len(v) /\ (n + 1) - 1 = n
      BY <1>1, <1>7, <2>1
    <3>2. /\ g \in Nat /\ d \in {3, 4} /\ g = e + d /\ g <= Len(f)
      <4>1. /\ CodeEnd(v, n + 1) \in Nat /\ CodeOf(v, n + 1) \in {3, 4}
            /\ CodeEnd(v, n + 1) = NalEnd(v, (n + 1) - 1) + CodeOf(v, n + 1)
        BY <3>1, Layout
      <4>2. CodeEnd(v, n + 1) < NalEnd(v, n + 1) /\ NalEnd(v, n + 1) <= Len(f) /\ NalEnd(v, n + 1) \in Nat
        BY <3>1, EndsInOrder DEF f
      <4> QED
        BY <1>1, <3>1, <4>1, <4>2 DEF e
    <3>3. CodeOf(v, n) + l + d <= H264_FILE_BUFFER
      BY <1>13, <2>1 DEF FitsIn, l
    <3> HIDE DEF d
    <3>4. g <= o + a
      <4> DEFINE x == CodeOf(v, n)
      <4>1. x \in {3, 4} /\ s <= x /\ x + l + d <= H264_FILE_BUFFER
        BY <1>7, <1>8, <3>3
      <4>2. g = o + s + l + d /\ g \in Nat /\ g <= Len(f)
        BY <1>8, <3>2
      <4> HIDE DEF g, x
      <4>3. CASE a = H264_FILE_BUFFER
        BY <1>1, <1>3, <1>8, <3>2, <4>1, <4>2, <4>3
      <4>4. CASE o + a = Len(f)
        BY <1>1, <4>2, <4>4
      <4> QED
        BY <1>1, <4>3, <4>4
    <3>5. startCode3(b, q) \/ startCode4(b, q)
      <4>1. startCode3(b, g - 3 - o) /\ (d = 4 => startCode4(b, q))
        <5> DEFINE m == n + 1
        <5>1. m \in 1..Len(v) /\ o <= NalEnd(v, m - 1) /\ CodeEnd(v, m) <= o + a /\ m - 1 = n
          BY <1>1, <1>3, <1>8, <3>1, <3>4 DEF e
        <5> HIDE DEF m
        <5>2. /\ startCode3(b, CodeEnd(v, m) - 3 - o)
              /\ CodeOf(v, m) = 4 => startCode4(b, NalEnd(v, m - 1) - o)
          BY <5>1, CodeFound
        <5> QED
          BY <5>1, <5>2 DEF m, d, e
      <4>2. CASE d = 3
        <5>1. g - 3 - o = q
          BY <1>1, <1>8, <3>2, <4>2
        <5> QED
          BY <4>1, <5>1
      <4> QED
        BY <3>2, <4>1, <4>2
    <3>6. q \in s..(s + a - 4) /\ q + 3 <= a
      BY <1>1, <1>3, <1>8, <3>2, <3>4
    <3> HIDE DEF q, g
    <3>7. k <= q
      BY <1>4, <1>5, <3>5, <3>6
    <3>8. e = o + q
      BY <1>1, <1>8 DEF q
    <3>9. k < q => k + 4 <= a
      BY <1>1, <1>3, <1>6, <3>6
    <3> QED
      BY <1>1, <1>3, <1>6, <1>10, <3>6, <3>7, <3>8, <3>9
  <2>2. CASE n = Len(v)
    <3>1. e = Len(f)
      BY <2>2, FileEnds DEF e, f
    <3>2. CodeOf(v, n) + l <= H264_FILE_BUFFER
      BY <1>8, <1>13, <2>2 DEF FitsIn, l
    <3>3. o + a = Len(f)
      <4> DEFINE x == CodeOf(v, n)
                 t == Len(f)
      <4>1. /\ x \in {3, 4} /\ s <= x /\ x + l <= H264_FILE_BUFFER /\ s \in {3, 4}
            /\ l \in Nat \ {0} /\ H264_FILE_BUFFER \in Nat /\ a \in Nat /\ o \in Nat
        BY <1>1, <1>3, <1>7, <1>8, <3>2
      <4>2. t = o + s + l /\ t \in Nat /\ o + a <= t /\ (a = H264_FILE_BUFFER \/ o + a = t)
        BY <1>1, <1>8, <3>1
      <4> HIDE DEF x, t
      <4>3. o + a = t
        BY <4>1, <4>2
      <4> QED
        BY <4>3 DEF t
    <3> QED
      BY <1>1, <1>6, <1>10, <3>1, <3>3
  <2> QED
    BY <1>1, <1>7, <2>1, <2>2
<1>14. k - s <= RTP_MAX_PKT_SIZE <=> l <= RTP_MAX_PKT_SIZE
  <2>1. k - s <= RTP_MAX_PKT_SIZE => e <= o + k
    <3>1. CASE k + 4 <= a \/ o + a = Len(f)
      BY <1>10, <3>1
    <3>2. CASE ~(k + 4 <= a) /\ a = H264_FILE_BUFFER
      BY <1>1, <1>3, <1>6, <3>2
    <3> QED
      BY <1>1, <3>1, <3>2 DEF f
  <2>2. k - s <= RTP_MAX_PKT_SIZE => l <= RTP_MAX_PKT_SIZE
    BY <1>1, <1>3, <1>6, <1>8, <2>1
  <2>3. ASSUME l <= RTP_MAX_PKT_SIZE PROVE k - s <= RTP_MAX_PKT_SIZE
    <3> DEFINE x == CodeOf(v, n)
               y == CodeOf(v, n + 1)
    <3>1. n < Len(v) => y \in {3, 4}
      <4>1. n < Len(v) => n + 1 \in 1..Len(v)
        BY <1>1, <1>7
      <4> QED
        BY <4>1, NalType
    <3>2. x \in {3, 4}
      BY <1>8
    <3>0. l \in Nat /\ H264_FILE_BUFFER >= RTP_MAX_PKT_SIZE + 8
          /\ H264_FILE_BUFFER \in Nat /\ RTP_MAX_PKT_SIZE \in Nat
      BY <1>8, BufferAssumption
    <3> HIDE DEF x, y
    <3>3. /\ n < Len(v) => x + l + y <= H264_FILE_BUFFER
          /\ x + l <= H264_FILE_BUFFER /\ x + l + 0 = x + l
      <4>1. x + l <= H264_FILE_BUFFER /\ x + l + 0 = x + l
        BY <2>3, <3>0, <3>2
      <4>2. ASSUME n < Len(v) PROVE x + l + y <= H264_FILE_BUFFER
        BY <2>3, <3>0, <3>1, <3>2, <4>2
      <4> QED
        BY <4>1, <4>2
    <3>4. FitsIn(v, n)
      BY <3>3 DEF FitsIn, x, y, l
    <3>5. o + k = e
      BY <1>13, <3>4
    <3> QED
      BY <1>1, <1>3, <1>6, <1>8, <2>3, <3>5
  <2> QED
    BY <2>2, <2>3
<1>15. At(v, n, o + k)
  <2>1. n \in 0..Len(v) /\ o + k \in 0..Len(f) /\ n > 0 /\ CodeEnd(v, n) < o + k
    BY <1>1, <1>3, <1>5, <1>6, <1>7, <1>11
  <2> QED
    BY <1>12, <1>13, <2>1 DEF At, e, f
<1>16. k \in (s + 1)..a
  BY <1>1, <1>3, <1>5, <1>6, <1>11
<1> QED
  BY <1>3, <1>6, <1>7, <1>9, <1>14, <1>15, <1>16 DEF s, k, S, n, l

-----------------------------------------------------------------------------
(* What a receiver should get *)

\* What is sent of the n-th NAL if the reader is then at o.
Whole(v, n, o) ==
  [j \in 1..(o - CodeEnd(v, n) + (IF o - CodeEnd(v, n) > RTP_MAX_PKT_SIZE THEN 1 ELSE 0)) |->
     IF j <= o - CodeEnd(v, n) THEN File(v)[CodeEnd(v, n) + j] ELSE 0]

\* A unit that others may follow, and the last that is sent.
Complete(v, n, unit) ==
  \/ Padded(unit, NalOf(v, n), IF Len(NalOf(v, n)) > RTP_MAX_PKT_SIZE THEN 1 ELSE 0)
  \/ ~FitsIn(v, n) /\ Padded(unit, NalOf(v, n), 2)
Part(v, n, unit) ==
  ~FitsIn(v, n) /\ \E m \in 1..Len(NalOf(v, n)) : Padded(unit, SubSeq(NalOf(v, n), 1, m), 4)

LEMMA PaddedWith ==
  ASSUME NEW nal \in Seq(Byte), NEW n \in Nat, NEW z \in 0..n, NEW unit,
         unit = [j \in 1..(Len(nal) + z) |-> IF j <= Len(nal) THEN nal[j] ELSE 0]
  PROVE  Padded(unit, nal, n)
<1> DEFINE zeros == [k \in 1..z |-> 0]
           l == Len(nal)
<1>1. zeros \in Seq(Byte) /\ Len(zeros) = z /\ \A k \in 1..z : zeros[k] = 0
  BY DEF Byte
<1>2. l \in Nat /\ Len(nal) = l
  OBVIOUS
<1> HIDE DEF zeros, l
<1> DEFINE y == nal \o zeros
<1>3. /\ y \in Seq(Byte) /\ Len(y) = l + z
      /\ \A k \in 1..l : y[k] = nal[k]
      /\ \A k \in 1..z : y[l + k] = 0
  <2>1. zeros \in Seq(Byte) /\ nal \in Seq(Byte) /\ l \in Nat /\ Len(nal) = l
    BY <1>1, <1>2
  <2>2. /\ y \in Seq(Byte) /\ Len(y) = l + Len(zeros)
        /\ \A k \in 1..l : y[k] = nal[k]
        /\ \A k \in 1..Len(zeros) : y[l + k] = zeros[k]
    BY <2>1, BytesBehind
  <2> HIDE DEF y
  <2> QED
    BY <1>1, <2>2
<1> HIDE DEF y
<1>4. ASSUME NEW j \in 1..(l + z) PROVE y[j] = IF j <= l THEN nal[j] ELSE 0
  <2>1. CASE j <= l
    <3>1. j \in 1..l
      BY <1>2, <2>1
    <3> QED
      BY <1>3, <2>1, <3>1
  <2>2. CASE j > l
    <3> DEFINE k == j - l
    <3>1. k \in 1..z /\ l + k = j /\ ~(j <= l)
      BY <1>2, <2>2
    <3> HIDE DEF k
    <3>2. y[l + k] = 0
      BY <1>3, <3>1
    <3> QED
      BY <3>1, <3>2
  <2> QED
    BY <1>2, <2>1, <2>2
<1>5. y = [j \in 1..(l + z) |-> IF j <= l THEN nal[j] ELSE 0]
  <2>1. DOMAIN y = 1..(l + z) /\ y = [j \in DOMAIN y |-> y[j]]
    BY <1>2, <1>3
  <2> QED
    BY <1>4, <2>1
<1> QED
  BY <1>5 DEF Padded, zeros, l, y

LEMMA WholeNal ==
  ASSUME NEW v \in Videos, NEW n \in 1..Len(v), NEW o, At(v, n, o)
  PROVE  /\ Whole(v, n, o) \in Seq(Byte)
         /\ Complete(v, n, Whole(v, n, o)) \/ Part(v, n, Whole(v, n, o))
         /\ o \in NalEnd(v, n)..(NalEnd(v, n) + 1) => Complete(v, n, Whole(v, n, o))
<1> DEFINE f == File(v)
           g == CodeEnd(v, n)
           e == NalEnd(v, n)
           nal == NalOf(v, n)
           l == Len(nal)
           size == o - g
           x == IF size > RTP_MAX_PKT_SIZE THEN 1 ELSE 0
           w == Whole(v, n, o)
<1>1. /\ g \in Nat /\ e \in Nat /\ l \in Nat \ {0} /\ e = g + l /\ e <= Len(f)
      /\ \A k \in 1..l : f[g + k] = nal[k]
  BY Layout
<1>2. /\ o \in 0..Len(f) /\ Len(f) \in Nat /\ g < o /\ Len(v) \in Nat /\ f \in Seq(Byte)
      /\ o # e => ~FitsIn(v, n)
  BY FileEnds DEF At
<1>3. nal \in Seq(Byte)
  BY NalType
<1>4. RTP_MAX_PKT_SIZE \in Nat \ {0}
  BY BufferAssumption
<1>5. w = [j \in 1..(size + x) |-> IF j <= size THEN f[g + j] ELSE 0]
  BY DEF Whole
<1>6. \A k \in (l + 1)..size : f[g + k] = 0
  <2> TAKE k \in (l + 1)..size
  <2>1. n < Len(v)
    BY <1>1, <1>2, FileEnds
  <2> DEFINE m == n + 1
             d == CodeOf(v, m)
             i == g + k - e
  <2>2. m \in 1..Len(v) /\ m - 1 = n
    BY <1>2, <2>1
  <2>3. o < CodeEnd(v, m)
    BY <2>1 DEF At
  <2> HIDE DEF m
  <2>4. /\ d \in {3, 4} /\ CodeEnd(v, m) = e + d /\ \A j \in 1..(d - 1) : f[e + j] = 0
    BY <2>2, Layout
  <2>5. i \in 1..(d - 1) /\ e + i = g + k
    <3> HIDE DEF f, g, e, l, d
    <3> QED
      BY <1>1, <1>2, <2>3, <2>4
  <2> HIDE DEF i
  <2> QED
    BY <2>4, <2>5
<1>7. o # e \/ o = e
  OBVIOUS
<1>8. (n < Len(v) => o < e + 4) /\ (n = Len(v) => o <= e)
  <2>1. ASSUME n < Len(v) PROVE o < e + 4
    <3> DEFINE m == n + 1
    <3>1. m \in 1..Len(v) /\ m - 1 = n
      BY <1>2, <2>1
    <3>2. o < CodeEnd(v, m)
      BY <2>1 DEF At
    <3> HIDE DEF m
    <3>3. /\ CodeOf(v, m) \in {3, 4} /\ CodeEnd(v, m) = e + CodeOf(v, m)
      BY <3>1, Layout
    <3> QED
      BY <1>1, <1>2, <3>2, <3>3
  <2>2. ASSUME n = Len(v) PROVE o <= e
    BY <1>2, <2>2, FileEnds
  <2> QED
    BY <2>1, <2>2
<1> HIDE DEF f, g, e, nal, l, w
<1>9. o \in Nat /\ size \in Nat \ {0} /\ x \in {0, 1} /\ Len(nal) = l /\ o <= e + 3
  BY <1>1, <1>2, <1>8 DEF l
<1> HIDE DEF size, x
<1>10. w \in Seq(Byte)
  <2>1. \A j \in 1..(size + x) : (IF j <= size THEN f[g + j] ELSE 0) \in Byte
    <3> TAKE j \in 1..(size + x)
    <3>1. CASE j <= size
      <4>1. g + j \in 1..Len(f)
        BY <1>1, <1>2, <1>9, <3>1 DEF size
      <4> QED
        BY <1>2, <3>1, <4>1
    <3> QED
      BY <3>1 DEF Byte
  <2>2. w \in [1..(size + x) -> Byte] /\ size + x \in Nat
    BY <1>5, <1>9, <2>1
  <2> QED
    BY <2>2
<1>11. CASE o >= e
  <2> DEFINE z == o - e + x
  <2>1. z \in Nat /\ l + z = size + x /\ z <= 4
    <3>1. /\ o \in Nat /\ e \in Nat /\ g \in Nat /\ l \in Nat /\ e = g + l /\ size = o - g
          /\ x \in {0, 1} /\ o <= e + 3
      BY <1>1, <1>9 DEF size
    <3> QED
      BY <1>11, <3>1
  <2>2. w = [j \in 1..(l + z) |-> IF j <= l THEN nal[j] ELSE 0]
    <3>1. \A j \in 1..(size + x) : (IF j <= size THEN f[g + j] ELSE 0) = (IF j <= l THEN nal[j] ELSE 0)
      <4> TAKE j \in 1..(size + x)
      <4>1. CASE j <= l
        <5>1. j \in 1..l /\ j <= size
          BY <1>1, <1>9, <1>11, <4>1 DEF size
        <5> QED
          BY <1>1, <4>1, <5>1
      <4>2. CASE ~(j <= l) /\ j <= size
        <5>1. j \in (l + 1)..size
          BY <1>1, <1>9, <4>2
        <5> QED
          BY <1>6, <4>2, <5>1
      <4>3. CASE ~(j <= l) /\ ~(j <= size)
        BY <4>3
      <4> QED
        BY <1>1, <1>9, <1>11, <4>1, <4>2, <4>3
    <3> QED
      BY <1>5, <2>1, <3>1
  <2> HIDE DEF z
  <2>3. \A i \in Nat : z <= i => Padded(w, nal, i)
    BY <1>3, <1>9, <2>1, <2>2, PaddedWith
  <2>4. CASE o = e
    <3>1. z = IF l > RTP_MAX_PKT_SIZE THEN 1 ELSE 0
      BY <1>1, <1>4, <1>9, <2>4 DEF z, x, size
    <3>2. Padded(w, nal, IF l > RTP_MAX_PKT_SIZE THEN 1 ELSE 0)
      BY <2>1, <2>3, <3>1
    <3> QED
      BY <1>10, <3>2 DEF Complete, w, nal, l
  <2>5. CASE o # e
    <3>1. Padded(w, nal, 4)
      BY <2>1, <2>3
    <3>2. SubSeq(nal, 1, l) = nal /\ l \in 1..l
      <4>1. SubSeq(nal, 1, Len(nal)) = nal
        BY <1>3, SubSeqFull
      <4> QED
        BY <1>1, <1>9, <4>1
    <3>3. Part(v, n, w)
      <4>1. \E m \in 1..l : Padded(w, SubSeq(nal, 1, m), 4)
        BY <3>1, <3>2
      <4> QED
        BY <1>2, <2>5, <4>1 DEF Part, nal, l
    <3>4. o \in e..(e + 1) => Padded(w, nal, 2)
      <4>1. o \in e..(e + 1) => z <= 2
        BY <1>1, <1>9, <2>5 DEF z
      <4> QED
        BY <2>3, <4>1
    <3> QED
      BY <1>2, <1>10, <2>5, <3>3, <3>4 DEF Complete, w, nal, e
  <2> QED
    BY <2>4, <2>5
<1>12. CASE o < e
  <2> DEFINE part == SubSeq(nal, 1, size)
  <2>1. size \in 1..l
    BY <1>1, <1>9, <1>12 DEF size
  <2>2. part \in Seq(Byte) /\ Len(part) = size /\ \A j \in 1..size : part[j] = nal[j]
    BY <1>3, <1>9, <2>1
  <2> HIDE DEF part
  <2>3. w = [j \in 1..(size + x) |-> IF j <= size THEN part[j] ELSE 0]
    <3>1. \A j \in 1..(size + x) : (IF j <= size THEN f[g + j] ELSE 0) = (IF j <= size THEN part[j] ELSE 0)
      <4> TAKE j \in 1..(size + x)
      <4>1. CASE j <= size
        <5>1. j \in 1..l /\ j \in 1..size
          BY <1>1, <1>9, <2>1, <4>1
        <5> QED
          BY <1>1, <2>2, <4>1, <5>1
      <4> QED
        BY <4>1
    <3> QED
      BY <1>5, <3>1
  <2>4. Padded(w, part, 4)
    <3>1. x \in 0..4 /\ 4 \in Nat
      BY <1>9
    <3> QED
      BY <2>2, <2>3, <3>1, PaddedWith
  <2>5. Part(v, n, w)
    <3>1. \E m \in 1..l : Padded(w, SubSeq(nal, 1, m), 4)
      BY <2>1, <2>4 DEF part
    <3>2. ~FitsIn(v, n)
      BY <1>1, <1>2, <1>9, <1>12
    <3> QED
      BY <3>1, <3>2 DEF Part, nal, l
  <2> QED
    BY <1>1, <1>9, <1>10, <1>12, <2>5 DEF w, e
<1> QED
  BY <1>1, <1>9, <1>11, <1>12

-----------------------------------------------------------------------------
(* Packets *)

LEMMA Product ==
  ASSUME NEW m \in Nat \ {0}, NEW i \in Nat, NEW q \in Nat
  PROVE  /\ i * m \in Nat /\ (i + 1) * m = i * m + m
         /\ i < q => i * m + m <= m * q
         /\ i = q => i * m = m * q
         /\ i + 1 = q => i * m + m = m * q
         /\ q <= m * q
<1>1. i * m \in Nat /\ (i + 1) * m = i * m + m /\ (i = q => i * m = m * q)
  BY SMTT(20)
<1>2. i + 1 = q => i * m + m = m * q
  BY SMTT(20)
<1>3. ASSUME i < q PROVE i * m + m <= m * q
  <2> DEFINE d == q - i - 1
  <2>1. d \in Nat
    BY <1>3
  <2>2. d * m >= 0
    <3> HIDE DEF d
    <3> QED
      BY <2>1, SMTT(20)
  <2>3. d * m = m * q - i * m - m
    BY SMTT(20)
  <2> DEFINE x == i * m
             y == m * q
             z == d * m
  <2>4. x \in Int /\ y \in Int /\ z = y - x - m /\ z >= 0
    BY <2>2, <2>3, SMTT(20)
  <2> HIDE DEF x, y, z
  <2>5. x + m <= y
    BY <2>4
  <2> QED
    BY <2>5 DEF x, y
<1>4. q <= m * q
  <2>1. (m - 1) * q >= 0 /\ (m - 1) * q = m * q - q
    BY SMTT(20)
  <2> DEFINE y == m * q
             z == (m - 1) * q
  <2>2. y \in Int /\ z >= 0 /\ z = y - q
    BY <2>1, SMTT(20)
  <2> HIDE DEF y, z
  <2>3. q <= y
    BY <2>2
  <2> QED
    BY <2>3 DEF y
<1> QED
  BY <1>1, <1>2, <1>3, <1>4

\* There is a packet for every NAL, and not more than it has bytes.
LEMMA PacketsNumber ==
  ASSUME NEW n \in Nat \ {0}
  PROVE  (IF n <= RTP_MAX_PKT_SIZE THEN 1
          ELSE (n \div RTP_MAX_PKT_SIZE) + (IF n % RTP_MAX_PKT_SIZE > 0 THEN 1 ELSE 0)) \in 1..n
<1> DEFINE m == RTP_MAX_PKT_SIZE
           q == n \div m
           r == n % m
<1>1. m \in Nat \ {0}
  BY BufferAssumption
<1>2. q \in Int /\ r \in 0..(m - 1) /\ n = m * q + r
  BY <1>1, Division
<1> HIDE DEF m, q, r
<1>3. ASSUME n > m PROVE q >= 1
  <2>1. m * q > 0
    BY <1>1, <1>2, <1>3
  <2>2. CASE q = 0
    BY <1>1, <2>1, <2>2
  <2>3. CASE q < 0
    <3>1. -q >= 1 /\ -q \in Nat
      BY <1>2, <2>3
    <3>2. m * (-q) >= -q
      BY <1>1, <3>1, Product
    <3> QED
      BY <1>1, <1>2, <2>1, <3>1, <3>2, SMTT(20)
  <2> QED
    BY <1>2, <2>2, <2>3
<1>4. ASSUME q >= 1 PROVE q <= m * q
  BY <1>1, <1>2, <1>4, Product
<1>5. n > m => q + (IF r > 0 THEN 1 ELSE 0) \in 1..n
  <2> DEFINE y == m * q
  <2>1. n > m => q >= 1 /\ q <= y
    BY <1>3, <1>4
  <2>2. n = y + r
    BY <1>2
  <2>3. y \in Int
    BY <1>1, <1>2
  <2> HIDE DEF y
  <2> QED
    BY <1>1, <1>2, <2>1, <2>2, <2>3
<1> QED
  BY <1>1, <1>5 DEF m, q, r

\* The size of the i-th fragment, but for its two bytes.
Piece(i) == IF i < split_size THEN RTP_MAX_PKT_SIZE ELSE remain_size

LEMMA Pieces ==
  ASSUME filesize \in Nat, ~Single
  PROVE  /\ PacketsOfNal \in 2..filesize
         /\ \A i \in 0..(PacketsOfNal - 1) :
              /\ i * RTP_MAX_PKT_SIZE \in Nat /\ Piece(i) \in Nat
              /\ (i + 1) * RTP_MAX_PKT_SIZE = i * RTP_MAX_PKT_SIZE + RTP_MAX_PKT_SIZE
              /\ i * RTP_MAX_PKT_SIZE + Piece(i) <= filesize
              /\ i + 1 < PacketsOfNal => Piece(i) = RTP_MAX_PKT_SIZE
              /\ i + 1 = PacketsOfNal => i * RTP_MAX_PKT_SIZE + Piece(i) = filesize
<1> DEFINE m == RTP_MAX_PKT_SIZE
           q == split_size
           r == remain_size
           P == PacketsOfNal
<1>1. m \in Nat \ {0} /\ filesize > m
  BY BufferAssumption DEF Single
<1>2. q \in Int /\ r \in 0..(m - 1) /\ filesize = m * q + r
  BY <1>1, Division DEF split_size, remain_size
<1>3. P = q + (IF r > 0 THEN 1 ELSE 0)
  BY DEF PacketsOfNal
<1> HIDE DEF m, q, r, P
<1>4. q >= 1
  <2> SUFFICES ASSUME q <= 0 PROVE FALSE
    BY <1>2
  <2>1. m * q <= 0
    BY <1>1, <1>2, SMTT(20)
  <2> DEFINE y == m * q
  <2>2. y \in Int /\ y <= 0 /\ filesize = y + r
    BY <1>1, <1>2, <2>1
  <2> HIDE DEF y
  <2> QED
    BY <1>1, <1>2, <2>2
<1>5. q \in Nat
  BY <1>2, <1>4
<1> DEFINE y == m * q
<1>6. y \in Int /\ filesize = y + r /\ q <= y /\ (q = 1 => y = m)
  BY <1>1, <1>2, <1>5, Product
<1> HIDE DEF y
<1>7. P \in 2..filesize
  BY <1>1, <1>2, <1>3, <1>4, <1>6
<1>8. ASSUME NEW i \in 0..(P - 1)
      PROVE  /\ i * m \in Nat /\ Piece(i) \in Nat /\ (i + 1) * m = i * m + m
             /\ i * m + Piece(i) <= filesize
             /\ i + 1 < P => Piece(i) = m
             /\ i + 1 = P => i * m + Piece(i) = filesize
  <2> DEFINE x == i * m
  <2>0. i \in Nat
    BY <1>7
  <2>1. /\ x \in Nat /\ (i + 1) * m = x + m /\ (i < q => x + m <= y) /\ (i = q => x = y)
        /\ (i + 1 = q => x + m = y)
    BY <1>1, <1>5, <2>0, Product DEF y
  <2> HIDE DEF x
  <2>2. Piece(i) = IF i < q THEN m ELSE r
    BY DEF Piece, m, q, r
  <2>3. CASE i < q
    <3>1. i + 1 = P => i + 1 = q /\ r = 0
      BY <1>2, <1>3, <1>5, <2>0, <2>3
    <3> QED
      BY <1>1, <1>2, <1>6, <2>1, <2>2, <2>3, <3>1 DEF x
  <2>4. CASE ~(i < q)
    <3>1. i = q /\ r > 0 /\ i + 1 = P
      BY <1>2, <1>3, <1>5, <2>0, <2>4
    <3> QED
      BY <1>1, <1>2, <1>6, <2>1, <2>2, <2>4, <3>1 DEF x
  <2> QED
    BY <2>3, <2>4
<1> QED
  BY <1>7, <1>8 DEF m, P

\* A part of the buffer.
LEMMA CopiedType ==
  ASSUME rec \in [0..(H264_FILE_BUFFER + 3) -> Byte], step \in Nat, NEW p \in Nat, NEW n \in Nat,
         step + p + n <= H264_FILE_BUFFER + 4
  PROVE  /\ Copied(p, n) \in Seq(Byte) /\ Len(Copied(p, n)) = n
         /\ \A k \in 1..n : Copied(p, n)[k] = rec[step + p + k - 1]
<1> DEFINE c == Copied(p, n)
<1>1. c = [k \in 1..n |-> rec[step + p + k - 1]]
  BY DEF Copied
<1>2. \A k \in 1..n : rec[step + p + k - 1] \in Byte
  <2> TAKE k \in 1..n
  <2> DEFINE i == step + p + k - 1
  <2>1. i \in 0..(H264_FILE_BUFFER + 3)
    BY BufferAssumption
  <2> HIDE DEF i
  <2>2. rec[i] \in Byte
    BY <2>1
  <2> QED
    BY <2>2 DEF i
<1> HIDE DEF c
<1>3. c \in Seq(Byte) /\ Len(c) = n
  <2>1. c \in [1..n -> Byte]
    BY <1>1, <1>2
  <2>2. DOMAIN c = 1..n
    BY <1>1
  <2>3. Len(c) = n
    BY <2>1, <2>2
  <2> QED
    BY <2>1, <2>3
<1> QED
  BY <1>1, <1>3 DEF c

LEMMA CopiedJoin ==
  ASSUME rec \in [0..(H264_FILE_BUFFER + 3) -> Byte], step \in Nat, NEW p \in Nat, NEW n \in Nat,
         step + p + n <= H264_FILE_BUFFER + 4
  PROVE  Copied(0, p) \o Copied(p, n) = Copied(0, p + n)
<1> DEFINE a == Copied(0, p)
           b == Copied(p, n)
           c == Copied(0, p + n)
           y == a \o b
<1>0. /\ step + 0 + p <= H264_FILE_BUFFER + 4 /\ step + 0 + (p + n) <= H264_FILE_BUFFER + 4
      /\ p + n \in Nat
  BY BufferAssumption
<1>1. a \in Seq(Byte) /\ Len(a) = p /\ \A k \in 1..p : a[k] = rec[step + 0 + k - 1]
  BY <1>0, CopiedType
<1>2. b \in Seq(Byte) /\ Len(b) = n /\ \A k \in 1..n : b[k] = rec[step + p + k - 1]
  BY CopiedType
<1>3. c \in Seq(Byte) /\ Len(c) = p + n /\ \A k \in 1..(p + n) : c[k] = rec[step + 0 + k - 1]
  BY <1>0, CopiedType
<1> HIDE DEF a, b, c
<1>4. /\ y \in Seq(Byte) /\ Len(y) = p + Len(b)
      /\ \A k \in 1..p : y[k] = a[k]
      /\ \A k \in 1..Len(b) : y[p + k] = b[k]
  <2>1. a \in Seq(Byte) /\ b \in Seq(Byte) /\ p \in Nat /\ Len(a) = p
    BY <1>1, <1>2
  <2> QED
    BY <2>1, BytesBehind
<1> HIDE DEF y
<1>5. ASSUME NEW i \in 1..(p + n) PROVE y[i] = c[i]
  <2>1. CASE i <= p
    <3>1. i \in 1..p
      BY <2>1
    <3> QED
      BY <1>1, <1>3, <1>4, <3>1
  <2>2. CASE i > p
    <3> DEFINE k == i - p
    <3>1. k \in 1..n /\ p + k = i /\ step + p + k - 1 = step + 0 + i - 1
      BY <2>2
    <3> HIDE DEF k
    <3>2. y[p + k] = b[k] /\ b[k] = rec[step + p + k - 1] /\ c[i] = rec[step + 0 + i - 1]
      BY <1>2, <1>3, <1>4, <3>1
    <3> QED
      BY <3>1, <3>2
  <2> QED
    BY <2>1, <2>2
<1>6. y = c
  BY <1>2, <1>3, <1>4, <1>5
<1> QED
  BY <1>6 DEF y, a, b, c

\* The first two bytes of a fragment: of which NAL it is, and if it is the first or last.
Indicator(h) == Importance(h) * 32 + FU_A
FragmentByte(h, flag) == flag + Type(h)

\* What they say to the receiver.
Tell(p1, p2, h, flag) ==
  /\ p1 \in Byte /\ p2 \in Byte /\ Type(p1) = FU_A
  /\ (p1 \div 32) * 32 + (p2 % 32) = h
  /\ p2 >= Start <=> flag = Start
  /\ (p2 \div End) % 2 = 1 <=> flag = End

LEMMA FragmentHeader ==
  ASSUME NEW h \in 0..127, NEW flag \in {0, Start, End}
  PROVE  Tell(Indicator(h), FragmentByte(h, flag), h, flag)
<1> DEFINE i == h \div 32
           t == h % 32
<1>1. i \in 0..3 /\ t \in 0..31 /\ h = 32 * i + t
  BY SMTT(20)
<1>2. Importance(h) = i /\ Type(h) = t
  <2>1. Importance(h) = i % 4 /\ Type(h) = t
    BY DEF Importance, Type
  <2> HIDE DEF i
  <2> QED
    BY <1>1, <2>1
<1> HIDE DEF i, t
<1>3. /\ i * 32 + 28 \in Byte /\ flag + t \in Byte /\ (i * 32 + 28) % 32 = 28
      /\ ((i * 32 + 28) \div 32) * 32 = i * 32
  BY <1>1 DEF Byte, Start, End
<1>4. /\ (flag + t) % 32 = t /\ (flag + t >= 128 <=> flag = 128)
      /\ ((flag + t) \div 64) % 2 = 1 <=> flag = 64
  BY <1>1 DEF Start, End
<1> QED
  BY <1>1, <1>2, <1>3, <1>4 DEF FU_A, Start, End, Type, Indicator, FragmentByte, Tell

LEMMA TwoBefore ==
  ASSUME NEW a \in Byte, NEW b \in Byte, NEW c \in Seq(Byte)
  PROVE  /\ <<a, b>> \o c \in Seq(Byte) /\ (<<a, b>> \o c)[1] = a /\ (<<a, b>> \o c)[2] = b
         /\ SubSeq(<<a, b>> \o c, 3, Len(<<a, b>> \o c)) = c
<1> DEFINE y == <<a, b>> \o c
           l == Len(c)
           x == SubSeq(y, 3, 2 + l)
<1>1. <<a, b>> \in Seq(Byte) /\ Len(<<a, b>>) = 2 /\ <<a, b>>[1] = a /\ <<a, b>>[2] = b /\ l \in Nat
  OBVIOUS
<1>2. /\ y \in Seq(Byte) /\ Len(y) = 2 + l
      /\ \A k \in 1..2 : y[k] = <<a, b>>[k]
      /\ \A k \in 1..l : y[2 + k] = c[k]
  BY <1>1, BytesBehind
<1> HIDE DEF y
<1>3. x \in Seq(Byte) /\ Len(x) = l /\ \A k \in 1..l : x[k] = y[2 + k]
  BY <1>1, <1>2
<1> HIDE DEF x
<1>4. x = c
  BY <1>2, <1>3
<1>5. 1 \in 1..2 /\ 2 \in 1..2
  OBVIOUS
<1> QED
  BY <1>1, <1>2, <1>4, <1>5 DEF x, y

-----------------------------------------------------------------------------
(* Receiving *)

\* The reader is where it can be.
Where == video \in Videos /\ file = File(video) /\ At(video, current, offset)

\* The NAL that is being sent is in the buffer, and a zero behind it.
InHand ==
  /\ current \in 1..Len(video)
  /\ step \in {3, 4} /\ filesize \in Nat \ {0} /\ step + filesize <= H264_FILE_BUFFER
  /\ offset = CodeEnd(video, current) + filesize
  /\ \A j \in 0..(filesize - 1) : rec[step + j] = file[CodeEnd(video, current) + j + 1]
  /\ rec[step + filesize] = 0
  /\ Single <=> Len(NalOf(video, current)) <= RTP_MAX_PKT_SIZE
  /\ sent \in 0..(PacketsOfNal - 1)

\* A fragment before this one did not arrive; else what was gathered is all of them.
Broken == sent > 0 /\ ~(seq = expected /\ gathered # <<>>)
Gathered == sent > 0 /\ ~Broken => gathered = Copied(0, 1 + sent * RTP_MAX_PKT_SIZE)

LEMMA WholeCopied ==
  ASSUME Where, InHand, rec \in [0..(H264_FILE_BUFFER + 3) -> Byte]
  PROVE  /\ Single => Copied(0, filesize) = Whole(video, current, offset)
         /\ ~Single => Copied(0, 1 + filesize) = Whole(video, current, offset)
<1> DEFINE x == IF Single THEN 0 ELSE 1
           g == CodeEnd(video, current)
           n == filesize + x
           c == Copied(0, n)
<1>1. /\ step \in {3, 4} /\ filesize \in Nat \ {0} /\ step + filesize <= H264_FILE_BUFFER
      /\ offset = g + filesize /\ rec[step + filesize] = 0
      /\ \A j \in 0..(filesize - 1) : rec[step + j] = file[g + j + 1]
  BY DEF InHand
<1>2. g \in Nat
  <2>1. current \in 1..Len(video) /\ video \in Videos
    BY DEF Where, InHand
  <2> QED
    BY <2>1, Layout
<1>3. H264_FILE_BUFFER \in Nat /\ RTP_MAX_PKT_SIZE \in Nat /\ x \in {0, 1}
  BY BufferAssumption
<1>4. c \in Seq(Byte) /\ Len(c) = n /\ \A k \in 1..n : c[k] = rec[step + 0 + k - 1]
  <2>1. n \in Nat /\ step + 0 + n <= H264_FILE_BUFFER + 4
    BY <1>1, <1>3
  <2> HIDE DEF n
  <2> QED
    BY <1>1, <2>1, CopiedType
<1>5. offset - g = filesize
  BY <1>1, <1>2
<1>6. x = IF filesize > RTP_MAX_PKT_SIZE THEN 1 ELSE 0
  BY <1>1, <1>3 DEF Single
<1> HIDE DEF c, x, g
<1>7. Whole(video, current, offset) =
        [j \in 1..n |-> IF j <= filesize THEN file[g + j] ELSE 0]
  BY <1>5, <1>6 DEF Whole, Where, g
<1>8. ASSUME NEW j \in 1..n PROVE c[j] = IF j <= filesize THEN file[g + j] ELSE 0
  <2>1. c[j] = rec[step + 0 + j - 1]
    BY <1>4
  <2>2. CASE j <= filesize
    <3> DEFINE i == j - 1
    <3>1. i \in 0..(filesize - 1) /\ step + 0 + j - 1 = step + i /\ g + i + 1 = g + j
      BY <1>1, <1>2, <1>3, <2>2
    <3> HIDE DEF i
    <3> QED
      BY <1>1, <2>1, <2>2, <3>1
  <2>3. CASE j > filesize
    <3>1. step + 0 + j - 1 = step + filesize
      BY <1>1, <1>3, <2>3
    <3> QED
      BY <1>1, <2>1, <2>3, <3>1
  <2> QED
    BY <1>1, <1>3, <2>2, <2>3
<1>9. c = [j \in 1..n |-> IF j <= filesize THEN file[g + j] ELSE 0]
  <2>1. DOMAIN c = 1..n /\ c = [j \in DOMAIN c |-> c[j]]
    BY <1>4
  <2> QED
    BY <1>8, <2>1
<1>10. Single => n = filesize
  BY <1>1 DEF x
<1>11. ~Single => n = 1 + filesize
  BY <1>1 DEF x
<1> QED
  BY <1>7, <1>9, <1>10, <1>11 DEF c

LEMMA HeaderInHand ==
  ASSUME Where, InHand
  PROVE  NalHeader \in 0..127 /\ Type(NalHeader) # FU_A
<1> DEFINE nal == NalOf(video, current)
<1>1. video \in Videos /\ current \in 1..Len(video) /\ file = File(video)
  BY DEF Where, InHand
<1>2. nal \in Seq(Byte) /\ Len(nal) \in Nat \ {0} /\ nal[1] < 128 /\ Type(nal[1]) # FU_A
  BY <1>1, NalType
<1>3. CodeEnd(video, current) \in Nat /\ \A k \in 1..Len(nal) : file[CodeEnd(video, current) + k] = nal[k]
  BY <1>1, Layout
<1> HIDE DEF nal
<1>4. rec[step + 0] = file[CodeEnd(video, current) + 0 + 1] /\ step \in {3, 4}
  <2>1. 0 \in 0..(filesize - 1)
    BY DEF InHand
  <2> QED
    BY <2>1 DEF InHand
<1>5. 1 \in 1..Len(nal) /\ nal[1] \in Byte
  BY <1>2
<1>6. rec[step] = nal[1]
  <2>1. CodeEnd(video, current) + 0 + 1 = CodeEnd(video, current) + 1 /\ step + 0 = step
    BY <1>3, <1>4
  <2> QED
    BY <1>3, <1>4, <1>5, <2>1
<1> DEFINE first == nal[1]
<1>7. first \in 0..127 /\ Type(first) # FU_A
  <2>1. first \in Byte /\ first < 128 /\ Type(first) # FU_A
    BY <1>2, <1>5
  <2> HIDE DEF first
  <2> QED
    BY <2>1 DEF Byte
<1>8. NalHeader = first
  BY <1>6 DEF NalHeader
<1> HIDE DEF first
<1> QED
  BY <1>7, <1>8

\* What becomes of a packet that arrives.
LEMMA Received ==
  ASSUME Where, InHand, rec \in [0..(H264_FILE_BUFFER + 3) -> Byte], gathered \in Seq(Byte),
         Gathered, Receive(Payload, seq, timestamp)
  PROVE  /\ expected' = After(seq)
         /\ sent + 1 = PacketsOfNal =>
              /\ gathered' = <<>>
              /\ \/ units' = Append(units, [nal |-> Whole(video, current, offset),
                                            stamp |-> timestamp, of |-> current])
                 \/ Broken /\ units' = units
         /\ sent + 1 # PacketsOfNal =>
              /\ units' = units
              /\ \/ gathered' = Copied(0, 1 + (sent + 1) * RTP_MAX_PKT_SIZE) /\ gathered' # <<>>
                 \/ Broken /\ gathered' = <<>>
<1> DEFINE h == NalHeader
           P == PacketsOfNal
           w == Whole(video, current, offset)
<1>1. expected' = After(seq)
  BY DEF Receive
<1>2. h \in 0..127 /\ Type(h) # FU_A
  BY HeaderInHand
<1>3. /\ step \in Nat /\ filesize \in Nat \ {0} /\ step + filesize <= H264_FILE_BUFFER
      /\ sent \in 0..(P - 1) /\ H264_FILE_BUFFER \in Nat
  BY BufferAssumption DEF InHand
<1>4. CASE Single
  <2>1. P = 1 /\ sent = 0
    BY <1>3, <1>4 DEF PacketsOfNal
  <2>2. Payload = Copied(0, filesize) /\ Payload = w
    BY <1>4, WholeCopied DEF Payload
  <2>3. Payload[1] = h
    <3>1. step + 0 + filesize <= H264_FILE_BUFFER + 4 /\ 1 \in 1..filesize /\ step + 0 + 1 - 1 = step
      BY <1>3
    <3>2. \A k \in 1..filesize : Copied(0, filesize)[k] = rec[step + 0 + k - 1]
      BY <1>3, <3>1, CopiedType
    <3>3. Copied(0, filesize)[1] = rec[step + 0 + 1 - 1]
      BY <3>1, <3>2
    <3> QED
      BY <2>2, <3>1, <3>3 DEF NalHeader
  <2>4. Deliver(Payload, timestamp) /\ gathered' = <<>>
    BY <1>2, <2>3 DEF Receive
  <2> QED
    BY <1>1, <2>1, <2>2, <2>4 DEF Deliver
<1>5. CASE ~Single
  <2> DEFINE m == RTP_MAX_PKT_SIZE
             pos == sent * m
             n == Piece(sent)
             c == Copied(1 + pos, n)
             flag == FragmentFlag(sent)
             p1 == Indicator(h)
             p2 == FragmentByte(h, flag)
             G == Fragments(Payload, seq)
  <2>1. P \in 2..filesize /\ m \in Nat \ {0}
    BY <1>3, <1>5, Pieces, BufferAssumption
  <2>2. /\ pos \in Nat /\ n \in Nat /\ (sent + 1) * m = pos + m /\ pos + n <= filesize
        /\ sent + 1 < P => n = m
        /\ sent + 1 = P => pos + n = filesize
    BY <1>3, <1>5, Pieces
  <2>3. /\ flag \in {0, Start, End} /\ (flag = Start <=> sent = 0) /\ (flag = End <=> sent + 1 = P)
    BY <1>3, <2>1 DEF FragmentFlag, Start, End
  <2>4. Payload = <<p1, p2>> \o c
    <3>1. Piece(sent) = IF sent < split_size THEN RTP_MAX_PKT_SIZE ELSE remain_size
      BY DEF Piece
    <3> QED
      BY <1>5, <3>1 DEF Payload, Fragment, Indicator, FragmentByte
  <2> HIDE DEF h, flag, n, pos, P
  <2>5. /\ p1 \in Byte /\ p2 \in Byte /\ Type(p1) = FU_A
        /\ (p1 \div 32) * 32 + (p2 % 32) = h
        /\ (p2 >= Start <=> sent = 0)
        /\ ((p2 \div End) % 2 = 1 <=> sent + 1 = P)
    <3>1. Tell(p1, p2, h, flag)
      BY <1>2, <2>3, FragmentHeader
    <3> HIDE DEF p1, p2
    <3> QED
      BY <2>3, <3>1, Zenon DEF Tell
  <2> HIDE DEF p1, p2
  <2>6. c \in Seq(Byte)
    <3>1. 1 + pos \in Nat /\ step + (1 + pos) + n <= H264_FILE_BUFFER + 4
      BY <1>3, <2>2
    <3> QED
      BY <1>3, <2>2, <3>1, CopiedType
  <2>7. Payload[1] = p1 /\ Payload[2] = p2 /\ SubSeq(Payload, 3, Len(Payload)) = c
    <3> HIDE DEF c
    <3> QED
      BY <2>4, <2>5, <2>6, TwoBefore
  <2>8. Copied(0, 1 + pos) \o c = Copied(0, 1 + pos + n)
    <3>1. 1 + pos \in Nat /\ step + (1 + pos) + n <= H264_FILE_BUFFER + 4
      BY <1>3, <2>2
    <3> QED
      BY <1>3, <2>2, <3>1, CopiedJoin
  <2>9. sent = 0 => <<h>> = Copied(0, 1 + pos)
    <3> SUFFICES ASSUME sent = 0 PROVE <<h>> = Copied(0, 1 + pos)
      OBVIOUS
    <3>1. pos = 0
      BY <2>1 DEF pos
    <3>2. Copied(0, 1) = [k \in 1..1 |-> rec[step + 0 + k - 1]]
      BY DEF Copied
    <3>3. step + 0 + 1 - 1 = step
      BY <1>3
    <3>4. [k \in 1..1 |-> rec[step + 0 + k - 1]] = <<rec[step + 0 + 1 - 1]>>
      OBVIOUS
    <3> QED
      BY <3>1, <3>2, <3>3, <3>4 DEF h, NalHeader
  <2>10. Fragments(Payload, seq) =
           IF sent = 0 THEN <<h>> \o c
           ELSE IF gathered # <<>> /\ seq = expected THEN gathered \o c ELSE <<>>
    <3> HIDE DEF c
    <3> QED
      BY <2>5, <2>7 DEF Fragments
  <2>11. \/ G = Copied(0, 1 + pos + n)
         \/ Broken /\ G = <<>>
    <3>1. CASE sent = 0
      BY <2>8, <2>9, <2>10, <3>1
    <3>2. CASE sent # 0 /\ ~Broken
      <4>1. gathered = Copied(0, 1 + pos) /\ gathered # <<>> /\ seq = expected
        BY <1>3, <3>2 DEF Gathered, Broken, pos
      <4> QED
        BY <2>8, <2>10, <3>2, <4>1
    <3>3. CASE sent # 0 /\ Broken
      BY <2>10, <3>3 DEF Broken
    <3> QED
      BY <3>1, <3>2, <3>3
  <2>12. Copied(0, 1 + pos + n) # <<>>
    <3> DEFINE i == 1 + pos + n
    <3>1. i \in Nat /\ i # 0 /\ step + 0 + i <= H264_FILE_BUFFER + 4
      BY <1>3, <2>2
    <3> HIDE DEF i
    <3>2. Len(Copied(0, i)) = i
      BY <1>3, <3>1, CopiedType
    <3>3. Copied(0, i) # <<>>
      BY <3>1, <3>2
    <3> QED
      BY <3>3 DEF i
  <2>13. IF G # <<>> /\ sent + 1 = P
         THEN Deliver(G, timestamp) /\ gathered' = <<>>
         ELSE gathered' = G /\ UNCHANGED units
    <3> HIDE DEF c, G
    <3> QED
      BY <2>5, <2>7 DEF Receive, G
  <2> HIDE DEF G
  <2>14. CASE sent + 1 = P
    <3>1. Copied(0, 1 + pos + n) = w
      <4>1. 1 + pos + n = 1 + filesize
        BY <2>2, <2>14
      <4> QED
        BY <1>5, <4>1, WholeCopied
    <3> QED
      BY <1>1, <2>11, <2>12, <2>13, <2>14, <3>1 DEF Deliver, P
  <2>15. CASE sent + 1 # P
    <3>1. 1 + pos + n = 1 + (sent + 1) * m
      BY <1>3, <2>1, <2>2, <2>15
    <3> QED
      BY <1>1, <2>11, <2>12, <2>13, <2>15, <3>1 DEF P
  <2> QED
    BY <2>14, <2>15
<1> QED
  BY <1>4, <1>5

-----------------------------------------------------------------------------
(* Every variable has its type, and the buffer the NAL that is sent *)

\* The numbers of as many packets as were lost since the last that arrived.
Gap == \E g \in 0..lost : seq = (expected + g) % SeqModulus

BufferInv ==
  /\ TypeOK /\ Where /\ Gap
  /\ pc = "send" => InHand /\ Gathered

LEMMA NextInGap ==
  ASSUME NEW e \in SeqNumber, NEW g \in Nat
  PROVE  After((e + g) % SeqModulus) = (e + (g + 1)) % SeqModulus
<1>1. e \in Nat /\ SeqModulus \in Nat \ {0}
  BY RtpAssumption DEF SeqNumber
<1> DEFINE x == e + g
<1>2. x \in Nat /\ x + 1 = e + (g + 1)
  BY <1>1
<1> HIDE DEF x
<1>3. ((x % SeqModulus) + 1) % SeqModulus = (x + 1) % SeqModulus
  BY <1>1, <1>2, ModStep
<1> QED
  BY <1>2, <1>3 DEF After, x

LEMMA GapSeen ==
  ASSUME NEW e \in SeqNumber, NEW g \in 1..(SeqModulus - 1)
  PROVE  (e + g) % SeqModulus # e
<1> DEFINE m == SeqModulus
           x == e + g
<1>1. m \in Nat \ {0} /\ e \in 0..(m - 1) /\ g \in 1..(m - 1) /\ x = e + g
  BY RtpAssumption DEF SeqNumber
<1> HIDE DEF m, x
<1>2. CASE x < m
  <2>1. x \in Nat /\ x \in 0..(m - 1) /\ x = m * 0 + x
    BY <1>1, <1>2
  <2>2. x % m = x
    BY <1>1, <2>1, Remainder
  <2> QED
    BY <1>1, <2>2 DEF m, x
<1>3. CASE x >= m
  <2> DEFINE r == x - m
  <2>1. x \in Nat /\ r \in 0..(m - 1) /\ x = m * 1 + r /\ r < e
    BY <1>1, <1>3
  <2> HIDE DEF r
  <2>2. x % m = r
    BY <1>1, <2>1, Remainder
  <2> QED
    BY <1>1, <2>1, <2>2 DEF m, x
<1> QED
  BY <1>1, <1>2, <1>3

LEMMA SameGap ==
  ASSUME NEW e \in SeqNumber
  PROVE  (e + 0) % SeqModulus = e /\ After(e) \in SeqNumber
<1> DEFINE m == SeqModulus
<1>1. m \in Nat \ {0} /\ e \in 0..(m - 1) /\ e + 0 = e /\ e \in Nat
  BY RtpAssumption DEF SeqNumber
<1> HIDE DEF m
<1>2. e = m * 0 + e
  BY <1>1
<1>3. e % m = e
  BY <1>1, <1>2, Remainder
<1>4. (e + 1) % m \in 0..(m - 1)
  BY <1>1
<1> QED
  BY <1>1, <1>3, <1>4 DEF m, After, SeqNumber

\* fread leaves the next bytes of the file in the buffer.
LEMMA BufferFilled ==
  ASSUME TypeOK, Where, Available > 0
  PROVE  /\ InBuffer(video, offset, Available, Buffered)
         /\ Buffered \in [0..(H264_FILE_BUFFER + 3) -> Byte]
         /\ Available <= H264_FILE_BUFFER
         /\ Available = H264_FILE_BUFFER \/ offset + Available = Len(file)
<1> DEFINE a == Available
           f == file
<1>1. /\ f \in Seq(Byte) /\ Len(f) \in Nat /\ offset \in 0..Len(f) /\ f = File(video)
      /\ rec \in [0..(H264_FILE_BUFFER + 3) -> Byte]
      /\ H264_FILE_BUFFER \in Nat
  BY BufferAssumption DEF TypeOK, Where
<1> HIDE DEF f
<1>2. /\ a \in Nat /\ a <= H264_FILE_BUFFER /\ offset + a <= Len(f)
      /\ a = H264_FILE_BUFFER \/ offset + a = Len(f)
  BY <1>1 DEF Available, Smaller, f
<1>3. Buffered = [k \in 0..(H264_FILE_BUFFER + 3) |-> IF k < a THEN f[offset + k + 1] ELSE rec[k]]
  BY <1>1 DEF Buffered, f
<1> HIDE DEF a
<1>4. ASSUME NEW k \in 0..(H264_FILE_BUFFER + 3), k < a PROVE f[offset + k + 1] \in Byte
  <2> DEFINE i == offset + k + 1
  <2>1. i \in 1..Len(f)
    BY <1>1, <1>2, <1>4
  <2> HIDE DEF i
  <2>2. f[i] \in Byte
    BY <1>1, <2>1
  <2> QED
    BY <2>2 DEF i
<1>5. \A k \in 0..(H264_FILE_BUFFER + 3) : rec[k] \in Byte
  BY <1>1
<1>6. Buffered \in [0..(H264_FILE_BUFFER + 3) -> Byte]
  BY <1>3, <1>4, <1>5
<1>7. \A k \in 0..(a - 1) : Buffered[k] = f[offset + k + 1]
  <2> TAKE k \in 0..(a - 1)
  <2>1. k \in 0..(H264_FILE_BUFFER + 3) /\ k < a
    BY <1>1, <1>2
  <2> QED
    BY <1>3, <2>1
<1>8. InBuffer(video, offset, a, Buffered)
  BY <1>1, <1>2, <1>7 DEF InBuffer
<1> QED
  BY <1>1, <1>2, <1>6, <1>8 DEF a, f

LEMMA BufferInit == Init => BufferInv
<1> SUFFICES ASSUME Init PROVE BufferInv
  OBVIOUS
<1>1. video \in Videos /\ file = File(video)
  BY DEF Init, File, Parts, Coded
<1>2. /\ NalEnd(video, 0) = 0 /\ Len(video) \in Nat \ {0} /\ file \in Seq(Byte) /\ Len(file) \in Nat
  BY <1>1, FileEnds
<1>3. At(video, 0, 0)
  <2> DEFINE n == 0 + 1
  <2>1. n \in 1..Len(video) /\ n - 1 = 0
    BY <1>2
  <2> HIDE DEF n
  <2>2. 0 < CodeEnd(video, n)
    BY <1>1, <1>2, <2>1, EndsInOrder
  <2>3. 0 \in 0..Len(video) /\ 0 \in 0..Len(file) /\ ~(0 > 0)
    BY <1>2
  <2> QED
    BY <1>1, <1>2, <2>2, <2>3 DEF At, n
<1>4. SeqModulus \in Nat \ {0} /\ MaxLost \in Nat /\ H264_FILE_BUFFER \in Nat
  BY RtpAssumption, BufferAssumption
<1>5. 0 \in SeqNumber
  BY <1>4 DEF SeqNumber
<1>6. TypeOK
  <2>1. rec \in [0..(H264_FILE_BUFFER + 3) -> Byte]
    BY BufferAssumption DEF Init
  <2>2. /\ step \in {0, 3, 4} /\ filesize \in 0..H264_FILE_BUFFER /\ step + filesize <= H264_FILE_BUFFER
        /\ current \in 0..Len(video) /\ sent \in 0..filesize /\ lost \in 0..MaxLost
        /\ timestamp \in Stamp /\ offset \in 0..Len(file)
    BY <1>2, <1>4, RtpAssumption DEF Init, Stamp
  <2>3. gathered \in Seq(Byte) /\ units \in Seq([nal : Seq(Byte), stamp : Stamp, of : Nat])
    BY DEF Init
  <2>4. seq \in SeqNumber /\ expected \in SeqNumber
    BY <1>5 DEF Init
  <2> QED
    BY <1>1, <1>2, <2>1, <2>2, <2>3, <2>4 DEF Init, TypeOK
<1>7. Gap
  <2>1. 0 \in 0..lost /\ seq = expected /\ expected \in SeqNumber
    BY <1>5 DEF Init
  <2> QED
    BY <2>1, SameGap DEF Gap
<1> QED
  BY <1>1, <1>3, <1>6, <1>7 DEF Init, Where, BufferInv

\* A NAL is extracted: it is the next one, and starts where the last one ended.
LEMMA NalRead ==
  ASSUME BufferInv, ReadNal
  PROVE  /\ At(video, current + 1, offset') /\ current' = current + 1 /\ current' \in 1..Len(video)
         /\ InHand' /\ sent' = 0
         /\ offset' \in 0..Len(file) /\ rec' \in [0..(H264_FILE_BUFFER + 3) -> Byte]
         /\ offset \in NalEnd(video, current)..(NalEnd(video, current) + 1)
<1> DEFINE s == StartCode(Buffered)
           k == First(Found(Buffered, Available))
           a == Available
           b == Buffered
           n == current + 1
<1>1. TypeOK /\ Where /\ Available > 0 /\ Extracts(Buffered, Available)
  BY DEF BufferInv, ReadNal
<1>2. /\ rec' = b /\ step' = s /\ filesize' = k - s /\ offset' = offset + s + (k - s)
      /\ current' = n /\ sent' = 0 /\ video' = video /\ file' = file
  BY DEF ReadNal, inputVars
<1>3. /\ InBuffer(video, offset, a, b) /\ b \in [0..(H264_FILE_BUFFER + 3) -> Byte]
      /\ a <= H264_FILE_BUFFER /\ (a = H264_FILE_BUFFER \/ offset + a = Len(File(video)))
      /\ video \in Videos /\ At(video, current, offset) /\ file = File(video)
  BY <1>1, BufferFilled DEF Where
<1>4. /\ s \in {3, 4} /\ k \in (s + 1)..a /\ b[k] = 0
      /\ n \in 1..Len(video) /\ CodeEnd(video, n) = offset + s
      /\ offset \in NalEnd(video, current)..(NalEnd(video, current) + 1)
      /\ At(video, n, offset + k)
      /\ k - s <= RTP_MAX_PKT_SIZE <=> Len(NalOf(video, n)) <= RTP_MAX_PKT_SIZE
  <2> HIDE DEF a, b
  <2>1. a > 0 /\ Extracts(b, a)
    BY <1>1 DEF a, b
  <2>2. /\ StartCode(b) \in {3, 4} /\ First(Found(b, a)) \in (StartCode(b) + 1)..a
        /\ b[First(Found(b, a))] = 0
        /\ current + 1 \in 1..Len(video) /\ CodeEnd(video, current + 1) = offset + StartCode(b)
        /\ offset \in NalEnd(video, current)..(NalEnd(video, current) + 1)
        /\ At(video, current + 1, offset + First(Found(b, a)))
        /\ First(Found(b, a)) - StartCode(b) <= RTP_MAX_PKT_SIZE
             <=> Len(NalOf(video, current + 1)) <= RTP_MAX_PKT_SIZE
    BY <1>3, <2>1, NextNal
  <2> QED
    BY <2>2 DEF a, b
<1>5. /\ a \in Nat /\ offset \in Nat /\ \A i \in 0..(a - 1) : b[i] = file[offset + i + 1]
  BY <1>3 DEF InBuffer
<1> HIDE DEF s, k, a, b, n
<1>6. offset' = offset + k /\ s + (k - s) = k /\ k - s \in Nat \ {0} /\ k <= H264_FILE_BUFFER
  BY <1>2, <1>3, <1>4, <1>5, BufferAssumption
<1>7. InHand'
  <2> DEFINE g == CodeEnd(video, n)
             l == k - s
  <2>1. offset' = g + l /\ g = offset + s
    BY <1>4, <1>5, <1>6
  <2>2. \A j \in 0..(l - 1) : b[s + j] = file[g + j + 1]
    <3> TAKE j \in 0..(l - 1)
    <3> DEFINE i == s + j
    <3>1. i \in 0..(a - 1) /\ offset + i + 1 = g + j + 1
      BY <1>4, <1>5, <2>1
    <3> HIDE DEF i
    <3>2. b[i] = file[offset + i + 1]
      BY <1>5, <3>1
    <3> QED
      BY <3>1, <3>2 DEF i
  <2>3. b[s + l] = 0
    BY <1>4, <1>6
  <2>4. s + l <= H264_FILE_BUFFER /\ l \in Nat \ {0}
    BY <1>6
  <2>5. sent' \in 0..(PacketsOfNal' - 1)
    <3>1. filesize' \in Nat \ {0}
      BY <1>2, <2>4
    <3> DEFINE z == filesize'
               P == PacketsOfNal'
    <3>2. P = IF z <= RTP_MAX_PKT_SIZE THEN 1
              ELSE (z \div RTP_MAX_PKT_SIZE) + (IF z % RTP_MAX_PKT_SIZE > 0 THEN 1 ELSE 0)
      BY DEF PacketsOfNal, Single, split_size, remain_size
    <3> HIDE DEF z, P
    <3>3. P \in 1..z /\ z \in Nat
      BY <3>1, <3>2, PacketsNumber DEF z
    <3>4. sent' = 0 /\ 0 \in 0..(P - 1)
      BY <1>2, <3>3
    <3> QED
      BY <3>4 DEF P
  <2>6. Single' <=> Len(NalOf(video', current')) <= RTP_MAX_PKT_SIZE
    BY <1>2, <1>4 DEF Single
  <2> HIDE DEF g, l
  <2> QED
    BY <1>2, <1>4, <2>1, <2>2, <2>3, <2>4, <2>5, <2>6 DEF InHand, g, l
<1>8. offset' \in 0..Len(file)
  BY <1>3, <1>4, <1>6 DEF At
<1> QED
  BY <1>2, <1>3, <1>4, <1>6, <1>7, <1>8 DEF n

\* The unit that the last packet of a NAL completes, and what becomes of a packet.
NewUnit == [nal |-> Whole(video, current, offset), stamp |-> timestamp, of |-> current]

Arrived ==
  /\ lost' = lost /\ expected' = After(seq)
  /\ sent + 1 = PacketsOfNal =>
       /\ gathered' = <<>>
       /\ units' = Append(units, NewUnit) \/ (Broken /\ units' = units)
  /\ sent + 1 # PacketsOfNal =>
       /\ units' = units
       /\ \/ gathered' = Copied(0, 1 + (sent + 1) * RTP_MAX_PKT_SIZE) /\ gathered' # <<>>
          \/ Broken /\ gathered' = <<>>

Dropped == lost < MaxLost /\ lost' = lost + 1 /\ UNCHANGED <<expected, gathered, units>>

LEMMA Outcome ==
  ASSUME BufferInv, sendManagerTcp \/ sendManager
  PROVE  /\ pc = "send" /\ seq' = After(seq) /\ sent' = sent + 1
         /\ UNCHANGED <<inputVars, readVars>>
         /\ sent + 1 = PacketsOfNal => pc' = "read" /\ timestamp' = NextTimestamp
         /\ sent + 1 # PacketsOfNal => pc' = "send" /\ timestamp' = timestamp
         /\ Arrived \/ Dropped
<1>1. pc = "send" /\ PacketSent /\ (sendOverTcp \/ Dropped)
  BY DEF sendManagerTcp, sendManager, sendOverUdp, Dropped
<1>2. /\ Where /\ InHand /\ Gathered /\ gathered \in Seq(Byte)
      /\ rec \in [0..(H264_FILE_BUFFER + 3) -> Byte]
  BY <1>1 DEF BufferInv, TypeOK
<1>3. sendOverTcp => Arrived
  <2> SUFFICES ASSUME sendOverTcp PROVE Arrived
    OBVIOUS
  <2>1. Receive(Payload, seq, timestamp) /\ lost' = lost
    BY DEF sendOverTcp
  <2>2. /\ expected' = After(seq)
        /\ sent + 1 = PacketsOfNal =>
             /\ gathered' = <<>>
             /\ units' = Append(units, NewUnit) \/ (Broken /\ units' = units)
    BY <1>2, <2>1, Received DEF NewUnit
  <2>3. sent + 1 # PacketsOfNal =>
          /\ units' = units
          /\ \/ gathered' = Copied(0, 1 + (sent + 1) * RTP_MAX_PKT_SIZE) /\ gathered' # <<>>
             \/ Broken /\ gathered' = <<>>
    BY <1>2, <2>1, Received
  <2> QED
    BY <2>1, <2>2, <2>3 DEF Arrived
<1>4. /\ seq' = After(seq) /\ sent' = sent + 1 /\ UNCHANGED <<inputVars, readVars>>
      /\ IF sent' = PacketsOfNal THEN pc' = "read" /\ timestamp' = NextTimestamp
         ELSE pc' = pc /\ timestamp' = timestamp
  BY <1>1 DEF PacketSent
<1> QED
  BY <1>1, <1>3, <1>4

LEMMA NewUnitType ==
  ASSUME BufferInv, pc = "send"
  PROVE  NewUnit \in [nal : Seq(Byte), stamp : Stamp, of : Nat]
<1>1. current \in 1..Len(video) /\ video \in Videos /\ At(video, current, offset) /\ timestamp \in Stamp
  BY DEF BufferInv, TypeOK, Where, InHand
<1>2. Whole(video, current, offset) \in Seq(Byte)
  BY <1>1, WholeNal
<1> QED
  BY <1>1, <1>2 DEF NewUnit

LEMMA NextStampType == ASSUME timestamp \in Stamp PROVE NextTimestamp \in Stamp
<1> DEFINE t == (timestamp + PerFrame) % StampModulus
<1>1. StampModulus \in Nat \ {0} /\ timestamp \in Nat /\ PerFrame \in Nat
  BY RtpAssumption DEF Stamp, PerFrame
<1>2. t \in Stamp
  BY <1>1 DEF Stamp
<1> HIDE DEF t
<1> QED
  BY <1>2 DEF NextTimestamp, t

\* A packet of a NAL is sent, and arrives or not.
LEMMA BufferSent ==
  ASSUME BufferInv, sendManagerTcp \/ sendManager
  PROVE  BufferInv'
<1>1. /\ pc = "send" /\ seq' = After(seq) /\ sent' = sent + 1
      /\ Arrived \/ Dropped
      /\ UNCHANGED <<inputVars, readVars>>
      /\ sent + 1 = PacketsOfNal => pc' = "read" /\ timestamp' = NextTimestamp
      /\ sent + 1 # PacketsOfNal => pc' = "send" /\ timestamp' = timestamp
  BY Outcome
<1>2. /\ TypeOK /\ Where /\ InHand /\ Gathered
      /\ rec \in [0..(H264_FILE_BUFFER + 3) -> Byte] /\ gathered \in Seq(Byte)
  BY <1>1 DEF BufferInv, TypeOK
<1>3. sent \in 0..(PacketsOfNal - 1) /\ PacketsOfNal \in 1..filesize
  <2>1. filesize \in Nat \ {0} /\ sent \in 0..(PacketsOfNal - 1)
    BY <1>2 DEF InHand
  <2> QED
    BY <2>1, PacketsNumber DEF PacketsOfNal, Single, split_size, remain_size
<1>4. Where' /\ (pc' = "send" => InHand')
  <2>1. Where'
    BY <1>1, <1>2 DEF Where, inputVars, readVars
  <2>2. pc' = "send" => sent' \in 0..(PacketsOfNal - 1)
    BY <1>1, <1>3
  <2> QED
    BY <1>1, <1>2, <2>1, <2>2 DEF InHand, inputVars, readVars, PacketsOfNal, Single, split_size, remain_size
<1>5. /\ seq \in SeqNumber /\ expected \in SeqNumber /\ lost \in 0..MaxLost
      /\ SeqModulus \in Nat \ {0} /\ MaxLost \in Nat /\ MaxLost < SeqModulus
  BY <1>2, RtpAssumption, LossAssumption DEF TypeOK
<1>6. seq' \in SeqNumber
  BY <1>1, <1>5, SameGap
<1>7. /\ \E g \in 0..lost' : seq' = (expected' + g) % SeqModulus
      /\ Dropped => seq' # expected'
      /\ expected' \in SeqNumber /\ lost' \in 0..MaxLost
  <2>1. CASE Arrived
    <3>1. lost' = lost /\ expected' = seq' /\ 0 \in 0..lost'
      BY <1>1, <1>5, <2>1 DEF Arrived
    <3>2. seq' = (expected' + 0) % SeqModulus
      BY <1>6, <3>1, SameGap
    <3>3. ~Dropped
      BY <1>5, <3>1 DEF Dropped
    <3> QED
      BY <1>5, <1>6, <3>1, <3>2, <3>3
  <2>2. CASE Dropped
    <3>1. PICK g \in 0..lost : seq = (expected + g) % SeqModulus
      BY DEF BufferInv, Gap
    <3>2. lost < MaxLost /\ lost' = lost + 1 /\ expected' = expected
      BY <2>2 DEF Dropped
    <3> DEFINE h == g + 1
    <3>3. h \in 0..lost' /\ h \in 1..(SeqModulus - 1) /\ g \in Nat /\ lost' \in 0..MaxLost
      BY <1>5, <3>2
    <3>4. seq' = (expected' + h) % SeqModulus
      BY <1>1, <1>5, <3>1, <3>2, <3>3, NextInGap
    <3> HIDE DEF h
    <3>5. seq' # expected'
      BY <1>5, <3>2, <3>3, <3>4, GapSeen
    <3> QED
      BY <1>5, <3>2, <3>3, <3>4, <3>5
  <2> QED
    BY <1>1, <2>1, <2>2
<1>8. pc' = "send" => Gathered'
  <2> SUFFICES ASSUME pc' = "send", ~Broken' PROVE Gathered'
    BY DEF Gathered
  <2>1. sent + 1 # PacketsOfNal /\ sent' > 0
    BY <1>1, <1>3
  <2>2. seq' = expected' /\ gathered' # <<>>
    BY <2>1 DEF Broken
  <2>3. Arrived
    BY <1>1, <1>7, <2>2
  <2>4. gathered' = Copied(0, 1 + (sent + 1) * RTP_MAX_PKT_SIZE)
    BY <2>1, <2>2, <2>3 DEF Arrived
  <2>5. rec' = rec /\ step' = step /\ sent' = sent + 1
    BY <1>1 DEF readVars
  <2> QED
    BY <2>4, <2>5 DEF Gathered, Copied
<1>9. gathered' \in Seq(Byte)
  <2>1. CASE Dropped
    BY <1>2, <2>1 DEF Dropped
  <2>2. CASE Arrived /\ sent + 1 = PacketsOfNal
    <3>1. gathered' = <<>>
      BY <2>2 DEF Arrived
    <3> QED
      BY <3>1
  <2>3. CASE Arrived /\ sent + 1 # PacketsOfNal
    <3> DEFINE n == 1 + (sent + 1) * RTP_MAX_PKT_SIZE
    <3>1. gathered' = Copied(0, n) \/ gathered' = <<>>
      BY <2>3 DEF Arrived
    <3>2. n \in Nat /\ step \in Nat /\ step + 0 + n <= H264_FILE_BUFFER + 4
      <4>1. ~Single
        BY <1>3, <2>3 DEF PacketsOfNal
      <4> DEFINE i == sent + 1
                 m == RTP_MAX_PKT_SIZE
                 p == i * m
      <4>2. i \in 0..(PacketsOfNal - 1) /\ filesize \in Nat
        BY <1>2, <1>3, <2>3 DEF InHand
      <4> HIDE DEF i
      <4>3. p \in Nat /\ Piece(i) \in Nat /\ p + Piece(i) <= filesize
        BY <4>1, <4>2, Pieces
      <4> HIDE DEF p
      <4>4. step \in {3, 4} /\ step + filesize <= H264_FILE_BUFFER /\ H264_FILE_BUFFER \in Nat
        BY <1>2, BufferAssumption DEF InHand
      <4>5. n = 1 + p
        BY DEF p, i
      <4> HIDE DEF n
      <4> QED
        BY <4>2, <4>3, <4>4, <4>5
    <3> HIDE DEF n
    <3>3. Copied(0, n) \in Seq(Byte)
      BY <1>2, <3>2, CopiedType
    <3>4. <<>> \in Seq(Byte)
      OBVIOUS
    <3> DEFINE c == Copied(0, n)
    <3> HIDE DEF c
    <3> QED
      BY <3>1, <3>3, <3>4 DEF c
  <2> QED
    BY <1>1, <2>1, <2>2, <2>3
<1>10. units' \in Seq([nal : Seq(Byte), stamp : Stamp, of : Nat])
  <2> DEFINE R == [nal : Seq(Byte), stamp : Stamp, of : Nat]
             x == NewUnit
  <2>1. units \in Seq(R) /\ x \in R
    BY <1>1, <1>2, NewUnitType DEF TypeOK
  <2>2. units' = units \/ units' = Append(units, x)
    BY <1>1 DEF Arrived, Dropped
  <2> HIDE DEF R, x
  <2>3. units' \in Seq(R)
    BY <2>1, <2>2
  <2> QED
    BY <2>3 DEF R
<1>11. timestamp' \in Stamp /\ pc' \in {"read", "send"} /\ sent' \in 0..filesize
  <2>1. timestamp \in Stamp /\ timestamp' \in {timestamp, NextTimestamp}
    BY <1>1, <1>2 DEF TypeOK
  <2>2. NextTimestamp \in Stamp
    BY <2>1, NextStampType
  <2>3. timestamp' \in Stamp
    BY <2>1, <2>2
  <2>4. sent' \in 0..filesize
    <3> DEFINE P == PacketsOfNal
    <3>1. sent' = sent + 1 /\ sent \in 0..(P - 1) /\ P \in 1..filesize /\ filesize \in Nat
      BY <1>1, <1>2, <1>3 DEF InHand
    <3> HIDE DEF P
    <3> QED
      BY <3>1
  <2> QED
    BY <1>1, <2>3, <2>4
<1>12. TypeOK'
  BY <1>1, <1>2, <1>6, <1>7, <1>9, <1>10, <1>11 DEF TypeOK, inputVars, readVars
<1> QED
  BY <1>4, <1>7, <1>8, <1>12 DEF BufferInv, Gap

LEMMA BufferRead == ASSUME BufferInv, ReadNal PROVE BufferInv'
<1>1. /\ At(video, current + 1, offset') /\ current' = current + 1 /\ current' \in 1..Len(video)
      /\ InHand' /\ sent' = 0
      /\ offset' \in 0..Len(file) /\ rec' \in [0..(H264_FILE_BUFFER + 3) -> Byte]
  BY NalRead
<1>2. /\ pc' = "send" /\ UNCHANGED <<inputVars, seq, timestamp, expected, gathered, units, lost>>
  BY DEF ReadNal, receiverVars
<1>3. Where'
  BY <1>1, <1>2 DEF BufferInv, Where, inputVars
<1>4. Gathered'
  <2>1. ~(sent' > 0)
    BY <1>1
  <2> QED
    BY <2>1 DEF Gathered
<1>5. TypeOK'
  <2>1. step' \in {3, 4} /\ filesize' \in Nat \ {0} /\ step' + filesize' <= H264_FILE_BUFFER
    BY <1>1 DEF InHand
  <2>2. filesize' \in 0..H264_FILE_BUFFER /\ sent' \in 0..filesize' /\ step' \in {0, 3, 4}
    <3> DEFINE s == step'
               n == filesize'
    <3>1. sent' = 0 /\ H264_FILE_BUFFER \in Nat
      BY <1>1, BufferAssumption
    <3>2. s \in {3, 4} /\ n \in Nat /\ s + n <= H264_FILE_BUFFER
      BY <2>1
    <3> HIDE DEF s, n
    <3>3. n \in 0..H264_FILE_BUFFER /\ 0 \in 0..n /\ s \in {0, 3, 4}
      BY <3>1, <3>2
    <3> QED
      BY <3>1, <3>3 DEF s, n
  <2>3. current' \in 0..Len(video')
    BY <1>1, <1>2, FileEnds DEF BufferInv, Where, inputVars
  <2> QED
    BY <1>1, <1>2, <2>1, <2>2, <2>3 DEF BufferInv, TypeOK, inputVars
<1> QED
  BY <1>1, <1>2, <1>3, <1>4, <1>5 DEF BufferInv, Gap, inputVars

LEMMA BufferStays ==
  ASSUME BufferInv, ExtractFails \/ Close \/ SendFails \/ UNCHANGED vars
  PROVE  BufferInv'
<1>1. /\ UNCHANGED <<inputVars, offset, step, filesize, current, sent, seq, timestamp, receiverVars>>
      /\ pc' \in {"noNal", "closed", "sendFailed", pc}
      /\ pc' = "send" => pc = "send" /\ UNCHANGED vars
  BY DEF ExtractFails, Close, SendFails, vars, readVars
<1>2. rec' \in [0..(H264_FILE_BUFFER + 3) -> Byte]
  <2>1. CASE ExtractFails
    BY <2>1, BufferFilled DEF ExtractFails, BufferInv
  <2>2. CASE Close \/ SendFails \/ UNCHANGED vars
    BY <2>2 DEF Close, SendFails, vars, readVars, BufferInv, TypeOK
  <2> QED
    BY <2>1, <2>2
<1>3. TypeOK'
  BY <1>1, <1>2 DEF BufferInv, TypeOK, inputVars, receiverVars
<1>4. Where' /\ Gap'
  BY <1>1 DEF BufferInv, Where, Gap, inputVars, receiverVars
<1>5. pc' = "send" => InHand' /\ Gathered'
  <2> SUFFICES ASSUME pc' = "send" PROVE InHand' /\ Gathered'
    OBVIOUS
  <2>1. InHand /\ Gathered /\ UNCHANGED <<vars, readVars, inputVars, receiverVars>>
    BY <1>1 DEF BufferInv, vars
  <2>2. UNCHANGED <<video, file, offset, rec, step, filesize, current, sent, seq, expected, gathered>>
    BY <2>1 DEF vars, readVars, inputVars, receiverVars
  <2>3. InHand'
    BY <2>1, <2>2 DEF InHand, PacketsOfNal, Single, split_size, remain_size
  <2>4. Gathered'
    BY <2>1, <2>2 DEF Gathered, Broken, Copied
  <2> QED
    BY <2>3, <2>4
<1> QED
  BY <1>3, <1>4, <1>5 DEF BufferInv

LEMMA BufferStep == ASSUME BufferInv, [Next]_vars PROVE BufferInv'
  BY BufferRead, BufferStays, BufferSent DEF Next

\* Every variable of the sender and of the receiver has its type: what is read
\* and sent stays within the buffer, whatever the file, the sizes and the losses.
THEOREM VideoTypeCorrect == Spec => []TypeOK
<1>1. BufferInv => TypeOK
  BY DEF BufferInv
<1> QED
  BY <1>1, BufferInit, BufferStep, PTL DEF Spec

-----------------------------------------------------------------------------
(* What is received *)

Content(unit) == unit.nal
Number(unit) == unit.of
StampOf(unit) == unit.stamp

\* The NALs that are done with.
Done == IF pc \in {"send", "sendFailed"} THEN current - 1 ELSE current

\* How many NALs before the n-th took the time of a frame.
TimedBefore(n) == Cardinality((1..(n - 1)) \ Untimed)

InOrder ==
  \A i \in DOMAIN units :
    /\ Number(units[i]) \in 1..Done
    /\ i > 1 => Number(units[i - 1]) < Number(units[i])

ContentRight ==
  \A i \in DOMAIN units :
    /\ Number(units[i]) < current => Complete(video, Number(units[i]), Content(units[i]))
    /\ Number(units[i]) = current => Content(units[i]) = Whole(video, current, offset)

InTime ==
  /\ timestamp = (TimedBefore(Done + 1) * PerFrame) % StampModulus
  /\ \A i \in DOMAIN units :
       StampOf(units[i]) = (TimedBefore(Number(units[i])) * PerFrame) % StampModulus

\* A NAL that is missing has lost a packet, and so has one of which some are missing.
Counted ==
  /\ Done <= Len(units) + lost
  /\ pc = "send" /\ Broken => current <= Len(units) + lost

AllFit == \A i \in DOMAIN video : Fits(i)

Stopped ==
  /\ pc = "closed" => current = Len(video)
  /\ pc = "noNal" /\ AllFit => current = Len(video) - 1

VideoInv == BufferInv /\ InOrder /\ ContentRight /\ InTime /\ Counted /\ Stopped

LEMMA Appended ==
  ASSUME NEW R, NEW s \in Seq(R), NEW x \in R
  PROVE  /\ Len(Append(s, x)) = Len(s) + 1 /\ DOMAIN Append(s, x) = 1..(Len(s) + 1)
         /\ DOMAIN s = 1..Len(s) /\ Len(s) \in Nat
         /\ Append(s, x)[Len(s) + 1] = x
         /\ \A i \in 1..Len(s) : Append(s, x)[i] = s[i]
  OBVIOUS

LEMMA UnitsType ==
  ASSUME BufferInv
  PROVE  /\ DOMAIN units = 1..Len(units) /\ Len(units) \in Nat
         /\ \A i \in DOMAIN units : Number(units[i]) \in Nat /\ Content(units[i]) \in Seq(Byte)
         /\ current \in Nat /\ lost \in Nat /\ Len(video) \in Nat
         /\ current <= Len(video)
<1> DEFINE R == [nal : Seq(Byte), stamp : Stamp, of : Nat]
<1>1. /\ units \in Seq(R) /\ video \in Videos /\ current \in 0..Len(video)
      /\ lost \in 0..MaxLost
  BY DEF BufferInv, TypeOK, Where
<1>2. Len(video) \in Nat /\ MaxLost \in Nat
  BY <1>1, FileEnds, RtpAssumption
<1>3. \A u \in R : Number(u) \in Nat /\ Content(u) \in Seq(Byte)
  BY DEF Number, Content
<1> HIDE DEF R
<1>4. DOMAIN units = 1..Len(units) /\ Len(units) \in Nat /\ \A i \in DOMAIN units : units[i] \in R
  BY <1>1
<1>5. current \in Nat /\ lost \in Nat /\ current <= Len(video)
  BY <1>1, <1>2
<1> QED
  BY <1>1, <1>2, <1>3, <1>4, <1>5

LEMMA VideoInit == Init => VideoInv
<1> SUFFICES ASSUME Init PROVE VideoInv
  OBVIOUS
<1>1. BufferInv
  BY BufferInit
<1>2. units = <<>> /\ current = 0 /\ pc = "read" /\ lost = 0
  BY DEF Init
<1>3. DOMAIN units = {} /\ Len(units) = 0 /\ Done = 0
  BY <1>2 DEF Done
<1>4. InOrder /\ ContentRight
  BY <1>3 DEF InOrder, ContentRight
<1>5. InTime
  <2>1. (1..((Done + 1) - 1)) \ Untimed = {}
    BY <1>3
  <2>2. TimedBefore(Done + 1) = 0
    BY <2>1, FS_EmptySet DEF TimedBefore
  <2>3. (0 * PerFrame) % StampModulus = 0
    BY RtpAssumption DEF PerFrame
  <2> QED
    BY <1>3, <2>2, <2>3 DEF Init, InTime
<1>6. Counted /\ Stopped
  BY <1>2, <1>3 DEF Counted, Stopped
<1> QED
  BY <1>1, <1>4, <1>5, <1>6 DEF VideoInv

\* The NALs so far are complete once the reader has found the next.
LEMMA VideoRead == ASSUME VideoInv, ReadNal PROVE VideoInv'
<1>1. BufferInv /\ BufferInv'
  BY BufferRead DEF VideoInv
<1>2. /\ pc = "read" /\ pc' = "send" /\ current' = current + 1 /\ sent' = 0
      /\ UNCHANGED <<video, timestamp, units, lost>>
  BY DEF ReadNal, inputVars, receiverVars
<1>3. /\ DOMAIN units = 1..Len(units) /\ Len(units) \in Nat
      /\ \A i \in DOMAIN units : Number(units[i]) \in Nat
      /\ current \in Nat /\ lost \in Nat
  BY <1>1, UnitsType
<1>4. Done = current /\ Done' = current
  BY <1>2, <1>3 DEF Done
<1>5. InOrder'
  BY <1>2, <1>4 DEF VideoInv, InOrder
<1>6. InTime'
  BY <1>2, <1>4 DEF VideoInv, InTime, TimedBefore, Untimed, StampOf, Number
<1>7. ContentRight'
  <2> SUFFICES ASSUME NEW i \in DOMAIN units
               PROVE  /\ Number(units[i]) < current + 1
                      /\ Complete(video, Number(units[i]), Content(units[i]))
    BY <1>2, <1>3 DEF ContentRight, Complete
  <2>1. Number(units[i]) \in 1..current
    BY <1>4 DEF VideoInv, InOrder
  <2>2. CASE Number(units[i]) = current
    <3>1. /\ offset \in NalEnd(video, current)..(NalEnd(video, current) + 1)
          /\ At(video, current, offset) /\ video \in Videos
      BY <1>1, <1>2, NalRead DEF BufferInv, Where
    <3>2. current \in 1..Len(video)
      BY <1>1, <2>1, <2>2, UnitsType
    <3>3. Complete(video, current, Whole(video, current, offset))
      BY <3>1, <3>2, WholeNal
    <3> QED
      BY <1>3, <2>2, <3>3 DEF VideoInv, ContentRight
  <2>3. CASE Number(units[i]) # current
    <3> DEFINE n == Number(units[i])
    <3>1. n < current /\ n < current + 1
      <4>1. n \in 1..current /\ n # current
        BY <2>1, <2>3
      <4> HIDE DEF n
      <4> QED
        BY <1>3, <4>1
    <3> QED
      BY <3>1 DEF VideoInv, ContentRight
  <2> QED
    BY <2>2, <2>3
<1>8. Counted'
  <2>1. ~Broken'
    BY <1>2 DEF Broken
  <2> QED
    BY <1>2, <1>4, <2>1 DEF VideoInv, Counted
<1>9. Stopped'
  BY <1>2 DEF Stopped
<1> QED
  BY <1>1, <1>5, <1>6, <1>7, <1>8, <1>9 DEF VideoInv

\* The timestamp moves on with a NAL that takes time.
LEMMA NextStamp ==
  ASSUME VideoInv, pc = "send"
  PROVE  /\ timestamp = (TimedBefore(current) * PerFrame) % StampModulus
         /\ NextTimestamp = (TimedBefore(current + 1) * PerFrame) % StampModulus
<1>1. /\ Where /\ InHand /\ current \in 1..Len(video) /\ video \in Videos /\ current \in Nat
      /\ step \in Nat /\ filesize \in Nat \ {0}
  BY UnitsType DEF VideoInv, BufferInv, Where, InHand
<1>2. NalHeader = NalOf(video, current)[1]
  <2> DEFINE g == CodeEnd(video, current)
             nal == NalOf(video, current)
  <2>1. g \in Nat /\ Len(nal) \in Nat \ {0} /\ \A k \in 1..Len(nal) : File(video)[g + k] = nal[k]
    BY <1>1, Layout
  <2> HIDE DEF g
  <2>2. 1 \in 1..Len(nal) /\ 0 \in 0..(filesize - 1) /\ step + 0 = step /\ g + 0 + 1 = g + 1
    BY <1>1, <2>1
  <2>3. rec[step + 0] = file[g + 0 + 1] /\ file = File(video)
    BY <1>1, <2>2 DEF InHand, Where, g
  <2>4. File(video)[g + 1] = nal[1]
    BY <2>1, <2>2
  <2> QED
    BY <2>2, <2>3, <2>4 DEF NalHeader
<1>3. current \in Untimed <=> Single /\ Type(NalHeader) \in NoPicture
  <2>1. current \in DOMAIN video
    BY <1>1, NalType
  <2>2. Single <=> Len(NalOf(video, current)) <= RTP_MAX_PKT_SIZE
    BY <1>1 DEF InHand
  <2> QED
    BY <1>2, <2>1, <2>2 DEF Untimed, NalOf
<1> DEFINE k == current - 1
           b == TimedBefore(current)
           t == b * PerFrame
<1>4. k \in Nat /\ k + 1 = current /\ (current + 1) - 1 = current
  BY <1>1
<1> HIDE DEF k
<1>5. b \in Nat /\ TimedBefore(current + 1) = b + (IF current \in Untimed THEN 0 ELSE 1)
  <2>1. /\ Cardinality((1..k) \ Untimed) \in Nat
        /\ Cardinality((1..(k + 1)) \ Untimed)
             = Cardinality((1..k) \ Untimed) + (IF k + 1 \in Untimed THEN 0 ELSE 1)
    BY <1>4, Counting
  <2>2. TimedBefore(current) = Cardinality((1..k) \ Untimed)
    BY DEF TimedBefore, k
  <2>3. TimedBefore(current + 1) = Cardinality((1..(k + 1)) \ Untimed)
    <3>1. (1..((current + 1) - 1)) \ Untimed = (1..(k + 1)) \ Untimed
      BY <1>4
    <3> QED
      BY <3>1 DEF TimedBefore
  <2> QED
    BY <1>4, <2>1, <2>2, <2>3
<1>6. timestamp = t % StampModulus
  <2>1. Done + 1 = current
    BY <1>4 DEF Done, k
  <2> QED
    BY <2>1 DEF VideoInv, InTime
<1> HIDE DEF b
<1>7. PerFrame \in Nat /\ t \in Nat /\ (b + 1) * PerFrame = t + PerFrame /\ b + 0 = b
  BY <1>5 DEF PerFrame
<1> HIDE DEF t
<1>8. ((t % StampModulus) + PerFrame) % StampModulus = (t + PerFrame) % StampModulus
  BY <1>7, RtpAssumption, ModStep
<1>9. CASE current \in Untimed
  <2>1. NextTimestamp = timestamp /\ TimedBefore(current + 1) = b
    BY <1>3, <1>5, <1>7, <1>9 DEF NextTimestamp
  <2> QED
    BY <1>6, <2>1 DEF b, t
<1>10. CASE current \notin Untimed
  <2>1. NextTimestamp = (timestamp + PerFrame) % StampModulus /\ TimedBefore(current + 1) = b + 1
    BY <1>3, <1>5, <1>10 DEF NextTimestamp
  <2> QED
    BY <1>6, <1>7, <1>8, <2>1 DEF b, t
<1> QED
  BY <1>9, <1>10

\* What is known of the units while a NAL is sent.
LEMMA BeforeSent ==
  ASSUME VideoInv, pc = "send"
  PROVE  /\ Done = current - 1 /\ current \in 1..Len(video) /\ video \in Videos
         /\ At(video, current, offset)
         /\ \A i \in DOMAIN units :
              /\ Number(units[i]) \in Nat /\ Number(units[i]) > 0 /\ Number(units[i]) < current
              /\ Complete(video, Number(units[i]), Content(units[i]))
<1>1. Done = current - 1 /\ current \in 1..Len(video) /\ video \in Videos /\ At(video, current, offset)
  BY DEF Done, VideoInv, BufferInv, Where, InHand
<1>2. current \in Nat
  BY UnitsType DEF VideoInv
<1>3. ASSUME NEW i \in DOMAIN units
      PROVE  Number(units[i]) \in Nat /\ Number(units[i]) > 0 /\ Number(units[i]) < current
  <2> DEFINE n == Number(units[i])
  <2>1. n \in 1..(current - 1)
    BY <1>1, <1>3 DEF VideoInv, InOrder
  <2> HIDE DEF n
  <2>2. n \in Nat /\ n > 0 /\ n < current
    BY <1>2, <2>1
  <2> QED
    BY <2>2 DEF n
<1> QED
  BY <1>1, <1>3 DEF VideoInv, ContentRight

\* The last packet of a NAL completes it.
LEMMA UnitReceived ==
  ASSUME VideoInv, sendManagerTcp \/ sendManager, units' = Append(units, NewUnit),
         pc' = "read", timestamp' = NextTimestamp, lost' = lost, UNCHANGED <<inputVars, readVars>>
  PROVE  InOrder' /\ ContentRight' /\ InTime' /\ Counted'
<1> DEFINE n == Len(units)
           w == Whole(video, current, offset)
           x == NewUnit
           R == [nal : Seq(Byte), stamp : Stamp, of : Nat]
<1>1. pc = "send" /\ BufferInv
  BY DEF sendManagerTcp, sendManager, VideoInv
<1>2. /\ Done = current - 1 /\ current \in 1..Len(video) /\ video \in Videos
      /\ At(video, current, offset)
      /\ \A i \in DOMAIN units :
           /\ Number(units[i]) \in Nat /\ Number(units[i]) > 0 /\ Number(units[i]) < current
           /\ Complete(video, Number(units[i]), Content(units[i]))
  BY <1>1, BeforeSent
<1>3. /\ DOMAIN units = 1..n /\ n \in Nat
      /\ current \in Nat /\ lost \in Nat
  BY <1>1, UnitsType
<1>4. Number(x) = current /\ Content(x) = w /\ StampOf(x) = timestamp
  BY DEF NewUnit, Number, Content, StampOf
<1>5. /\ Len(units') = n + 1 /\ DOMAIN units' = 1..(n + 1)
      /\ units'[n + 1] = x /\ \A i \in 1..n : units'[i] = units[i]
  <2>1. units \in Seq(R) /\ x \in R
    BY <1>1, NewUnitType DEF BufferInv, TypeOK
  <2> HIDE DEF R, x
  <2> QED
    BY <2>1, Appended DEF x
<1>6. /\ current' = current /\ video' = video /\ offset' = offset /\ Done' = current
      /\ timestamp' = NextTimestamp
  BY <1>1 DEF Done, inputVars, readVars
<1>7. \A i \in 1..(n + 1) : i \in 1..n \/ i = n + 1
  BY <1>3
<1> HIDE DEF n, w, x
<1>8. InOrder'
  <2> SUFFICES ASSUME NEW i \in 1..(n + 1)
               PROVE  /\ Number(units'[i]) \in 1..current
                      /\ i > 1 => Number(units'[i - 1]) < Number(units'[i])
    BY <1>5, <1>6 DEF InOrder, Number
  <2>1. CASE i \in 1..n
    <3> DEFINE k == Number(units[i])
    <3>1. k \in Nat /\ k > 0 /\ k < current
      BY <1>2, <1>3, <2>1
    <3>2. k \in 1..current
      <4> HIDE DEF k
      <4> QED
        BY <1>3, <3>1
    <3>3. i > 1 => i - 1 \in 1..n
      BY <1>3, <2>1
    <3>4. i > 1 => Number(units[i - 1]) < Number(units[i])
      BY <1>3, <2>1 DEF VideoInv, InOrder
    <3> QED
      BY <1>5, <2>1, <3>2, <3>3, <3>4
  <2>2. CASE i = n + 1
    <3> DEFINE j == i - 1
    <3>1. i > 1 => j \in 1..n
      BY <1>3, <2>2
    <3> HIDE DEF j
    <3>2. i > 1 => Number(units'[j]) < current
      BY <1>2, <1>3, <1>5, <3>1
    <3>3. current \in 1..current
      BY <1>2, <1>3
    <3> QED
      BY <1>4, <1>5, <2>2, <3>2, <3>3 DEF j
  <2> QED
    BY <1>7, <2>1, <2>2
<1>9. ContentRight'
  <2> SUFFICES ASSUME NEW i \in 1..(n + 1)
               PROVE  /\ Number(units'[i]) < current => Complete(video, Number(units'[i]), Content(units'[i]))
                      /\ Number(units'[i]) = current => Content(units'[i]) = Whole(video, current, offset)
    BY <1>5, <1>6 DEF ContentRight, Number, Content, Complete, Whole
  <2>1. CASE i \in 1..n
    <3>1. Number(units[i]) # current
      BY <1>2, <1>3, <2>1
    <3> QED
      BY <1>2, <1>3, <1>5, <2>1, <3>1
  <2>2. CASE i = n + 1
    <3>1. ~(current < current)
      BY <1>3
    <3> QED
      BY <1>4, <1>5, <2>2, <3>1 DEF w
  <2> QED
    BY <1>7, <2>1, <2>2
<1>10. ASSUME NEW i \in 1..(n + 1)
       PROVE  StampOf(units'[i]) = (TimedBefore(Number(units'[i])) * PerFrame) % StampModulus
  <2>1. CASE i \in 1..n
    BY <1>3, <1>5, <2>1 DEF VideoInv, InTime
  <2>2. CASE i = n + 1
    BY <1>1, <1>4, <1>5, <2>2, NextStamp
  <2> QED
    BY <1>7, <2>1, <2>2
<1>11. InTime'
  <2>1. timestamp' = (TimedBefore(Done' + 1) * PerFrame) % StampModulus
    BY <1>1, <1>6, NextStamp
  <2> QED
    BY <1>5, <1>6, <1>10, <2>1 DEF InTime, StampOf, Number, TimedBefore, Untimed
<1>12. Counted'
  <2>1. current - 1 <= n + lost
    BY <1>2 DEF VideoInv, Counted, n
  <2>2. current <= n + 1 + lost
    BY <1>3, <2>1
  <2>3. pc' # "send" /\ lost' = lost
    OBVIOUS
  <2> QED
    BY <1>5, <1>6, <2>2, <2>3 DEF Counted
<1> QED
  BY <1>8, <1>9, <1>11, <1>12

\* A packet that completes no NAL: it is not the last of it, or one did not arrive.
LEMMA NoUnitReceived ==
  ASSUME VideoInv, sendManagerTcp \/ sendManager, units' = units
  PROVE  InOrder' /\ ContentRight' /\ InTime' /\ Counted'
<1>1. /\ pc = "send" /\ seq' = After(seq) /\ sent' = sent + 1
      /\ Arrived \/ Dropped
      /\ UNCHANGED <<inputVars, readVars>>
      /\ sent + 1 = PacketsOfNal => pc' = "read" /\ timestamp' = NextTimestamp
      /\ sent + 1 # PacketsOfNal => pc' = "send" /\ timestamp' = timestamp
      /\ BufferInv
  BY Outcome DEF VideoInv
<1>2. /\ Done = current - 1 /\ current \in 1..Len(video) /\ video \in Videos
      /\ \A i \in DOMAIN units :
           /\ Number(units[i]) \in Nat /\ Number(units[i]) > 0 /\ Number(units[i]) < current
  BY <1>1, BeforeSent
<1>3. /\ DOMAIN units = 1..Len(units) /\ Len(units) \in Nat
      /\ current \in Nat /\ lost \in Nat
  BY <1>1, UnitsType
<1>4. current' = current /\ video' = video /\ offset' = offset
  BY <1>1 DEF inputVars, readVars
<1>5. Done' = (IF sent + 1 = PacketsOfNal THEN current ELSE current - 1)
  BY <1>1, <1>4 DEF Done
<1>6. InOrder'
  <2> SUFFICES ASSUME NEW i \in DOMAIN units
               PROVE  /\ Number(units[i]) \in 1..Done'
                      /\ i > 1 => Number(units[i - 1]) < Number(units[i])
    BY DEF InOrder, Number
  <2> DEFINE k == Number(units[i])
  <2>1. k \in Nat /\ k > 0 /\ k < current /\ Done' \in {current, current - 1}
    BY <1>2, <1>5
  <2> HIDE DEF k
  <2>2. k \in 1..Done'
    BY <1>3, <2>1
  <2> QED
    BY <2>2 DEF k, VideoInv, InOrder
<1>7. ContentRight'
  BY <1>4 DEF VideoInv, ContentRight, Number, Content, Complete, Whole
<1>8. InTime'
  <2>1. timestamp' = (TimedBefore(Done' + 1) * PerFrame) % StampModulus
    <3>1. CASE sent + 1 = PacketsOfNal
      BY <1>1, <1>5, <3>1, NextStamp
    <3>2. CASE sent + 1 # PacketsOfNal
      <4>1. Done' = Done /\ timestamp' = timestamp
        BY <1>1, <1>2, <1>5, <3>2
      <4> QED
        BY <4>1 DEF VideoInv, InTime
    <3> QED
      BY <3>1, <3>2
  <2> QED
    BY <1>4, <2>1 DEF VideoInv, InTime, StampOf, Number, TimedBefore, Untimed
<1>9. Counted'
  <2> DEFINE n == Len(units)
  <2>1. /\ current - 1 <= n + lost /\ (Broken => current <= n + lost)
        /\ n \in Nat /\ Len(units') = n
    BY <1>1, <1>2, <1>3 DEF VideoInv, Counted
  <2>2. CASE Dropped
    <3>1. lost' = lost + 1
      BY <2>2 DEF Dropped
    <3> HIDE DEF n
    <3>2. current <= n + lost' /\ current - 1 <= n + lost'
      BY <1>3, <2>1, <3>1
    <3> QED
      BY <1>4, <1>5, <2>1, <3>2 DEF Counted
  <2>3. CASE Arrived /\ sent + 1 = PacketsOfNal
    <3>1. Broken \/ units' = Append(units, NewUnit)
      BY <2>3 DEF Arrived
    <3>2. units' # Append(units, NewUnit)
      <4> DEFINE R == [nal : Seq(Byte), stamp : Stamp, of : Nat]
                 x == NewUnit
      <4>1. units \in Seq(R) /\ x \in R
        BY <1>1, NewUnitType DEF BufferInv, TypeOK
      <4> HIDE DEF R, x
      <4>2. Len(Append(units, x)) = Len(units) + 1
        BY <4>1, Appended
      <4>3. Len(units) # Len(units) + 1
        <5>1. n \in Nat
          BY <2>1
        <5> HIDE DEF n
        <5>2. n # n + 1
          BY <5>1
        <5> QED
          BY <5>2 DEF n
      <4> QED
        BY <4>2, <4>3 DEF x
    <3>3. current <= n + lost /\ lost' = lost
      BY <2>1, <2>3, <3>1, <3>2 DEF Arrived
    <3> QED
      BY <1>1, <1>4, <1>5, <2>1, <2>3, <3>3 DEF Counted
  <2>4. CASE Arrived /\ sent + 1 # PacketsOfNal
    <3>1. lost' = lost /\ expected' = seq'
      BY <1>1, <2>4 DEF Arrived
    <3>2. Broken' => Broken
      BY <2>4, <3>1 DEF Arrived, Broken
    <3> QED
      BY <1>1, <1>4, <1>5, <2>1, <2>4, <3>1, <3>2 DEF Counted
  <2> QED
    BY <1>1, <2>2, <2>3, <2>4
<1> QED
  BY <1>6, <1>7, <1>8, <1>9

LEMMA VideoSent == ASSUME VideoInv, sendManagerTcp \/ sendManager PROVE VideoInv'
<1>1. /\ sent + 1 = PacketsOfNal => pc' = "read" /\ timestamp' = NextTimestamp
      /\ sent + 1 # PacketsOfNal => pc' = "send" /\ timestamp' = timestamp
      /\ Arrived \/ Dropped
      /\ UNCHANGED <<inputVars, readVars>>
  BY Outcome DEF VideoInv
<1>2. \/ units' = units
      \/ units' = Append(units, NewUnit) /\ sent + 1 = PacketsOfNal /\ lost' = lost
  BY <1>1 DEF Arrived, Dropped
<1>3. InOrder' /\ ContentRight' /\ InTime' /\ Counted'
  BY <1>1, <1>2, UnitReceived, NoUnitReceived
<1>4. Stopped'
  BY <1>1 DEF Stopped
<1> QED
  BY <1>3, <1>4, BufferSent DEF VideoInv

\* The start code behind a NAL ends within what was read.
LEMMA CodeWithin ==
  ASSUME NEW o \in Nat, NEW k \in {3, 4}, NEW l \in Nat \ {0}, NEW d \in {3, 4}, NEW a \in Nat,
         NEW size \in Nat, k + l + d <= size, NEW f \in Nat, o + k + l + d <= f,
         a = size \/ o + a = f
  PROVE  /\ o + k + l + d <= o + a /\ o + k <= o + a
         /\ (o + k + l + d) - 3 - o \in k..(k + a - 4) /\ (o + k + l + d) - 3 - o <= a - 3
<1>1. o + k + l + d <= o + a
  OBVIOUS
<1>2. (o + k + l + d) - 3 - o = k + l + d - 3
  OBVIOUS
<1> QED
  BY <1>1, <1>2

LEMMA LowerCode ==
  ASSUME NEW s \in {3, 4}, NEW k \in {3, 4}, s <= k, NEW a \in Nat, NEW q \in k..(k + a - 4), q <= a - 3
  PROVE  q \in s..(s + a - 4)
  OBVIOUS

\* If the NALs and the start codes after them fit in the buffer, the next is
\* extracted, unless it is the last.
LEMMA Extracted ==
  ASSUME NEW v \in Videos, NEW c \in Nat, c + 1 < Len(v), \A i \in 1..Len(v) : FitsIn(v, i),
         NEW o \in Nat, At(v, c, o), NEW a, NEW b, InBuffer(v, o, a, b),
         a = H264_FILE_BUFFER \/ o + a = Len(File(v))
  PROVE  Extracts(b, a)
<1> DEFINE n == c + 1
           m == c + 2
           k == CodeOf(v, n)
           l == Len(NalOf(v, n))
           d == CodeOf(v, m)
           g == CodeEnd(v, n)
           h == CodeEnd(v, m)
<1>1. /\ n \in 1..Len(v) /\ m \in 1..Len(v) /\ n - 1 = c /\ m - 1 = n /\ n + 1 = m /\ n < Len(v)
      /\ FitsIn(v, n)
  BY FileEnds
<1>0. NalEnd(v, c) = o
  <2>1. c > 0 => c \in 1..Len(v)
    BY FileEnds
  <2> QED
    BY <2>1 DEF At
<1> HIDE DEF n, m
<1>2. /\ o \in Nat /\ k \in {3, 4} /\ g = o + k /\ l \in Nat \ {0} /\ NalEnd(v, n) = g + l
  BY <1>0, <1>1, Layout
<1>3. d \in {3, 4} /\ h = NalEnd(v, n) + d /\ NalEnd(v, n) \in Nat
  BY <1>1, Layout
<1>4. h < NalEnd(v, m) /\ NalEnd(v, m) <= Len(File(v)) /\ NalEnd(v, m) \in Nat /\ Len(File(v)) \in Nat
  BY <1>1, Layout, EndsInOrder
<1>5. k + l + d <= H264_FILE_BUFFER /\ a \in Nat /\ H264_FILE_BUFFER \in Nat
  BY <1>1, BufferAssumption DEF FitsIn, InBuffer
<1> DEFINE e == NalEnd(v, n)
           f == Len(File(v))
           x == NalEnd(v, m)
           q == h - 3 - o
<1>6. h <= o + a /\ g <= o + a /\ h - 3 - o \in k..(k + a - 4) /\ h - 3 - o <= a - 3
  <2>1. h = o + k + l + d
    BY <1>2, <1>3
  <2>2. h <= f /\ f \in Nat
    <3>1. h \in Nat
      <4>1. NalEnd(v, n) \in Nat /\ d \in Nat /\ h = NalEnd(v, n) + d
        BY <1>3
      <4> HIDE DEF h, d
      <4> QED
        BY <4>1
    <3>2. h < x /\ x <= f /\ x \in Nat /\ f \in Nat
      BY <1>4
    <3> HIDE DEF h, x, f
    <3> QED
      BY <3>1, <3>2
  <2>3. o \in Nat /\ k \in {3, 4} /\ l \in Nat \ {0} /\ d \in {3, 4}
    BY <1>2, <1>3
  <2>4. a = H264_FILE_BUFFER \/ o + a = f
    OBVIOUS
  <2> HIDE DEF h, x, f, k, l, d
  <2>5. o + k + l + d <= f
    BY <2>1, <2>2
  <2>6. /\ o + k + l + d <= o + a /\ o + k <= o + a
        /\ (o + k + l + d) - 3 - o \in k..(k + a - 4) /\ (o + k + l + d) - 3 - o <= a - 3
    BY <1>5, <2>2, <2>3, <2>4, <2>5, CodeWithin
  <2>7. g = o + k
    BY <1>2 DEF k
  <2> DEFINE z == o + k + l + d
  <2>8. h = z
    BY <2>1
  <2>9. z <= o + a /\ o + k <= o + a /\ z - 3 - o \in k..(k + a - 4) /\ z - 3 - o <= a - 3
    BY <2>6
  <2> HIDE DEF z, g
  <2> QED
    BY <2>7, <2>8, <2>9
<1>7. startCode3(b, g - 3 - o) /\ (k = 4 => startCode4(b, o - o))
  <2>1. n \in 1..Len(v) /\ o <= NalEnd(v, n - 1) /\ CodeEnd(v, n) <= o + a /\ NalEnd(v, n - 1) = o
    BY <1>0, <1>1, <1>2, <1>6
  <2>2. /\ startCode3(b, CodeEnd(v, n) - 3 - o)
        /\ CodeOf(v, n) = 4 => startCode4(b, NalEnd(v, n - 1) - o)
    BY <2>1, CodeFound
  <2> QED
    BY <2>1, <2>2
<1>8. startCode3(b, q)
  <2>1. m \in 1..Len(v) /\ o <= NalEnd(v, m - 1) /\ CodeEnd(v, m) <= o + a
    BY <1>1, <1>2, <1>6
  <2> QED
    BY <2>1, CodeFound
<1> HIDE DEF q
<1>9. StartCode(b) \in {3, 4} /\ StartCode(b) <= k
  <2>1. CASE k = 3
    <3>1. g - 3 - o = 0
      BY <1>2, <2>1
    <3>2. StartCode(b) = 3
      BY <1>7, <3>1 DEF StartCode
    <3> QED
      BY <2>1, <3>2
  <2>2. CASE k = 4
    <3>1. o - o = 0
      BY <1>2
    <3>2. startCode4(b, 0)
      BY <1>7, <2>2, <3>1
    <3>3. StartCode(b) \in {3, 4}
      BY <3>2 DEF StartCode
    <3> QED
      BY <2>2, <3>3
  <2> QED
    BY <1>2, <2>1, <2>2
<1>10. q \in StartCode(b)..(StartCode(b) + a - 4)
  <2> DEFINE s == StartCode(b)
  <2>1. s \in {3, 4} /\ s <= k
    BY <1>9
  <2>2. q \in k..(k + a - 4) /\ q <= a - 3 /\ k \in {3, 4} /\ a \in Nat
    BY <1>2, <1>5, <1>6 DEF q
  <2> HIDE DEF s, k
  <2>3. q \in s..(s + a - 4)
    BY <2>1, <2>2, LowerCode
  <2> QED
    BY <2>3 DEF s
<1>11. q \in Found(b, a)
  BY <1>8, <1>10 DEF Found
<1>12. StartCode(b) > 0
  BY <1>9
<1> QED
  BY <1>11, <1>12 DEF Extracts

\* Where the reader stops.
LEMMA VideoStops ==
  ASSUME VideoInv, ExtractFails \/ Close
  PROVE  Stopped'
<1>1. /\ TypeOK /\ Where /\ video \in Videos /\ At(video, current, offset) /\ file = File(video)
      /\ pc = "read" /\ pc' \in {"noNal", "closed"} /\ video' = video /\ current' = current
  BY DEF VideoInv, BufferInv, Where, ExtractFails, Close, inputVars, readVars
<1>2. /\ current \in Nat /\ current <= Len(video) /\ Len(video) \in Nat
  BY UnitsType DEF VideoInv
<1>3. ASSUME Close PROVE current = Len(video)
  <2> DEFINE n == current + 1
  <2>1. offset = Len(file)
    <3>1. Available = 0
      BY <1>3 DEF Close
    <3> DEFINE f == Len(file)
    <3>2. f \in Nat /\ offset \in 0..f /\ H264_FILE_BUFFER \in Nat /\ H264_FILE_BUFFER > 0
      BY <1>1, BufferAssumption DEF TypeOK
    <3>3. (IF H264_FILE_BUFFER < f - offset THEN H264_FILE_BUFFER ELSE f - offset) = 0
      BY <3>1 DEF Available, Smaller
    <3> HIDE DEF f
    <3>4. offset = f
      BY <3>2, <3>3
    <3> QED
      BY <3>4 DEF f
  <2>2. ASSUME current < Len(video) PROVE FALSE
    <3>1. n \in 1..Len(video)
      BY <1>2, <2>2
    <3>2. offset < CodeEnd(video, n)
      BY <1>1, <2>2 DEF At
    <3> HIDE DEF n
    <3>3. /\ CodeEnd(video, n) < NalEnd(video, n) /\ NalEnd(video, n) <= Len(file)
          /\ CodeEnd(video, n) \in Nat /\ NalEnd(video, n) \in Nat /\ Len(file) \in Nat
      BY <1>1, <3>1, EndsInOrder, FileEnds
    <3> QED
      BY <2>1, <3>2, <3>3
  <2> QED
    BY <1>2, <2>2
<1>4. ASSUME ExtractFails, AllFit PROVE current = Len(video) - 1
  <2>1. /\ Available > 0 /\ ~Extracts(Buffered, Available)
    BY <1>4 DEF ExtractFails
  <2>2. /\ InBuffer(video, offset, Available, Buffered)
        /\ (Available = H264_FILE_BUFFER \/ offset + Available = Len(file))
    BY <1>1, <2>1, BufferFilled
  <2>3. \A n \in 1..Len(video) : FitsIn(video, n)
    <3>1. DOMAIN video = 1..Len(video)
      BY <1>1, VideosAssumption
    <3> QED
      BY <1>4, <3>1 DEF AllFit, Fits, FitsIn, CodeOf, NalOf
  <2>4. offset = NalEnd(video, current)
    <3>1. current > 0 => current \in 1..Len(video)
      BY <1>2
    <3> QED
      BY <1>1, <2>3, <3>1 DEF At
  <2>5. ASSUME current + 1 < Len(video) PROVE FALSE
    <3> DEFINE a == Available
               b == Buffered
    <3>1. offset \in Nat
      BY <2>2 DEF InBuffer
    <3>2. InBuffer(video, offset, a, b) /\ (a = H264_FILE_BUFFER \/ offset + a = Len(File(video)))
      BY <1>1, <2>2
    <3>3. ~Extracts(b, a)
      BY <2>1
    <3> HIDE DEF a, b
    <3> QED
      BY <1>1, <1>2, <2>3, <2>5, <3>1, <3>2, <3>3, Extracted
  <2>6. current # Len(video)
    <3> SUFFICES ASSUME current = Len(video) PROVE FALSE
      OBVIOUS
    <3>1. offset = Len(file) /\ Len(file) \in Nat
      BY <1>1, <2>4, FileEnds
    <3>2. Available = 0
      <4> DEFINE f == Len(file)
      <4>1. f \in Nat /\ offset = f /\ H264_FILE_BUFFER \in Nat
            /\ Available = IF H264_FILE_BUFFER < f - offset THEN H264_FILE_BUFFER ELSE f - offset
        BY <3>1, BufferAssumption DEF Available, Smaller
      <4> HIDE DEF f
      <4> QED
        BY <4>1
    <3> QED
      BY <2>1, <3>2
  <2> QED
    BY <1>2, <2>5, <2>6
<1>5. pc' = "closed" => Close
  BY DEF ExtractFails, Close
<1>6. pc' = "noNal" => ExtractFails
  BY DEF ExtractFails, Close
<1>7. AllFit' => AllFit
  BY <1>1 DEF AllFit, Fits
<1> QED
  BY <1>1, <1>3, <1>4, <1>5, <1>6, <1>7 DEF Stopped

LEMMA VideoStays ==
  ASSUME VideoInv, ExtractFails \/ Close \/ SendFails \/ UNCHANGED vars
  PROVE  VideoInv'
<1>1. /\ UNCHANGED <<video, offset, current, timestamp, units, lost>>
      /\ pc' \in {"noNal", "closed", "sendFailed", pc}
      /\ pc' = "send" => pc = "send" /\ sent' = sent /\ seq' = seq /\ expected' = expected
                         /\ gathered' = gathered
      /\ Done' = Done
  BY DEF ExtractFails, Close, SendFails, vars, readVars, inputVars, receiverVars, Done
<1>2. InOrder'
  BY <1>1 DEF VideoInv, InOrder, Number
<1>3. ContentRight'
  BY <1>1 DEF VideoInv, ContentRight, Number, Content, Complete, Whole
<1>4. InTime'
  BY <1>1 DEF VideoInv, InTime, Number, StampOf, TimedBefore, Untimed
<1>5. Counted'
  BY <1>1 DEF VideoInv, Counted, Broken
<1>6. Stopped'
  <2>1. CASE ExtractFails \/ Close
    BY <2>1, VideoStops
  <2>2. CASE SendFails \/ UNCHANGED vars
    <3>1. pc' = "sendFailed" \/ pc' = pc
      BY <2>2 DEF SendFails, vars
    <3> QED
      BY <1>1, <3>1 DEF VideoInv, Stopped, AllFit, Fits
  <2> QED
    BY <2>1, <2>2
<1> QED
  BY <1>2, <1>3, <1>4, <1>5, <1>6, BufferStays DEF VideoInv

LEMMA VideoStep == ASSUME VideoInv, [Next]_vars PROVE VideoInv'
  BY VideoRead, VideoStays, VideoSent DEF Next

LEMMA UnitsFromInv == VideoInv => UnitsAreNals
<1> SUFFICES ASSUME VideoInv, NEW i \in DOMAIN units
             PROVE  LET nal == NalOf(video, Number(units[i])) IN
                    /\ i > 1 => Number(units[i - 1]) < Number(units[i])
                    /\ \/ Padded(Content(units[i]), nal, IF Len(nal) > RTP_MAX_PKT_SIZE THEN 1 ELSE 0)
                       \/ ~FitsIn(video, Number(units[i])) /\ Padded(Content(units[i]), nal, 2)
                       \/ /\ ~FitsIn(video, Number(units[i])) /\ i = Len(units)
                          /\ Number(units[i]) = current
                          /\ \E n \in 1..Len(nal) : Padded(Content(units[i]), SubSeq(nal, 1, n), 4)
  BY DEF UnitsAreNals, Fits, FitsIn, NalOf, CodeOf, Number, Content
<1> DEFINE n == Number(units[i])
<1>1. /\ i > 1 => Number(units[i - 1]) < n
      /\ n \in 1..Done
      /\ n < current => Complete(video, n, Content(units[i]))
      /\ n = current => Content(units[i]) = Whole(video, current, offset)
  BY DEF VideoInv, InOrder, ContentRight
<1>2. /\ DOMAIN units = 1..Len(units) /\ Len(units) \in Nat /\ current \in Nat /\ Len(video) \in Nat
      /\ current <= Len(video)
      /\ video \in Videos /\ At(video, current, offset)
      /\ Done = current \/ Done = current - 1
  BY UnitsType DEF VideoInv, BufferInv, Where, Done
<1>3. ASSUME n = current, i # Len(units) PROVE FALSE
  <2> DEFINE j == i + 1
             k == Number(units[j])
  <2>1. j \in DOMAIN units /\ j > 1 /\ j - 1 = i
    BY <1>2, <1>3
  <2> HIDE DEF j
  <2>2. current < k /\ k \in 1..Done
    BY <1>3, <2>1 DEF VideoInv, InOrder
  <2> HIDE DEF k
  <2> QED
    BY <1>2, <2>2
<1>4. n = current => Complete(video, n, Content(units[i])) \/ Part(video, n, Content(units[i]))
  <2> SUFFICES ASSUME n = current
               PROVE  Complete(video, n, Content(units[i])) \/ Part(video, n, Content(units[i]))
    OBVIOUS
  <2>1. current \in 1..Len(video)
    <3>1. current \in 1..Done
      BY <1>1
    <3> QED
      BY <1>2, <3>1
  <2> QED
    BY <1>1, <1>2, <2>1, WholeNal
<1>5. n < current \/ n = current
  <2>1. n \in 1..Done
    BY <1>1
  <2> HIDE DEF n
  <2> QED
    BY <1>2, <2>1
<1> QED
  BY <1>1, <1>3, <1>4, <1>5 DEF Complete, Part

\* What a receiver of sendH264OverTcp and sendH264OverUdp puts together is NALs of the
\* file in their order, and one zero byte if a NAL was sent in fragments, for every
\* file of NALs, every content of the buffer, all sizes and whatever is lost.
THEOREM VideoUnitsAreNals == Spec => []UnitsAreNals
  BY VideoInit, VideoStep, UnitsFromInv, PTL DEF Spec

\* The end of a stream: if the NALs fit in the buffer the reader gets as far as the
\* last but one, or closes the file behind the last, and a lost datagram costs one NAL.
THEOREM VideoOnlyTheLastIsMissing == Spec => []OnlyTheLastIsMissing
<1>1. VideoInv => OnlyTheLastIsMissing
  <2> SUFFICES ASSUME VideoInv, pc \in {"closed", "noNal"} PROVE Len(units) >= current - lost
    BY DEF VideoInv, Stopped, AllFit, OnlyTheLastIsMissing
  <2>1. current <= Len(units) + lost
    BY DEF VideoInv, Counted, Done
  <2>2. Len(units) \in Nat /\ current \in Nat /\ lost \in Nat
    BY UnitsType DEF VideoInv
  <2> QED
    BY <2>1, <2>2
<1> QED
  BY <1>1, VideoInit, VideoStep, PTL DEF Spec

\* The timestamp of a NAL counts those before it in the file that take time, modulo
\* 2^32 (h264.h 230 and 331): for every file and every size of buffer and packet, and
\* whatever is lost, split or cut short.
THEOREM VideoClockRight == Spec => []VideoClock
<1>1. VideoInv => VideoClock
  BY DEF VideoInv, InTime, VideoClock, TimedBefore, StampOf, Number
<1> QED
  BY <1>1, VideoInit, VideoStep, PTL DEF Spec
=============================================================================
