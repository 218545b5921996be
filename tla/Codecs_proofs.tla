--------------------------- MODULE Codecs_proofs ---------------------------
(* What is proved of the functions: the blocks that are hashed are those of *)
(* the padded input, for blocks and lengths of any size and however the     *)
(* input is cut; a diff is a patch whose rollup counts every page once, and *)
(* status agrees with it; varints, records and manifests are read back as   *)
(* they were written.                                                       *)
(*                                                                          *)
(* DigestOfWhole says nothing of where the buffer begins: what makes it     *)
(* inductive is that the buffer begins at the end of a block, holds less    *)
(* than one, and is followed by what update has not consumed (CutAt).       *)
(*                                                                          *)
(* For the differences the invariant is that what has returned is what the  *)
(* function gives (Returned); the work is in the functions, in that sorting *)
(* by page keeps every delta (ByPageSorts).                                 *)
(*                                                                          *)
(* So it is for the codecs: that digits shifted in give back the number     *)
(* (DigitsRead), that a varint has one end (OneEnd), and that before each   *)
(* turn of decode_record's loop the header and the body are what is left of *)
(* those of the record (Turn, TurnIsStep).  A text that is repaired is one  *)
(* of characters joined (JoinedIsUtf8).                                     *)
(*                                                                          *)
(* A sum over rows is one over fibers (SumOfFibers): a page has one owner,  *)
(* so no page is counted twice (CountedTwice) and none is missed.           *)
(*                                                                          *)
(* Of a manifest the lines that are written are the lines that are read     *)
(* (UnlinesRead), since no value has a newline (NoNewline) and an escaped   *)
(* message has none (PiecesAre); split_once gives back key and value        *)
(* (FieldRead); and from where an escaped character begins, unescape_line   *)
(* reads it and goes on behind it (UnescapesEscaped).                       *)
EXTENDS Codecs, FiniteSetTheorems, SequenceTheorems, WellFoundedInduction, TLAPS

IsMultiple(n) == \E k \in Nat : n = BlockLen * k

(* The end of the last zero of the padding: the length comes next.          *)
BodyLen(m) == Len(m) + 1 + Zeros(Len(m))

(* What is compressed ends at c, what is kept at b.                         *)
CutAt(c, b) ==
    /\ c <= b /\ b - c < BlockLen /\ IsMultiple(c)
    /\ compressed = SubSeq(Padded(message), 1, c)
    /\ buf  = SubSeq(Padded(message), c + 1, b)
    /\ data = SubSeq(Padded(message), b + 1, total)
    /\ stage[2] = "idle" => b = total
    /\ stage[2] = "blocks" => b = total \/ b = c

Stages == {"slices", "padding"} \X {"idle", "fill", "blocks"}

InSlices  == stage[1] = "slices" /\ total <= Len(message)
InPadding == /\ stage[1] = "padding" /\ bits = 8 * Len(message)
             /\ total \in Len(message) + 1 .. BodyLen(message)

InProgress ==
    /\ stage \in Stages
    /\ InSlices \/ InPadding
    /\ \E c, b \in 0 .. total : CutAt(c, b)

Done == stage = <<"done", "idle">> /\ compressed = Padded(message)

ShaInv == message \in Seq(Nat) /\ total \in Nat /\ (InProgress \/ Done)

---------------------------------------------------------------------------
(* Arithmetic of blocks.                                                    *)

LEMMA DivMod ==
    ASSUME NEW n \in Nat, NEW s \in Nat \ {0}
    PROVE  n \div s \in Nat /\ n % s \in 0 .. s - 1 /\ n = s * (n \div s) + (n % s)
OBVIOUS

LEMMA NextMultiple ==
    ASSUME NEW n \in Nat, IsMultiple(n)
    PROVE  IsMultiple(n + BlockLen)
<1>1. PICK k \in Nat : n = BlockLen * k
  BY DEF IsMultiple
<1>2. n + BlockLen = BlockLen * (k + 1) /\ k + 1 \in Nat
  BY <1>1, BlockAssumption
<1> QED
  BY <1>2 DEF IsMultiple

LEMMA MultiplesApart ==
    ASSUME NEW m \in Nat, NEW n \in Nat, IsMultiple(m), IsMultiple(n),
           m <= n, n - m < BlockLen
    PROVE  m = n
<1>1. PICK j \in Nat : m = BlockLen * j
  BY DEF IsMultiple
<1>2. PICK k \in Nat : n = BlockLen * k
  BY DEF IsMultiple
<1>3. n - m = BlockLen * (k - j)
  BY <1>1, <1>2, BlockAssumption
<1>4. CASE k - j >= 1
  <2>1. BlockLen * (k - j) >= BlockLen
    BY <1>4, BlockAssumption
  <2> QED
    BY <2>1, <1>3, BlockAssumption
<1>5. CASE k - j <= 0
  <2>1. BlockLen * (k - j) <= 0
    BY <1>5, BlockAssumption
  <2> QED
    BY <2>1, <1>3, BlockAssumption
<1> QED
  BY <1>4, <1>5

(* The padding fills the last block.                                        *)
LEMMA PaddingFits ==
    ASSUME NEW n \in Nat
    PROVE  /\ Zeros(n) \in 0 .. BlockLen - 1
           /\ IsMultiple(n + 1 + Zeros(n) + LengthLen)
<1> DEFINE r == n % BlockLen
           q == n \div BlockLen
           x == 2 * BlockLen - 1 - LengthLen - r
           p == x \div BlockLen
<1>1. BlockLen \in Nat \ {0} /\ LengthLen \in Nat
  BY BlockAssumption
<1>2. q \in Nat /\ r \in 0 .. BlockLen - 1 /\ n = BlockLen * q + r
  BY <1>1, DivMod
<1>3. x \in Nat /\ x < 2 * BlockLen
  BY <1>2, BlockAssumption
<1>4. p \in Nat /\ x % BlockLen \in 0 .. BlockLen - 1 /\ x = BlockLen * p + (x % BlockLen)
  BY <1>1, <1>3, DivMod
<1>5. Zeros(n) = x % BlockLen
  BY DEF Zeros
<1> HIDE DEF r, q, x, p
<1>6. p <= 1
  <2>1. SUFFICES ASSUME p >= 2 PROVE FALSE
    BY <1>4
  <2>2. BlockLen * p >= BlockLen * 2
    BY <2>1, <1>1, <1>4
  <2> QED
    BY <2>2, <1>1, <1>3, <1>4
<1>7. n + 1 + Zeros(n) + LengthLen = BlockLen * (q + 2 - p)
  <2>1. BlockLen * (q + 2 - p) = BlockLen * q + 2 * BlockLen - BlockLen * p
    BY <1>1, <1>2, <1>4
  <2>2. x = 2 * BlockLen - 1 - LengthLen - r
    BY DEF x
  <2> QED
    BY <2>1, <2>2, <1>1, <1>2, <1>4, <1>5
<1>8. q + 2 - p \in Nat
  BY <1>2, <1>4, <1>6
<1> QED
  BY <1>4, <1>5, <1>7, <1>8 DEF IsMultiple

---------------------------------------------------------------------------
(* Slices of a sequence.                                                    *)

LEMMA Slice ==
    ASSUME NEW S, NEW s \in Seq(S), NEW i \in 1 .. Len(s) + 1, NEW j \in i - 1 .. Len(s)
    PROVE  SubSeq(s, i, j) \in Seq(S) /\ Len(SubSeq(s, i, j)) = j - i + 1
<1>1. i \in Int /\ j \in Int /\ \A k \in i .. j : s[k] \in S
  OBVIOUS
<1> QED
  BY <1>1, SubSeqProperties

LEMMA SliceOfSlice ==
    ASSUME NEW S, NEW s \in Seq(S), NEW i \in 1 .. Len(s) + 1, NEW j \in i - 1 .. Len(s),
           NEW m \in 1 .. j - i + 2, NEW n \in m - 1 .. j - i + 1
    PROVE  SubSeq(SubSeq(s, i, j), m, n) = SubSeq(s, i + m - 1, i + n - 1)
<1>1. CASE n < m
  BY <1>1, SubSeqEmpty
<1>2. CASE m <= n
  <2>1. i \in 1 .. Len(s) /\ j \in 1 .. Len(s) /\ m \in 1 .. j - i + 1 /\ n \in 1 .. j - i + 1
    BY <1>2
  <2> QED
    BY <2>1, SubSeqOfSubSeq
<1> QED
  BY <1>1, <1>2

LEMMA Concat ==
    ASSUME NEW S, NEW s \in Seq(S), NEW t \in Seq(S)
    PROVE  /\ s \o t \in Seq(S) /\ Len(s \o t) = Len(s) + Len(t)
           /\ \A i \in 1 .. Len(s) : (s \o t)[i] = s[i]
           /\ \A i \in 1 .. Len(t) : (s \o t)[Len(s) + i] = t[i]
<1>1. Len(s) \in Nat /\ Len(t) \in Nat
  OBVIOUS
<1>2. /\ s \o t \in Seq(S) /\ Len(s \o t) = Len(s) + Len(t)
      /\ \A i \in 1 .. Len(s) + Len(t) :
            (s \o t)[i] = IF i <= Len(s) THEN s[i] ELSE t[i - Len(s)]
  BY ConcatProperties
<1>3. ASSUME NEW i \in 1 .. Len(t)
      PROVE  (s \o t)[Len(s) + i] = t[i]
  <2>1. /\ Len(s) + i \in 1 .. Len(s) + Len(t) /\ ~(Len(s) + i <= Len(s))
        /\ Len(s) + i - Len(s) = i
    BY <1>1
  <2> QED
    BY <1>2, <2>1
<1> QED
  BY <1>1, <1>2, <1>3

(* Two that meet are one.                                                   *)
LEMMA SlicesMeet ==
    ASSUME NEW S, NEW s \in Seq(S), NEW i \in 1 .. Len(s) + 1,
           NEW j \in i - 1 .. Len(s), NEW k \in j .. Len(s)
    PROVE  SubSeq(s, i, j) \o SubSeq(s, j + 1, k) = SubSeq(s, i, k)
BY ConcatAdjacentSubSeq


---------------------------------------------------------------------------
(* The padded input, byte by byte.                                          *)

Bytes == Nat \cup {BigEndian(n)[i] : n \in Nat, i \in 1 .. LengthLen}

LEMMA PaddingParts ==
    ASSUME NEW n \in Nat
    PROVE  /\ Padding(n) \in Seq(Bytes)
           /\ Len(Padding(n)) = 1 + Zeros(n) + LengthLen
           /\ Padding(n)[1] = 128
           /\ \A i \in 2 .. 1 + Zeros(n) : Padding(n)[i] = 0
           /\ \A i \in 1 .. LengthLen : Padding(n)[1 + Zeros(n) + i] = BigEndian(8 * n)[i]
<1> DEFINE z == [i \in 1 .. Zeros(n) |-> 0]
           e == BigEndian(8 * n)
<1>1. Zeros(n) \in Nat /\ LengthLen \in Nat /\ 8 * n \in Nat
  BY PaddingFits, BlockAssumption
<1>2. <<128>> \in Seq(Bytes) /\ Len(<<128>>) = 1 /\ <<128>>[1] = 128
  BY DEF Bytes
<1>3. z \in Seq(Bytes) /\ Len(z) = Zeros(n) /\ \A i \in 1 .. Zeros(n) : z[i] = 0
  BY <1>1 DEF Bytes
<1>4. e \in Seq(Bytes) /\ Len(e) = LengthLen
  <2>1. e = [i \in 1 .. LengthLen |-> e[i]]
    BY DEF BigEndian
  <2>2. \A i \in 1 .. LengthLen : e[i] \in Bytes
    BY <1>1 DEF Bytes
  <2> HIDE DEF e
  <2>3. e \in [1 .. LengthLen -> Bytes]
    BY <2>1, <2>2
  <2> QED
    BY <1>1, <2>3
<1> HIDE DEF z, e
<1>5. /\ <<128>> \o z \in Seq(Bytes) /\ Len(<<128>> \o z) = 1 + Zeros(n)
      /\ (<<128>> \o z)[1] = 128
      /\ \A i \in 2 .. 1 + Zeros(n) : (<<128>> \o z)[i] = 0
  BY <1>1, <1>2, <1>3
<1>6. Padding(n) = (<<128>> \o z) \o e
  BY DEF Padding, z, e
<1> DEFINE a == <<128>> \o z
<1> HIDE DEF a
<1>7. /\ a \in Seq(Bytes) /\ Len(a) = 1 + Zeros(n) /\ a[1] = 128
      /\ \A i \in 2 .. 1 + Zeros(n) : a[i] = 0
      /\ Padding(n) = a \o e
  BY <1>5, <1>6 DEF a
<1>8. /\ Padding(n) \in Seq(Bytes) /\ Len(Padding(n)) = 1 + Zeros(n) + LengthLen
      /\ \A i \in 1 .. 1 + Zeros(n) : Padding(n)[i] = a[i]
      /\ \A i \in 1 .. LengthLen : Padding(n)[1 + Zeros(n) + i] = e[i]
  <2>1. /\ a \o e \in Seq(Bytes) /\ Len(a \o e) = Len(a) + Len(e)
        /\ \A i \in 1 .. Len(a) : (a \o e)[i] = a[i]
        /\ \A i \in 1 .. Len(e) : (a \o e)[Len(a) + i] = e[i]
    <3>1. a \in Seq(Bytes) /\ e \in Seq(Bytes)
      BY <1>4, <1>7
    <3> QED
      BY <3>1, Concat
  <2> QED
    BY <1>1, <1>4, <1>7, <2>1
<1> QED
  BY <1>1, <1>7, <1>8, SMTT(30) DEF e

LEMMA PaddedParts ==
    ASSUME NEW m \in Seq(Nat)
    PROVE  /\ Padded(m) \in Seq(Bytes)
           /\ BodyLen(m) \in Nat /\ BodyLen(m) > Len(m)
           /\ Len(Padded(m)) = BodyLen(m) + LengthLen
           /\ \A i \in 1 .. Len(m) : Padded(m)[i] = m[i]
           /\ Padded(m)[Len(m) + 1] = 128
           /\ \A i \in Len(m) + 2 .. BodyLen(m) : Padded(m)[i] = 0
           /\ \A i \in 1 .. LengthLen :
                 Padded(m)[BodyLen(m) + i] = BigEndian(8 * Len(m))[i]
<1> DEFINE n == Len(m)
           p == Padding(n)
           w == Padded(m)
<1>1. n \in Nat /\ Zeros(n) \in Nat /\ LengthLen \in Nat
  BY PaddingFits, BlockAssumption
<1>2. m \in Seq(Bytes)
  BY DEF Bytes
<1>3. /\ p \in Seq(Bytes) /\ Len(p) = 1 + Zeros(n) + LengthLen /\ p[1] = 128
      /\ \A i \in 2 .. 1 + Zeros(n) : p[i] = 0
      /\ \A i \in 1 .. LengthLen : p[1 + Zeros(n) + i] = BigEndian(8 * n)[i]
  BY <1>1, PaddingParts, ZenonT(60)
<1>4. w = m \o p /\ BodyLen(m) = n + 1 + Zeros(n)
  BY DEF Padded, BodyLen
<1> HIDE DEF p, w
<1>5. /\ w \in Seq(Bytes) /\ Len(w) = n + Len(p)
      /\ \A i \in 1 .. n : w[i] = m[i]
      /\ \A i \in 1 .. Len(p) : w[n + i] = p[i]
  <2>1. /\ m \o p \in Seq(Bytes) /\ Len(m \o p) = Len(m) + Len(p)
        /\ \A i \in 1 .. Len(m) : (m \o p)[i] = m[i]
        /\ \A i \in 1 .. Len(p) : (m \o p)[Len(m) + i] = p[i]
    <3>1. m \in Seq(Bytes) /\ p \in Seq(Bytes)
      BY <1>2, <1>3
    <3> QED
      BY <3>1, Concat
  <2> QED
    BY <1>4, <2>1
<1>6. w[n + 1] = 128
  BY <1>1, <1>3, <1>5
<1>7. \A i \in n + 2 .. BodyLen(m) : w[i] = 0
  <2>1. SUFFICES ASSUME NEW i \in n + 2 .. BodyLen(m) PROVE w[i] = 0
    OBVIOUS
  <2>2. i - n \in 2 .. 1 + Zeros(n) /\ i - n \in 1 .. Len(p) /\ n + (i - n) = i
    BY <1>1, <1>3, <1>4
  <2>3. w[n + (i - n)] = p[i - n]
    BY <1>5, <2>2
  <2> QED
    BY <1>3, <2>2, <2>3
<1>8. \A i \in 1 .. LengthLen : w[BodyLen(m) + i] = BigEndian(8 * n)[i]
  <2>1. SUFFICES ASSUME NEW i \in 1 .. LengthLen
                 PROVE  w[BodyLen(m) + i] = BigEndian(8 * n)[i]
    OBVIOUS
  <2>2. 1 + Zeros(n) + i \in 1 .. Len(p) /\ BodyLen(m) + i = n + (1 + Zeros(n) + i)
    BY <1>1, <1>3, <1>4
  <2>3. w[n + (1 + Zeros(n) + i)] = p[1 + Zeros(n) + i]
    BY <1>5, <2>2
  <2> QED
    BY <1>3, <2>2, <2>3
<1>9. BodyLen(m) \in Nat /\ BodyLen(m) > n /\ Len(w) = BodyLen(m) + LengthLen
  BY <1>1, <1>3, <1>4, <1>5
<1> QED
  BY <1>5, <1>6, <1>7, <1>8, <1>9 DEF w

(* What the callers pass is the beginning of it.                            *)
LEMMA PaddedBegins ==
    ASSUME NEW m \in Seq(Nat), NEW i \in 1 .. Len(m) + 1, NEW j \in i - 1 .. Len(m)
    PROVE  SubSeq(Padded(m), i, j) = SubSeq(m, i, j)
<1>1. /\ Padded(m) \in Seq(Bytes) /\ Len(Padded(m)) >= Len(m)
      /\ \A k \in i .. j : Padded(m)[k] = m[k]
  BY PaddedParts, BlockAssumption
<1>2. SubSeq(Padded(m), i, j) = [k \in 1 .. j - i + 1 |-> Padded(m)[i + k - 1]]
  BY <1>1
<1>3. SubSeq(m, i, j) = [k \in 1 .. j - i + 1 |-> m[i + k - 1]]
  OBVIOUS
<1>4. \A k \in 1 .. j - i + 1 : i + k - 1 \in i .. j
  OBVIOUS
<1> QED
  BY <1>1, <1>2, <1>3, <1>4

LEMMA PaddedEnds ==
    ASSUME NEW m \in Seq(Nat)
    PROVE  SubSeq(Padded(m), BodyLen(m) + 1, Len(Padded(m))) = BigEndian(8 * Len(m))
<1> DEFINE w == Padded(m)
           e == BigEndian(8 * Len(m))
           b == BodyLen(m)
<1>1. /\ w \in Seq(Bytes) /\ b \in Nat /\ Len(w) = b + LengthLen /\ LengthLen \in Nat
      /\ \A k \in 1 .. LengthLen : w[b + k] = e[k]
  BY PaddedParts, BlockAssumption
<1>2. e = [k \in 1 .. LengthLen |-> e[k]]
  BY DEF BigEndian
<1> HIDE DEF w, e, b
<1>3. SubSeq(w, b + 1, b + LengthLen) = [k \in 1 .. LengthLen |-> w[b + k]]
  BY <1>1
<1>4. SubSeq(w, b + 1, Len(w)) = e
  BY <1>1, <1>2, <1>3
<1> QED
  BY <1>4 DEF w, e, b

(* One byte of it.                                                          *)
LEMMA PaddedByte ==
    ASSUME NEW m \in Seq(Nat), NEW i \in Len(m) .. BodyLen(m) - 1
    PROVE  SubSeq(Padded(m), i + 1, i + 1) = IF i = Len(m) THEN <<128>> ELSE <<0>>
<1> DEFINE w == Padded(m)
           b == BodyLen(m)
           n == Len(m)
<1>1. /\ w \in Seq(Bytes) /\ b \in Nat /\ n \in Nat /\ LengthLen \in Nat
      /\ Len(w) = b + LengthLen /\ w[n + 1] = 128
      /\ \A k \in n + 2 .. b : w[k] = 0
  BY PaddedParts, BlockAssumption
<1>2. i \in n .. b - 1
  OBVIOUS
<1> HIDE DEF w, b, n
<1>3. i + 1 \in 1 .. Len(w) /\ i + 1 \in Int
  BY <1>1, <1>2
<1>4. w[i + 1] = IF i = n THEN 128 ELSE 0
  <2>1. i # n => i + 1 \in n + 2 .. b
    BY <1>1, <1>2
  <2> QED
    BY <1>1, <2>1
<1>5. SubSeq(w, i + 1, i + 1) = <<w[i + 1]>> \o SubSeq(w, i + 1 + 1, i + 1)
  BY <1>1, <1>3, SubSeqRecursiveFirst
<1>6. SubSeq(w, i + 1 + 1, i + 1) = << >>
  BY <1>3, SubSeqEmpty
<1>7. SubSeq(w, i + 1, i + 1) = <<w[i + 1]>>
  <2>1. <<w[i + 1]>> \in Seq(Bytes)
    BY <1>1, <1>3
  <2> QED
    BY <1>5, <1>6, <2>1, ConcatEmptySeq
<1> QED
  BY <1>4, <1>7 DEF w, n

---------------------------------------------------------------------------
(* The steps.                                                               *)

LEMMA CutFacts ==
    ASSUME message \in Seq(Nat), total \in Nat, InProgress,
           NEW c \in 0 .. total, NEW b \in 0 .. total, CutAt(c, b)
    PROVE  /\ Padded(message) \in Seq(Bytes) /\ Len(message) \in Nat
           /\ Len(message) < BodyLen(message)
           /\ Len(Padded(message)) = BodyLen(message) + LengthLen
           /\ total <= BodyLen(message) /\ BodyLen(message) \in Nat
           /\ BlockLen \in Nat \ {0} /\ LengthLen \in Nat \ {0} /\ LengthLen < BlockLen
           /\ c \in Nat /\ b \in Nat /\ c <= b /\ b <= total
           /\ compressed \in Seq(Bytes) /\ Len(compressed) = c
           /\ buf \in Seq(Bytes) /\ Len(buf) = b - c
           /\ data \in Seq(Bytes) /\ Len(data) = total - b
<1>1. /\ Padded(message) \in Seq(Bytes) /\ Len(message) \in Nat
      /\ Len(message) < BodyLen(message) /\ BodyLen(message) \in Nat
      /\ Len(Padded(message)) = BodyLen(message) + LengthLen
  BY PaddedParts
<1>2. BlockLen \in Nat \ {0} /\ LengthLen \in Nat \ {0} /\ LengthLen < BlockLen
  BY BlockAssumption
<1>3. total <= BodyLen(message)
  BY <1>1 DEF InProgress, InSlices, InPadding
<1>4. c \in Nat /\ b \in Nat /\ c <= b /\ b <= total
  BY DEF CutAt
<1> DEFINE w == Padded(message)
<1>5. compressed = SubSeq(w, 1, c) /\ buf = SubSeq(w, c + 1, b) /\ data = SubSeq(w, b + 1, total)
  BY DEF CutAt
<1>6. /\ w \in Seq(Bytes) /\ 1 \in 1 .. Len(w) + 1 /\ c \in 1 - 1 .. Len(w)
      /\ c + 1 \in 1 .. Len(w) + 1 /\ b \in c + 1 - 1 .. Len(w)
      /\ b + 1 \in 1 .. Len(w) + 1 /\ total \in b + 1 - 1 .. Len(w)
  BY <1>1, <1>2, <1>3, <1>4
<1> HIDE DEF w
<1>7. compressed \in Seq(Bytes) /\ Len(compressed) = c - 1 + 1
  BY <1>5, <1>6, Slice
<1>8. buf \in Seq(Bytes) /\ Len(buf) = b - (c + 1) + 1
  BY <1>5, <1>6, Slice
<1>9. data \in Seq(Bytes) /\ Len(data) = total - (b + 1) + 1
  BY <1>5, <1>6, Slice
<1> QED
  BY <1>1, <1>2, <1>3, <1>4, <1>7, <1>8, <1>9

LEMMA InitInv == ShaInit => ShaInv
<1>1. SUFFICES ASSUME ShaInit PROVE ShaInv
  OBVIOUS
<1>2. message \in Seq(Nat) /\ Len(message) \in Nat /\ total \in Nat /\ 0 \in 0 .. total
  BY <1>1, MessagesAssumption DEF ShaInit
<1>3. Padded(message) \in Seq(Bytes)
  BY <1>2, PaddedParts
<1>4. SubSeq(Padded(message), 1, 0) = << >>
  BY SubSeqEmpty
<1>5. IsMultiple(0)
  BY BlockAssumption DEF IsMultiple
<1>6. CutAt(0, 0)
  BY <1>1, <1>4, <1>5, BlockAssumption DEF ShaInit, CutAt
<1>7. stage \in Stages /\ InSlices
  BY <1>1, <1>2 DEF ShaInit, Stages, InSlices
<1> QED
  BY <1>2, <1>6, <1>7 DEF ShaInv, InProgress

(* What a call of update is given is what comes next of the padded input.   *)
LEMMA PassKeeps ==
    ASSUME message \in Seq(Nat), total \in Nat, InProgress, stage[2] = "idle",
           NEW s \in Seq(Nat), NEW phase \in {"slices", "padding"},
           Pass(s, phase), UNCHANGED <<message, buf, compressed>>,
           total + Len(s) <= BodyLen(message),
           s = SubSeq(Padded(message), total + 1, total + Len(s)),
           (InSlices \/ InPadding)'
    PROVE  ShaInv'
<1>1. PICK c \in 0 .. total, b \in 0 .. total : CutAt(c, b)
  BY DEF InProgress
<1>2. c \in Nat /\ b = total /\ c <= total
  BY <1>1 DEF CutAt
<1>3. total' \in Nat /\ total' = total + Len(s) /\ c \in 0 .. total' /\ b \in 0 .. total'
  BY <1>2 DEF Pass
<1>4. stage' = <<phase, "fill">> /\ data' = s
  BY DEF Pass
<1>5. CutAt(c, b)'
  BY <1>1, <1>2, <1>3, <1>4 DEF CutAt
<1>6. stage' \in Stages
  BY <1>4 DEF Stages
<1> QED
  BY <1>3, <1>5, <1>6 DEF ShaInv, InProgress

LEMMA UpdateKeeps ==
    ASSUME message \in Seq(Nat), total \in Nat, InProgress, Update
    PROVE  ShaInv'
<1>1. /\ stage = <<"slices", "idle">> /\ total <= Len(message) /\ Len(message) \in Nat
      /\ UNCHANGED <<message, buf, compressed>>
  BY DEF Update, InProgress, InSlices, InPadding
<1>2. PICK n \in 0 .. Len(message) - total :
        Pass(SubSeq(message, total + 1, total + n), "slices")
  BY DEF Update
<1> DEFINE s == SubSeq(message, total + 1, total + n)
<1>3. s \in Seq(Nat) /\ Len(s) = n
  <2>1. total + 1 \in 1 .. Len(message) + 1 /\ total + n \in total + 1 - 1 .. Len(message)
    BY <1>1
  <2> QED
    BY <2>1, Slice
<1>4. s = SubSeq(Padded(message), total + 1, total + n)
  <2>1. total + 1 \in 1 .. Len(message) + 1 /\ total + n \in total + 1 - 1 .. Len(message)
    BY <1>1
  <2> QED
    BY <2>1, PaddedBegins
<1>5. total + n <= BodyLen(message)
  BY <1>1, PaddedParts
<1>6. Pass(s, "slices")
  BY <1>2
<1> HIDE DEF s
<1>7. InSlices'
  BY <1>1, <1>3, <1>6 DEF Pass, InSlices
<1> QED
  BY <1>1, <1>3, <1>4, <1>5, <1>6, <1>7, PassKeeps

LEMMA FinishOneKeeps ==
    ASSUME message \in Seq(Nat), total \in Nat, InProgress, FinishOne
    PROVE  ShaInv'
<1> DEFINE n == Len(message)
<1>1. /\ stage = <<"slices", "idle">> /\ total = n /\ n \in Nat /\ bits' = 8 * n
      /\ Pass(<<128>>, "padding") /\ UNCHANGED <<message, buf, compressed>>
  BY DEF FinishOne
<1>2. BodyLen(message) \in Nat /\ n < BodyLen(message)
  BY PaddedParts
<1>3. <<128>> = SubSeq(Padded(message), n + 1, n + 1)
  <2>1. n \in Len(message) .. BodyLen(message) - 1
    BY <1>1, <1>2
  <2> QED
    BY <2>1, PaddedByte
<1>4. <<128>> \in Seq(Nat) /\ Len(<<128>>) = 1
  OBVIOUS
<1>5. InPadding'
  BY <1>1, <1>2, <1>4 DEF Pass, InPadding
<1>6. /\ total + Len(<<128>>) <= BodyLen(message) /\ stage[2] = "idle"
      /\ <<128>> = SubSeq(Padded(message), total + 1, total + Len(<<128>>))
  BY <1>1, <1>2, <1>3, <1>4
<1> QED
  BY <1>1, <1>4, <1>5, <1>6, PassKeeps

(* The buffer has no room for the length yet, so that it is a zero's turn.  *)
LEMMA FinishZeroKeeps ==
    ASSUME message \in Seq(Nat), total \in Nat, InProgress, FinishZero
    PROVE  ShaInv'
<1> DEFINE n == Len(message)
<1>1. /\ stage = <<"padding", "idle">> /\ Len(buf) # BlockLen - LengthLen
      /\ Pass(<<0>>, "padding") /\ UNCHANGED <<message, buf, compressed, bits>>
  BY DEF FinishZero
<1>2. bits = 8 * n /\ total \in n + 1 .. BodyLen(message)
  BY <1>1 DEF InProgress, InSlices, InPadding
<1>3. PICK c \in 0 .. total, b \in 0 .. total : CutAt(c, b)
  BY DEF InProgress
<1>4. /\ b = total /\ c \in Nat /\ c <= total /\ Len(buf) = total - c
      /\ BlockLen \in Nat \ {0} /\ LengthLen \in Nat \ {0} /\ LengthLen < BlockLen
      /\ n \in Nat /\ BodyLen(message) \in Nat
  BY <1>1, <1>3, CutFacts DEF CutAt
<1>5. total # BodyLen(message)
  <2>1. SUFFICES ASSUME total = BodyLen(message) PROVE FALSE
    OBVIOUS
  <2>2. IsMultiple(total + LengthLen)
    BY <2>1, <1>4, PaddingFits DEF BodyLen
  <2>3. IsMultiple(c + BlockLen)
    BY <1>3, <1>4, NextMultiple DEF CutAt
  <2>4. total - c < BlockLen
    BY <1>3, <1>4 DEF CutAt
  <2>5. CASE total + LengthLen <= c + BlockLen
    <3>1. c + BlockLen - (total + LengthLen) < BlockLen
      BY <1>4
    <3>2. total + LengthLen = c + BlockLen
      BY <3>1, <2>2, <2>3, <2>5, <1>4, MultiplesApart
    <3> QED
      BY <3>2, <1>1, <1>4
  <2>6. CASE total + LengthLen > c + BlockLen
    <3>1. total + LengthLen - (c + BlockLen) < BlockLen
      BY <2>4, <1>4
    <3>2. total + LengthLen = c + BlockLen
      BY <3>1, <2>2, <2>3, <2>6, <1>4, MultiplesApart
    <3> QED
      BY <3>2, <2>6, <1>4
  <2> QED
    BY <2>5, <2>6, <1>4
<1>6. total \in n + 1 .. BodyLen(message) - 1
  BY <1>2, <1>4, <1>5
<1>7. <<0>> = SubSeq(Padded(message), total + 1, total + 1)
  <2>1. total \in n .. BodyLen(message) - 1 /\ total # n
    BY <1>4, <1>6
  <2> QED
    BY <2>1, PaddedByte
<1>8. <<0>> \in Seq(Nat) /\ Len(<<0>>) = 1
  OBVIOUS
<1>9. InPadding'
  BY <1>1, <1>2, <1>4, <1>6, <1>8 DEF Pass, InPadding
<1>10. /\ total + Len(<<0>>) <= BodyLen(message) /\ stage[2] = "idle"
       /\ <<0>> = SubSeq(Padded(message), total + 1, total + Len(<<0>>))
  BY <1>1, <1>4, <1>6, <1>7, <1>8
<1> QED
  BY <1>1, <1>8, <1>9, <1>10, PassKeeps

(* The state of a hash in terms of its padded input w, of which t bytes     *)
(* have been passed.                                                        *)
Cuts(w, t, c, b) ==
    /\ w = Padded(message) /\ w \in Seq(Bytes) /\ Len(w) \in Nat
    /\ t = total /\ t \in Nat /\ t <= Len(w)
    /\ c \in Nat /\ b \in Nat /\ c <= b /\ b <= t /\ b - c < BlockLen /\ IsMultiple(c)
    /\ compressed = SubSeq(w, 1, c)
    /\ buf = SubSeq(w, c + 1, b)
    /\ data = SubSeq(w, b + 1, t)
    /\ stage[2] = "idle" => b = t
    /\ stage[2] = "blocks" => b = t \/ b = c

LEMMA HasCuts ==
    ASSUME message \in Seq(Nat), total \in Nat, InProgress
    PROVE  \E w, t, c, b : Cuts(w, t, c, b)
<1>1. PICK c \in 0 .. total, b \in 0 .. total : CutAt(c, b)
  BY DEF InProgress
<1>2. /\ Padded(message) \in Seq(Bytes) /\ total <= BodyLen(message)
      /\ Len(Padded(message)) = BodyLen(message) + LengthLen
      /\ BodyLen(message) \in Nat /\ LengthLen \in Nat \ {0}
      /\ c \in Nat /\ b \in Nat /\ c <= b /\ b <= total
  BY <1>1, CutFacts
<1>3. total <= Len(Padded(message)) /\ Len(Padded(message)) \in Nat
  BY <1>2
<1>4. Cuts(Padded(message), total, c, b)
  BY <1>1, <1>2, <1>3 DEF CutAt, Cuts
<1> QED
  BY <1>4

(* Where update cuts its slice: total, and what was passed, stay.           *)
LEMMA RecutKeeps ==
    ASSUME message \in Seq(Nat), total \in Nat, InProgress,
           NEW w, w = Padded(message), NEW t, t = total,
           NEW c \in 0 .. t, NEW b \in 0 .. t,
           c <= b, b - c < BlockLen, IsMultiple(c),
           compressed' = SubSeq(w, 1, c),
           buf' = SubSeq(w, c + 1, b),
           data' = SubSeq(w, b + 1, t),
           stage'[2] = "idle" => b = t,
           stage'[2] = "blocks" => b = t \/ b = c,
           UNCHANGED <<message, total, bits>>,
           stage' \in Stages, stage'[1] = stage[1]
    PROVE  ShaInv'
<1>1. (InSlices \/ InPadding)'
  BY DEF InProgress, InSlices, InPadding
<1>2. Padded(message)' = w /\ total' = t /\ c \in 0 .. total' /\ b \in 0 .. total'
  OBVIOUS
<1>3. CutAt(c, b)'
  BY <1>2 DEF CutAt
<1> QED
  BY <1>1, <1>2, <1>3 DEF ShaInv, InProgress

LEMMA Grows ==
    ASSUME NEW S, NEW w \in Seq(S), NEW c \in Nat, NEW e \in Nat, c <= e, e <= Len(w)
    PROVE  /\ SubSeq(w, 1, c) \o SubSeq(w, c + 1, e) = SubSeq(w, 1, e)
           /\ Len(SubSeq(w, c + 1, e)) = e - c
<1>1. /\ 1 \in 1 .. Len(w) + 1 /\ c \in 1 - 1 .. Len(w) /\ e \in c .. Len(w)
      /\ c + 1 \in 1 .. Len(w) + 1 /\ e \in c + 1 - 1 .. Len(w)
      /\ e - (c + 1) + 1 = e - c
  OBVIOUS
<1>2. SubSeq(w, 1, c) \o SubSeq(w, c + 1, e) = SubSeq(w, 1, e)
  BY <1>1, SlicesMeet
<1>3. Len(SubSeq(w, c + 1, e)) = e - (c + 1) + 1
  BY <1>1, Slice
<1> QED
  BY <1>1, <1>2, <1>3

(* What can be done with three slices that meet.                            *)
LEMMA Slices3 ==
    ASSUME NEW S, NEW w \in Seq(S), NEW c \in Nat, NEW b \in Nat, NEW t \in Nat,
           c <= b, b <= t, t <= Len(w), NEW n \in 0 .. t - b
    PROVE  /\ Len(SubSeq(w, c + 1, b)) = b - c
           /\ Len(SubSeq(w, b + 1, t)) = t - b
           /\ SubSeq(w, 1, c) \o SubSeq(w, c + 1, b) = SubSeq(w, 1, b)
           /\ SubSeq(w, c + 1, b) \o SubSeq(w, b + 1, t) = SubSeq(w, c + 1, t)
           /\ SubSeq(SubSeq(w, b + 1, t), 1, n) = SubSeq(w, b + 1, b + n)
           /\ SubSeq(SubSeq(w, b + 1, t), n + 1, t - b) = SubSeq(w, b + n + 1, t)
<1>1. /\ c + 1 \in 1 .. Len(w) + 1 /\ b \in c + 1 - 1 .. Len(w)
      /\ b + 1 \in 1 .. Len(w) + 1 /\ t \in b + 1 - 1 .. Len(w)
      /\ 1 \in 1 .. Len(w) + 1 /\ c \in 1 - 1 .. Len(w)
      /\ b \in c .. Len(w) /\ t \in b .. Len(w)
      /\ 1 \in 1 .. t - (b + 1) + 2 /\ n \in 1 - 1 .. t - (b + 1) + 1
      /\ n + 1 \in 1 .. t - (b + 1) + 2 /\ t - b \in n + 1 - 1 .. t - (b + 1) + 1
  OBVIOUS
<1>2. Len(SubSeq(w, c + 1, b)) = b - (c + 1) + 1
  BY <1>1, Slice
<1>3. Len(SubSeq(w, b + 1, t)) = t - (b + 1) + 1
  BY <1>1, Slice
<1>4. SubSeq(w, 1, c) \o SubSeq(w, c + 1, b) = SubSeq(w, 1, b)
  BY <1>1, SlicesMeet
<1>5. SubSeq(w, c + 1, b) \o SubSeq(w, b + 1, t) = SubSeq(w, c + 1, t)
  BY <1>1, SlicesMeet
<1>6. SubSeq(SubSeq(w, b + 1, t), 1, n) = SubSeq(w, b + 1 + 1 - 1, b + 1 + n - 1)
  BY <1>1, SliceOfSlice
<1>7. SubSeq(SubSeq(w, b + 1, t), n + 1, t - b)
      = SubSeq(w, b + 1 + (n + 1) - 1, b + 1 + (t - b) - 1)
  BY <1>1, SliceOfSlice
<1>8. /\ b - (c + 1) + 1 = b - c /\ t - (b + 1) + 1 = t - b
      /\ b + 1 + 1 - 1 = b + 1 /\ b + 1 + n - 1 = b + n
      /\ b + 1 + (n + 1) - 1 = b + n + 1 /\ b + 1 + (t - b) - 1 = t
  OBVIOUS
<1> QED
  BY <1>2, <1>3, <1>4, <1>5, <1>6, <1>7, <1>8

LEMMA FillKeeps ==
    ASSUME message \in Seq(Nat), total \in Nat, InProgress, Fill
    PROVE  ShaInv'
<1>1. PICK w, t, c, b : Cuts(w, t, c, b)
  BY HasCuts
<1>2. /\ w = Padded(message) /\ w \in Seq(Bytes) /\ t = total /\ t \in Nat /\ t <= Len(w)
      /\ c \in Nat /\ b \in Nat /\ c <= b /\ b <= t /\ b - c < BlockLen /\ IsMultiple(c)
      /\ compressed = SubSeq(w, 1, c) /\ buf = SubSeq(w, c + 1, b)
      /\ data = SubSeq(w, b + 1, t)
  BY <1>1 DEF Cuts
<1>3. Len(buf) = b - c /\ Len(data) = t - b
  <2>1. 0 \in 0 .. t - b
    BY <1>2
  <2> QED
    BY <1>2, <2>1, Slices3
<1>4. /\ stage' = <<stage[1], "blocks">> /\ UNCHANGED <<message, total, bits>>
      /\ stage' \in Stages /\ stage'[1] = stage[1] /\ stage'[2] = "blocks"
  BY DEF Fill, InProgress, Stages
<1>5. CASE buf = << >>
  <2>1. b = c
    <3>1. Len(buf) = 0
      BY <1>5
    <3> QED
      BY <1>2, <1>3, <3>1
  <2>2. UNCHANGED <<data, buf, compressed>>
    BY <1>5 DEF Fill
  <2>3. c \in 0 .. t /\ b \in 0 .. t
    BY <1>2
  <2> QED
    BY <1>2, <1>4, <2>1, <2>2, <2>3, RecutKeeps
<1>6. CASE buf # << >>
  <2>1. PICK n : n = IF Len(data) < BlockLen - Len(buf) THEN Len(data) ELSE BlockLen - Len(buf)
    OBVIOUS
  <2>2. PICK full : full = buf \o SubSeq(data, 1, n)
    OBVIOUS
  <2>3. /\ data' = SubSeq(data, n + 1, Len(data))
        /\ buf' = IF Len(full) = BlockLen THEN << >> ELSE full
        /\ compressed' = IF Len(full) = BlockLen THEN compressed \o full ELSE compressed
    BY <1>6, <2>1, <2>2 DEF Fill
  <2>4. /\ n \in Nat /\ n <= t - b /\ n <= BlockLen - (b - c)
        /\ n = t - b \/ n = BlockLen - (b - c)
    BY <1>2, <1>3, <2>1, BlockAssumption
  <2>5. PICK e \in Nat : e = b + n
    BY <1>2, <2>4
  <2>6. /\ e \in 0 .. t /\ e - c <= BlockLen /\ b <= e /\ c <= e /\ e <= t
        /\ e = t \/ e - c = BlockLen
        /\ n \in 0 .. t - b
    BY <1>2, <2>4, <2>5, BlockAssumption
  <2>7. SubSeq(data, 1, n) = SubSeq(w, b + 1, e) /\ data' = SubSeq(w, e + 1, t)
    <3>1. /\ SubSeq(data, 1, n) = SubSeq(w, b + 1, b + n)
          /\ SubSeq(data, n + 1, t - b) = SubSeq(w, b + n + 1, t)
      BY <1>2, <2>6, Slices3
    <3> QED
      BY <3>1, <1>3, <2>3, <2>5
  <2>8. full = SubSeq(w, c + 1, e) /\ Len(full) = e - c
    <3>1. e <= Len(w) /\ 0 \in 0 .. e - b /\ 0 \in 0 .. e - c /\ 0 \in 0 .. e - e /\ e <= e
      BY <1>2, <2>6
    <3>2. SubSeq(w, c + 1, b) \o SubSeq(w, b + 1, e) = SubSeq(w, c + 1, e)
      BY <1>2, <2>6, <3>1, Slices3, SMTT(30)
    <3>3. Len(SubSeq(w, c + 1, e)) = e - c
      BY <1>2, <2>6, <3>1, Slices3
    <3> QED
      BY <1>2, <2>2, <2>7, <3>2, <3>3
  <2>9. CASE e - c = BlockLen
    <3>1. buf' = << >> /\ compressed' = compressed \o full
      BY <2>3, <2>8, <2>9
    <3>2. compressed' = SubSeq(w, 1, e)
      <4>1. e <= Len(w)
        BY <1>2, <2>6
      <4>2. SubSeq(w, 1, c) \o SubSeq(w, c + 1, e) = SubSeq(w, 1, e)
        BY <1>2, <2>6, <4>1, Grows
      <4> QED
        BY <1>2, <2>8, <3>1, <4>2
    <3>3. IsMultiple(e)
      <4>1. e = c + BlockLen
        BY <1>2, <2>6, <2>9, BlockAssumption
      <4> QED
        BY <1>2, <4>1, NextMultiple
    <3>4. buf' = SubSeq(w, e + 1, e)
      BY <2>6, <3>1, SubSeqEmpty
    <3>5. e <= e /\ e - e < BlockLen
      BY BlockAssumption
    <3> QED
      BY <1>2, <1>4, <2>6, <2>7, <3>2, <3>3, <3>4, <3>5, RecutKeeps
  <2>10. CASE e - c # BlockLen
    <3>1. buf' = SubSeq(w, c + 1, e) /\ compressed' = SubSeq(w, 1, c)
      BY <1>2, <2>3, <2>8, <2>10
    <3>2. e = t /\ e - c < BlockLen /\ c <= e /\ c \in 0 .. t
      BY <1>2, <2>6, <2>10, BlockAssumption
    <3> QED
      BY <1>2, <1>4, <2>6, <2>7, <3>1, <3>2, RecutKeeps
  <2> QED
    BY <2>9, <2>10
<1> QED
  BY <1>5, <1>6

LEMMA BlockKeeps ==
    ASSUME message \in Seq(Nat), total \in Nat, InProgress, Block
    PROVE  ShaInv'
<1>1. PICK w, t, c, b : Cuts(w, t, c, b)
  BY HasCuts
<1>2. /\ w = Padded(message) /\ w \in Seq(Bytes) /\ t = total /\ t \in Nat /\ t <= Len(w)
      /\ c \in Nat /\ b \in Nat /\ c <= b /\ b <= t /\ b - c < BlockLen /\ IsMultiple(c)
      /\ compressed = SubSeq(w, 1, c) /\ buf = SubSeq(w, c + 1, b)
      /\ data = SubSeq(w, b + 1, t)
      /\ stage[2] = "blocks" => b = t \/ b = c
  BY <1>1 DEF Cuts
<1>3. Len(data) = t - b
  <2>1. 0 \in 0 .. t - b
    BY <1>2
  <2> QED
    BY <1>2, <2>1, Slices3
<1>4. /\ stage[2] = "blocks" /\ Len(data) >= BlockLen
      /\ compressed' = compressed \o SubSeq(data, 1, BlockLen)
      /\ data' = SubSeq(data, BlockLen + 1, Len(data))
      /\ UNCHANGED <<message, total, buf, bits, stage>> /\ stage' \in Stages
  BY DEF Block, InProgress
<1>5. BlockLen \in 0 .. t - b /\ b = c
  BY <1>2, <1>3, <1>4, BlockAssumption
<1>6. PICK e \in Nat : e = b + BlockLen
  BY <1>2, BlockAssumption
<1>7. e \in 0 .. t /\ b <= e /\ e <= t /\ e <= Len(w)
  BY <1>2, <1>5, <1>6
<1>8. SubSeq(data, 1, BlockLen) = SubSeq(w, b + 1, e) /\ data' = SubSeq(w, e + 1, t)
  <2>1. /\ SubSeq(data, 1, BlockLen) = SubSeq(w, b + 1, b + BlockLen)
        /\ SubSeq(data, BlockLen + 1, t - b) = SubSeq(w, b + BlockLen + 1, t)
    BY <1>2, <1>5, Slices3
  <2> QED
    BY <2>1, <1>3, <1>4, <1>6
<1>9. compressed' = SubSeq(w, 1, e)
  <2>1. SubSeq(w, 1, b) \o SubSeq(w, b + 1, e) = SubSeq(w, 1, e)
    BY <1>2, <1>7, Grows
  <2> QED
    BY <1>2, <1>4, <1>5, <1>8, <2>1
<1>10. buf' = SubSeq(w, e + 1, e)
  <2>1. buf' = << >>
    BY <1>2, <1>4, <1>5, SubSeqEmpty
  <2> QED
    BY <1>7, <2>1, SubSeqEmpty
<1>11. IsMultiple(e)
  BY <1>2, <1>5, <1>6, NextMultiple
<1>12. e <= e /\ e - e < BlockLen /\ stage'[2] = "blocks" /\ stage'[1] = stage[1]
  BY <1>4, BlockAssumption
<1> QED
  BY <1>2, <1>4, <1>7, <1>8, <1>9, <1>10, <1>11, <1>12, RecutKeeps

LEMMA KeepKeeps ==
    ASSUME message \in Seq(Nat), total \in Nat, InProgress, Keep
    PROVE  ShaInv'
<1>1. PICK w, t, c, b : Cuts(w, t, c, b)
  BY HasCuts
<1>2. /\ w = Padded(message) /\ w \in Seq(Bytes) /\ t = total /\ t \in Nat /\ t <= Len(w)
      /\ c \in Nat /\ b \in Nat /\ c <= b /\ b <= t /\ b - c < BlockLen /\ IsMultiple(c)
      /\ compressed = SubSeq(w, 1, c) /\ buf = SubSeq(w, c + 1, b)
      /\ data = SubSeq(w, b + 1, t)
      /\ stage[2] = "blocks" => b = t \/ b = c
  BY <1>1 DEF Cuts
<1>3. Len(data) = t - b
  <2>1. 0 \in 0 .. t - b
    BY <1>2
  <2> QED
    BY <1>2, <2>1, Slices3
<1>4. /\ stage[2] = "blocks" /\ Len(data) < BlockLen
      /\ buf' = IF data = << >> THEN buf ELSE data
      /\ data' = << >> /\ stage' = <<stage[1], "idle">>
      /\ UNCHANGED <<message, total, compressed, bits>>
      /\ stage' \in Stages /\ stage'[1] = stage[1] /\ stage'[2] = "idle"
  BY DEF Keep, InProgress, Stages
<1>5. buf' = SubSeq(w, c + 1, t) /\ t - c < BlockLen
  <2>1. CASE data = << >>
    <3>1. Len(data) = 0
      BY <2>1
    <3>2. b = t
      BY <3>1, <1>2, <1>3
    <3> QED
      BY <1>2, <1>4, <2>1, <3>2
  <2>2. CASE data # << >>
    <3>1. b # t
      BY <1>2, <2>2, SubSeqEmpty
    <3>2. b = c
      BY <1>2, <1>4, <3>1
    <3>3. buf' = data /\ t - c < BlockLen
      BY <1>3, <1>4, <2>2, <3>2
    <3> QED
      BY <1>2, <3>2, <3>3
  <2> QED
    BY <2>1, <2>2
<1>6. data' = SubSeq(w, t + 1, t)
  BY <1>2, <1>4, SubSeqEmpty
<1>7. c \in 0 .. t /\ t \in 0 .. t /\ c <= t /\ compressed' = SubSeq(w, 1, c)
  BY <1>2, <1>4
<1> QED
  BY <1>2, <1>4, <1>5, <1>6, <1>7, RecutKeeps

(* With room for the length alone, the padding has come to its end.         *)
LEMMA FinishLengthKeeps ==
    ASSUME message \in Seq(Nat), total \in Nat, InProgress, FinishLength
    PROVE  ShaInv'
<1> DEFINE n == Len(message)
<1>1. /\ stage = <<"padding", "idle">> /\ Len(buf) = BlockLen - LengthLen
      /\ compressed' = compressed \o buf \o BigEndian(bits)
      /\ stage' = <<"done", "idle">> /\ UNCHANGED <<message, total>>
  BY DEF FinishLength
<1>2. bits = 8 * n /\ total \in n + 1 .. BodyLen(message)
  BY <1>1 DEF InProgress, InSlices, InPadding
<1>3. PICK w, t, c, b : Cuts(w, t, c, b)
  BY HasCuts
<1>4. /\ BlockLen \in Nat \ {0} /\ LengthLen \in Nat \ {0} /\ LengthLen < BlockLen
      /\ n \in Nat /\ BodyLen(message) \in Nat /\ Len(w) = BodyLen(message) + LengthLen
      /\ w = Padded(message) /\ w \in Seq(Bytes) /\ total \in Nat /\ total <= Len(w)
      /\ c \in Nat /\ c <= total /\ IsMultiple(c)
      /\ compressed = SubSeq(w, 1, c) /\ buf = SubSeq(w, c + 1, total)
      /\ Len(buf) = total - c
  <2>1. /\ w = Padded(message) /\ w \in Seq(Bytes) /\ t = total /\ t \in Nat /\ t <= Len(w)
        /\ c \in Nat /\ b = t /\ c <= t /\ IsMultiple(c)
        /\ compressed = SubSeq(w, 1, c) /\ buf = SubSeq(w, c + 1, t)
    BY <1>1, <1>3 DEF Cuts
  <2>2. Len(SubSeq(w, c + 1, t)) = t - c
    BY <2>1, Grows
  <2>3. n \in Nat /\ BodyLen(message) \in Nat /\ Len(w) = BodyLen(message) + LengthLen
    BY <2>1, PaddedParts
  <2> QED
    BY <2>1, <2>2, <2>3, BlockAssumption
<1>5. total = BodyLen(message)
  <2>1. total + LengthLen = c + BlockLen
    BY <1>1, <1>4
  <2>2. IsMultiple(total + LengthLen)
    BY <2>1, <1>4, NextMultiple
  <2>3. /\ IsMultiple(BodyLen(message) + LengthLen)
        /\ BodyLen(message) - (n + 1) < BlockLen
    <3>1. IsMultiple(n + 1 + Zeros(n) + LengthLen) /\ Zeros(n) \in 0 .. BlockLen - 1
      BY <1>4, PaddingFits
    <3>2. BodyLen(message) = n + 1 + Zeros(n)
      BY DEF BodyLen
    <3>3. IsMultiple(BodyLen(message) + LengthLen)
      BY <3>1, <3>2
    <3>4. BodyLen(message) - (n + 1) < BlockLen
      BY <3>1, <3>2, <1>4
    <3> QED
      BY <3>3, <3>4
  <2>4. /\ total + LengthLen <= BodyLen(message) + LengthLen
        /\ (BodyLen(message) + LengthLen) - (total + LengthLen) < BlockLen
    <3>1. BodyLen(message) - (n + 1) < BlockLen
      BY <2>3
    <3>2. n + 1 <= total /\ total <= BodyLen(message)
      BY <1>2, <1>4
    <3> QED
      BY <3>1, <3>2, <1>4, SMTT(30)
  <2>5. total + LengthLen = BodyLen(message) + LengthLen
    <3>1. total + LengthLen \in Nat /\ BodyLen(message) + LengthLen \in Nat
      BY <1>4
    <3> QED
      BY <3>1, <2>2, <2>3, <2>4, MultiplesApart
  <2> QED
    BY <2>5, <1>4
<1>6. BigEndian(bits) = SubSeq(w, total + 1, Len(w))
  BY <1>2, <1>4, <1>5, PaddedEnds
<1>7. compressed \o buf = SubSeq(w, 1, total)
  BY <1>4, Grows
<1>8. SubSeq(w, 1, total) \o SubSeq(w, total + 1, Len(w)) = SubSeq(w, 1, Len(w))
  <2>1. Len(w) <= Len(w) /\ Len(w) \in Nat
    BY <1>4
  <2> QED
    BY <1>4, <2>1, Grows
<1>9. compressed' = Padded(message)'
  <2>1. SubSeq(w, 1, Len(w)) = w
    BY <1>4, SubSeqFull
  <2> QED
    BY <1>1, <1>4, <1>6, <1>7, <1>8, <2>1
<1> QED
  BY <1>1, <1>9 DEF ShaInv, Done

LEMMA ShaStep == ShaInv /\ [ShaNext]_shaVars => ShaInv'
<1>1. SUFFICES ASSUME ShaInv, [ShaNext]_shaVars PROVE ShaInv'
  OBVIOUS
<1>2. CASE UNCHANGED shaVars
  BY <1>1, <1>2 DEF ShaInv, InProgress, InSlices, InPadding, CutAt, Done, shaVars
<1>3. CASE ShaNext /\ Done
  BY <1>3 DEF Done, ShaNext, Update, Fill, Block, Keep, FinishOne, FinishZero, FinishLength
<1>4. CASE ShaNext /\ InProgress
  <2>1. message \in Seq(Nat) /\ total \in Nat
    BY <1>1 DEF ShaInv
  <2>2. CASE Update
    BY <1>4, <2>1, <2>2, UpdateKeeps
  <2>3. CASE Fill
    BY <1>4, <2>1, <2>3, FillKeeps
  <2>4. CASE Block
    BY <1>4, <2>1, <2>4, BlockKeeps
  <2>5. CASE Keep
    BY <1>4, <2>1, <2>5, KeepKeeps
  <2>6. CASE FinishOne
    BY <1>4, <2>1, <2>6, FinishOneKeeps
  <2>7. CASE FinishZero
    BY <1>4, <2>1, <2>7, FinishZeroKeeps
  <2>8. CASE FinishLength
    BY <1>4, <2>1, <2>8, FinishLengthKeeps
  <2> QED
    BY <1>4, <2>2, <2>3, <2>4, <2>5, <2>6, <2>7, <2>8 DEF ShaNext
<1> QED
  BY <1>1, <1>2, <1>3, <1>4 DEF ShaInv

LEMMA ShaInvDigest == ShaInv => DigestOfWhole
<1>1. SUFFICES ASSUME ShaInv PROVE DigestOfWhole
  OBVIOUS
<1>2. CASE Done
  BY <1>2 DEF Done, DigestOfWhole
<1>3. CASE InProgress
  <2>1. PICK w, t, c, b : Cuts(w, t, c, b)
    BY <1>1, <1>3, HasCuts DEF ShaInv
  <2>2. /\ w = Padded(message) /\ w \in Seq(Bytes) /\ t \in Nat /\ t <= Len(w)
        /\ c \in Nat /\ b \in Nat /\ c <= b /\ b <= t /\ 0 \in 0 .. t - b
        /\ compressed = SubSeq(w, 1, c) /\ buf = SubSeq(w, c + 1, b)
        /\ data = SubSeq(w, b + 1, t)
    BY <2>1 DEF Cuts
  <2>3. SubSeq(w, 1, c) \o SubSeq(w, c + 1, b) = SubSeq(w, 1, b)
    <3>1. b <= Len(w)
      BY <2>2
    <3> QED
      BY <2>2, <3>1, Grows
  <2>4. SubSeq(w, 1, b) \o SubSeq(w, b + 1, t) = SubSeq(w, 1, t)
    BY <2>2, Grows
  <2>5. Len(SubSeq(w, 1, t)) = t
    <3>1. 1 \in 1 .. Len(w) + 1 /\ t \in 1 - 1 .. Len(w) /\ t - 1 + 1 = t
      BY <2>2
    <3> QED
      BY <2>2, <3>1, Slice
  <2>6. stage[1] # "done"
    BY <1>3 DEF InProgress, InSlices, InPadding
  <2>7. compressed \o buf \o data = SubSeq(Padded(message), 1, t)
    BY <2>2, <2>3, <2>4
  <2> QED
    BY <2>2, <2>5, <2>6, <2>7 DEF DigestOfWhole
<1> QED
  BY <1>1, <1>2, <1>3 DEF ShaInv

---------------------------------------------------------------------------
LEMMA HashAlone == ShaSpec => []DigestOfWhole
<1>1. ShaInit => ShaInv
  BY InitInv
<1>2. ShaInv /\ [ShaNext]_shaVars => ShaInv'
  BY ShaStep
<1>3. ShaInv => DigestOfWhole
  BY ShaInvDigest
<1> QED
  BY <1>1, <1>2, <1>3, PTL DEF ShaSpec

(* However a caller of the hash cuts its input, what is compressed is the   *)
(* padded input from its first byte on, and all of it in the end: page and  *)
(* snapshot ids depend on the bytes alone.                                  *)
THEOREM HashesPaddedInput == Spec => []DigestOfWhole
<1>1. Init => ShaInit
  BY DEF Init
<1>2. [Next]_codecVars => [ShaNext]_shaVars
  BY DEF Next, codecVars, shaVars, Return, CallHash, CallWriteVarint, CallReadVarint,
         CallRecord, CallTruncated, CallManifest, CallOverlaid, CallDiff, CallStatus,
         CallTables
<1> QED
  BY <1>1, <1>2, HashAlone, PTL DEF Spec, ShaSpec

---------------------------------------------------------------------------
(* Sorting.  The place of a delta is the number of deltas that do not come  *)
(* after it: no two have the same, so that every place is taken.            *)

Before(D, d) == {e \in D : e.pgno <= d.pgno}
Place(D, d)  == Cardinality(Before(D, d))

IsDeltas(D) == /\ IsFiniteSet(D)
               /\ \A d \in D : d.pgno \in Nat
               /\ \A d, e \in D : d.pgno = e.pgno => d = e

LEMMA PlaceBounds ==
    ASSUME NEW D, IsDeltas(D), NEW d \in D
    PROVE  /\ IsFiniteSet(Before(D, d))
           /\ Place(D, d) \in 1 .. Cardinality(D) /\ Cardinality(D) \in Nat
<1>1. IsFiniteSet(D) /\ Cardinality(D) \in Nat
  BY FS_CardinalityType DEF IsDeltas
<1>2. Before(D, d) \subseteq D
  BY DEF Before
<1>3. IsFiniteSet(Before(D, d)) /\ Place(D, d) \in Nat /\ Place(D, d) <= Cardinality(D)
  BY <1>1, <1>2, FS_Subset, FS_CardinalityType DEF Place
<1>4. d \in Before(D, d)
  BY DEF IsDeltas, Before
<1>5. Place(D, d) # 0
  BY <1>3, <1>4, FS_EmptySet DEF Place
<1> QED
  BY <1>1, <1>3, <1>5

LEMMA PlaceMonotonic ==
    ASSUME NEW D, IsDeltas(D), NEW d \in D, NEW e \in D
    PROVE  d.pgno < e.pgno <=> Place(D, d) < Place(D, e)
<1>1. ASSUME NEW a \in D, NEW b \in D, a.pgno < b.pgno
      PROVE  Place(D, a) < Place(D, b)
  <2>1. a.pgno \in Nat /\ b.pgno \in Nat /\ \A x \in D : x.pgno \in Nat
    BY DEF IsDeltas
  <2>2. Before(D, a) \subseteq Before(D, b)
    BY <1>1, <2>1 DEF Before
  <2>3. b \in Before(D, b) /\ b \notin Before(D, a)
    BY <1>1, <2>1 DEF Before
  <2>4. IsFiniteSet(Before(D, b))
    BY PlaceBounds
  <2> QED
    BY <2>2, <2>3, <2>4, FS_Subset, FS_CardinalityType DEF Place
<1>2. d.pgno = e.pgno => d = e
  BY DEF IsDeltas
<1>3. d.pgno \in Nat /\ e.pgno \in Nat
  BY DEF IsDeltas
<1>4. Place(D, d) \in Nat /\ Place(D, e) \in Nat
  BY PlaceBounds
<1> QED
  BY <1>1, <1>2, <1>3, <1>4

LEMMA EveryPlaceTaken ==
    ASSUME NEW D, IsDeltas(D), NEW i \in 1 .. Cardinality(D)
    PROVE  \E d \in D : Place(D, d) = i
<1> DEFINE f == [d \in D |-> Place(D, d)]
           n == Cardinality(D)
           R == {f[d] : d \in D}
<1>1. IsFiniteSet(D) /\ n \in Nat
  BY FS_CardinalityType DEF IsDeltas
<1>2. f \in [D -> 1 .. n]
  BY PlaceBounds
<1>3. \A d, e \in D : f[d] = f[e] => d = e
  <2>1. SUFFICES ASSUME NEW d \in D, NEW e \in D, Place(D, d) = Place(D, e)
                 PROVE  d = e
    OBVIOUS
  <2>2. ~(d.pgno < e.pgno) /\ ~(e.pgno < d.pgno)
    <3>1. Place(D, d) \in Nat /\ Place(D, e) \in Nat
      BY PlaceBounds
    <3> QED
      BY <2>1, <3>1, PlaceMonotonic
  <2> QED
    BY <2>2 DEF IsDeltas
<1>4. f \in Bijection(D, R)
  <2> HIDE DEF f
  <2>1. f \in [D -> R]
    BY <1>2
  <2>2. f \in Surjection(D, R) /\ f \in Injection(D, R)
    BY <1>3, <2>1 DEF Surjection, Injection, IsInjective
  <2> QED
    BY <2>2 DEF Bijection
<1>5. IsFiniteSet(R) /\ Cardinality(R) = n
  BY <1>1, <1>4, FS_Bijection DEF ExistsBijection
<1>6. R \subseteq 1 .. n
  BY <1>2
<1>7. IsFiniteSet(1 .. n) /\ Cardinality(1 .. n) = n
  BY <1>1, FS_Interval
<1> HIDE DEF R, f
<1>8. R = 1 .. n
  BY <1>5, <1>6, <1>7, FS_Subset
<1> QED
  BY <1>8 DEF R, f

(* All deltas, in the order of their pages.                                 *)
LEMMA ByPageSorts ==
    ASSUME NEW D, IsDeltas(D)
    PROVE  /\ ByPage(D) \in Seq(D) /\ Len(ByPage(D)) = Cardinality(D)
           /\ \A i, j \in DOMAIN ByPage(D) :
                 i < j => ByPage(D)[i].pgno < ByPage(D)[j].pgno
           /\ \A d \in D : \E i \in DOMAIN ByPage(D) : ByPage(D)[i] = d
<1> DEFINE n == Cardinality(D)
           s == ByPage(D)
<1>1. n \in Nat
  BY FS_CardinalityType DEF IsDeltas
<1>2. s = [i \in 1 .. n |-> CHOOSE d \in D : Place(D, d) = i]
  BY DEF ByPage, Place, Before
<1> HIDE DEF s
<1>3. \A i \in 1 .. n : s[i] \in D /\ Place(D, s[i]) = i
  <2>1. SUFFICES ASSUME NEW i \in 1 .. n PROVE s[i] \in D /\ Place(D, s[i]) = i
    OBVIOUS
  <2>2. s[i] = CHOOSE d \in D : Place(D, d) = i
    BY <1>2
  <2> QED
    BY <2>2, EveryPlaceTaken
<1>4. s \in Seq(D) /\ Len(s) = n /\ DOMAIN s = 1 .. n
  <2>1. s \in [1 .. n -> D]
    BY <1>2, <1>3
  <2> QED
    BY <1>1, <2>1
<1>5. \A i, j \in 1 .. n : i < j => s[i].pgno < s[j].pgno
  BY <1>3, PlaceMonotonic
<1>6. \A d \in D : \E i \in 1 .. n : s[i] = d
  <2>1. SUFFICES ASSUME NEW d \in D PROVE s[Place(D, d)] = d
    BY PlaceBounds
  <2>2. Place(D, d) \in 1 .. n
    BY PlaceBounds
  <2>3. s[Place(D, d)] \in D /\ Place(D, s[Place(D, d)]) = Place(D, d)
    BY <1>3, <2>2
  <2>4. /\ ~(s[Place(D, d)].pgno < d.pgno) /\ ~(d.pgno < s[Place(D, d)].pgno)
    BY <2>2, <2>3, PlaceMonotonic
  <2> QED
    BY <2>3, <2>4 DEF IsDeltas
<1> QED
  BY <1>4, <1>5, <1>6 DEF s


---------------------------------------------------------------------------
(* Comparing hashes.                                                        *)

HasDelta(old, new, p, c) ==
    \/ c = "changed" /\ p \in DOMAIN old \cap DOMAIN new /\ old[p] # new[p]
    \/ c = "added"   /\ p \in DOMAIN new \ DOMAIN old
    \/ c = "removed" /\ p \in DOMAIN old \ DOMAIN new

LEMMA CommonPages ==
    ASSUME NEW m \in Nat, NEW n \in Nat
    PROVE  Min({m, n}) = IF m <= n THEN m ELSE n
BY DEF Min

LEMMA DeltaInjective ==
    ASSUME NEW p, NEW c, NEW q, NEW d
    PROVE  /\ Delta(p, c) = Delta(q, d) <=> p = q /\ c = d
           /\ Delta(p, c).pgno = p /\ Delta(p, c).change = c
BY DEF Delta

LEMMA DeltaIn ==
    ASSUME NEW p, NEW c, NEW P, NEW k
    PROVE  Delta(p, c) \in {Delta(i, k) : i \in P} <=> c = k /\ p \in P
<1>1. ASSUME Delta(p, c) \in {Delta(i, k) : i \in P}
      PROVE  c = k /\ p \in P
  <2>1. PICK i \in P : Delta(p, c) = Delta(i, k)
    BY <1>1
  <2> QED
    BY <2>1, DeltaInjective
<1>2. ASSUME c = k, p \in P
      PROVE  Delta(p, c) \in {Delta(i, k) : i \in P}
  BY <1>2
<1> QED
  BY <1>1, <1>2

LEMMA DeltasAre ==
    ASSUME NEW S, NEW T, NEW old \in Seq(S), NEW new \in Seq(T)
    PROVE  /\ \A p, c : Delta(p, c) \in Deltas(old, new) <=> HasDelta(old, new, p, c)
           /\ \A d \in Deltas(old, new) :
                 d = Delta(d.pgno, d.change) /\ d.pgno \in DOMAIN old \cup DOMAIN new
<1>1. PICK m : m = Min({Len(old), Len(new)})
  OBVIOUS
<1>2. /\ Len(old) \in Nat /\ Len(new) \in Nat /\ DOMAIN old = 1 .. Len(old)
      /\ DOMAIN new = 1 .. Len(new) /\ m = IF Len(old) <= Len(new) THEN Len(old) ELSE Len(new)
  BY <1>1, CommonPages
<1>3. /\ 1 .. m = DOMAIN old \cap DOMAIN new
      /\ m + 1 .. Len(new) = DOMAIN new \ DOMAIN old
      /\ m + 1 .. Len(old) = DOMAIN old \ DOMAIN new
  BY <1>2
<1>4. Deltas(old, new)
      = {Delta(i, "changed") : i \in {i \in 1 .. m : old[i] # new[i]}}
        \cup {Delta(i, "added") : i \in m + 1 .. Len(new)}
        \cup {Delta(i, "removed") : i \in m + 1 .. Len(old)}
  BY <1>1 DEF Deltas
<1>5. Deltas(old, new)
      = {Delta(i, "changed") : i \in {i \in DOMAIN old \cap DOMAIN new : old[i] # new[i]}}
        \cup {Delta(i, "added") : i \in DOMAIN new \ DOMAIN old}
        \cup {Delta(i, "removed") : i \in DOMAIN old \ DOMAIN new}
  BY <1>3, <1>4, Zenon
<1>6. ASSUME NEW p, NEW c
      PROVE  Delta(p, c) \in Deltas(old, new) <=> HasDelta(old, new, p, c)
  <2>1. Delta(p, c) \in {Delta(i, "changed") : i \in {i \in DOMAIN old \cap DOMAIN new :
                                                         old[i] # new[i]}}
        <=> c = "changed" /\ p \in DOMAIN old \cap DOMAIN new /\ old[p] # new[p]
    <3>1. PICK Q : Q = {i \in DOMAIN old \cap DOMAIN new : old[i] # new[i]}
      OBVIOUS
    <3>2. Delta(p, c) \in {Delta(i, "changed") : i \in Q} <=> c = "changed" /\ p \in Q
      BY DeltaIn
    <3>3. p \in Q <=> p \in DOMAIN old \cap DOMAIN new /\ old[p] # new[p]
      BY <3>1
    <3> QED
      BY <3>1, <3>2, <3>3, Zenon
  <2>2. Delta(p, c) \in {Delta(i, "added") : i \in DOMAIN new \ DOMAIN old}
        <=> c = "added" /\ p \in DOMAIN new \ DOMAIN old
    BY DeltaIn
  <2>3. Delta(p, c) \in {Delta(i, "removed") : i \in DOMAIN old \ DOMAIN new}
        <=> c = "removed" /\ p \in DOMAIN old \ DOMAIN new
    BY DeltaIn
  <2> QED
    BY <1>5, <2>1, <2>2, <2>3, Zenon DEF HasDelta
<1>7. ASSUME NEW d \in Deltas(old, new)
      PROVE  d = Delta(d.pgno, d.change) /\ d.pgno \in DOMAIN old \cup DOMAIN new
  <2>1. \E p \in DOMAIN old \cup DOMAIN new : \E c : d = Delta(p, c)
    BY <1>5, Zenon
  <2> QED
    BY <2>1, DeltaInjective
<1> QED
  BY <1>6, <1>7

LEMMA DeltasSortable ==
    ASSUME NEW S, NEW T, NEW old \in Seq(S), NEW new \in Seq(T)
    PROVE  IsDeltas(Deltas(old, new))
<1> DEFINE D == Deltas(old, new)
           P == DOMAIN old \cup DOMAIN new
<1>1. \A d \in D : d = Delta(d.pgno, d.change) /\ d.pgno \in P
  BY DeltasAre
<1>2. \A p, c : Delta(p, c) \in D <=> HasDelta(old, new, p, c)
  BY DeltasAre
<1>3. P \subseteq Nat /\ IsFiniteSet(P)
  <2>1. /\ DOMAIN old = 1 .. Len(old) /\ Len(old) \in Nat
        /\ DOMAIN new = 1 .. Len(new) /\ Len(new) \in Nat
    OBVIOUS
  <2>2. IsFiniteSet(1 .. Len(old)) /\ IsFiniteSet(1 .. Len(new))
    BY <2>1, FS_Interval
  <2>3. IsFiniteSet(DOMAIN old) /\ IsFiniteSet(DOMAIN new)
    BY <2>1, <2>2
  <2>4. IsFiniteSet(DOMAIN old \cup DOMAIN new)
    BY <2>3, FS_Union, Zenon
  <2> QED
    BY <2>1, <2>4
<1> HIDE DEF D, P
<1>4. ASSUME NEW d \in D, NEW e \in D, d.pgno = e.pgno
      PROVE  d = e
  <2>1. /\ HasDelta(old, new, d.pgno, d.change) /\ HasDelta(old, new, e.pgno, e.change)
        /\ d = Delta(d.pgno, d.change) /\ e = Delta(e.pgno, e.change)
    BY <1>1, <1>2, Zenon
  <2>2. d.change = e.change
    BY <1>4, <2>1 DEF HasDelta
  <2> QED
    BY <1>4, <2>1, <2>2
<1>5. IsFiniteSet(D)
  <2> DEFINE f == [d \in D |-> d.pgno]
  <2>1. f \in [D -> P] /\ \A d, e \in DOMAIN f : f[d] = f[e] => d = e
    BY <1>1, <1>4
  <2>2. f \in Injection(D, P)
    BY <2>1 DEF Injection, IsInjective
  <2> QED
    BY <1>3, <2>2, FS_Injection
<1> QED
  BY <1>1, <1>3, <1>4, <1>5 DEF IsDeltas, D

Told(deltas, p, c) == \E i \in DOMAIN deltas : deltas[i].pgno = p /\ deltas[i].change = c

LEMMA DiffTells ==
    ASSUME NEW S, NEW T, NEW old \in Seq(S), NEW new \in Seq(T)
    PROVE  /\ \A p, c : Told(DiffHashes(old, new), p, c) <=> HasDelta(old, new, p, c)
           /\ \A i, j \in DOMAIN DiffHashes(old, new) :
                 i < j => DiffHashes(old, new)[i].pgno < DiffHashes(old, new)[j].pgno
           /\ DiffHashes(old, new) \in Seq(Deltas(old, new))
<1> DEFINE D == Deltas(old, new)
           s == DiffHashes(old, new)
<1>1. /\ s \in Seq(D)
      /\ \A i, j \in DOMAIN s : i < j => s[i].pgno < s[j].pgno
      /\ \A d \in D : \E i \in DOMAIN s : s[i] = d
  BY DeltasSortable, ByPageSorts DEF DiffHashes
<1>2. \A p, c : Delta(p, c) \in D <=> HasDelta(old, new, p, c)
  BY DeltasAre
<1>3. \A d \in D : d = Delta(d.pgno, d.change)
  BY DeltasAre
<1> HIDE DEF D, s
<1>4. \A i \in DOMAIN s : s[i] \in D
  BY <1>1
<1>5. ASSUME NEW p, NEW c
      PROVE  Told(s, p, c) <=> Delta(p, c) \in D
  <2>1. ASSUME Told(s, p, c) PROVE Delta(p, c) \in D
    <3>1. PICK i \in DOMAIN s : s[i].pgno = p /\ s[i].change = c
      BY <2>1 DEF Told
    <3> QED
      BY <3>1, <1>3, <1>4
  <2>2. ASSUME Delta(p, c) \in D PROVE Told(s, p, c)
    <3>1. PICK i \in DOMAIN s : s[i] = Delta(p, c)
      BY <2>2, <1>1
    <3> QED
      BY <3>1, DeltaInjective DEF Told
  <2> QED
    BY <2>1, <2>2
<1> QED
  BY <1>1, <1>2, <1>5 DEF s, D

(* A call that is over has returned what the function returns.              *)
Returned ==
    /\ call \in Calls
    /\ Over("write_varint") => result = ReadVarint(WriteVarint(call.value) \o call.rest)
    /\ Over("read_varint") => result = ReadVarint(call.buf)
    /\ Over("record") => result = DecodeRecord(SqliteRecord(call.columns) \o call.rest)
    /\ Over("truncated") =>
         LET record == SqliteRecord(call.columns)
         IN  result = UNION {DecodeRecord(SubSeq(record, 1, n)) : n \in 0 .. Len(record) - 1}
    /\ Over("diff") => result = DiffSources(call.old, call.new)
    /\ Over("status") => result = {Status(call.head, call.file)}
    /\ Over("tables") => result = PrintTables(call.file)
    /\ Over("manifest") => result = ParseManifest(ManifestText(call.manifest))
    /\ Over("overlaid") =>
         result = ParseManifest(Overlaid(ManifestText(call.first), ManifestText(call.last)))

LEMMA ReturnedAlways == Spec => []Returned
<1>1. Init => Returned
  BY DEF Init, Returned, Over
<1>2. ASSUME Returned, [Next]_codecVars
      PROVE  Returned'
  <2>1. CASE UNCHANGED codecVars
    BY <1>2, <2>1 DEF Returned, Over, codecVars
  <2>2. CASE CallHash
    BY <1>2, <2>2 DEF Returned, Over, CallHash
  <2>3. CASE CallDiff
    BY <1>2, <2>3 DEF Returned, Over, CallDiff, Return
  <2>4. CASE CallStatus
    BY <1>2, <2>4 DEF Returned, Over, CallStatus, Return
  <2>5. CASE CallWriteVarint
    BY <1>2, <2>5 DEF Returned, Over, CallWriteVarint, Return
  <2>6. CASE CallReadVarint
    BY <1>2, <2>6 DEF Returned, Over, CallReadVarint, Return
  <2>7. CASE CallTables
    BY <1>2, <2>7 DEF Returned, Over, CallTables, Return
  <2>8. CASE CallRecord
    BY <1>2, <2>8 DEF Returned, Over, CallRecord, Return
  <2>9. CASE CallTruncated
    BY <1>2, <2>9 DEF Returned, Over, CallTruncated, Return
  <2>10. CASE CallManifest
    BY <1>2, <2>10 DEF Returned, Over, CallManifest, Return
  <2>11. CASE CallOverlaid
    BY <1>2, <2>11 DEF Returned, Over, CallOverlaid, Return
  <2> QED
    BY <1>2, <2>1, <2>2, <2>3, <2>4, <2>5, <2>6, <2>7, <2>8, <2>9, <2>10, <2>11 DEF Next
<1> QED
  BY <1>1, <1>2, PTL DEF Spec

LEMMA DiffPatches ==
    ASSUME NEW S, NEW T, NEW old \in Seq(S), NEW new \in Seq(T)
    PROVE  IsPatch(DiffHashes(old, new), old, new)
<1> DEFINE s == DiffHashes(old, new)
           told(p, cs) == \E i \in DOMAIN s : s[i].pgno = p /\ s[i].change \in cs
<1>1. /\ \A p, c : Told(s, p, c) <=> HasDelta(old, new, p, c)
      /\ \A i, j \in DOMAIN s : i < j => s[i].pgno < s[j].pgno
  BY DiffTells
<1> HIDE DEF s
<1>2. ASSUME NEW p, NEW c PROVE told(p, {c}) <=> HasDelta(old, new, p, c)
  <2>1. told(p, {c}) <=> Told(s, p, c)
    BY DEF Told
  <2> QED
    BY <1>1, <2>1, Zenon
<1> HIDE DEF told
<1>3. DOMAIN new \subseteq 1 .. 2 * Len(new)
  <2>1. DOMAIN new = 1 .. Len(new) /\ Len(new) \in Nat
    OBVIOUS
  <2> QED
    BY <2>1
<1>4. \A p : ~told(p, {"removed"}) <=> ~(p \in DOMAIN old \ DOMAIN new)
  <2>1. \A p : HasDelta(old, new, p, "removed") <=> p \in DOMAIN old \ DOMAIN new
    BY DEF HasDelta
  <2> QED
    BY <1>2, <2>1, Zenon
<1>5. \A p : told(p, {"added"}) <=> p \in DOMAIN new \ DOMAIN old
  <2>1. \A p : HasDelta(old, new, p, "added") <=> p \in DOMAIN new \ DOMAIN old
    BY DEF HasDelta
  <2> QED
    BY <1>2, <2>1, Zenon
<1>6. \A p \in DOMAIN old \cap DOMAIN new : old[p] # new[p] <=> told(p, {"changed"})
  BY <1>2 DEF HasDelta
<1>7. DOMAIN new = {p \in DOMAIN old : ~told(p, {"removed"})}
                   \cup {p \in 1 .. 2 * Len(new) : told(p, {"added"})}
  BY <1>3, <1>4, <1>5
<1>8. /\ \A i, j \in DOMAIN s : i < j => s[i].pgno < s[j].pgno
      /\ DOMAIN new = {p \in DOMAIN old : ~told(p, {"removed"})}
                      \cup {p \in 1 .. 2 * Len(new) : told(p, {"added"})}
      /\ \A p \in DOMAIN old \cap DOMAIN new : old[p] # new[p] <=> told(p, {"changed"})
  BY <1>1, <1>6, <1>7
<1> QED
  BY <1>8 DEF told, s, IsPatch

LEMMA ReturnedIsPatch == Returned => DiffIsPatch
<1>1. SUFFICES ASSUME Returned, Over("diff"), NEW report \in result
               PROVE  IsPatch(report.deltas, call.old.hashes, call.new.hashes)
  BY DEF DiffIsPatch
<1>2. call \in Calls /\ call.op = "diff" /\ result = DiffSources(call.old, call.new)
  BY <1>1 DEF Returned, Over
<1>3. IsState(call.old) /\ IsState(call.new)
  BY <1>2, CallsAssumption
<1>4. report.deltas = DiffHashes(call.old.hashes, call.new.hashes)
  BY <1>1, <1>2 DEF DiffSources
<1> QED
  BY <1>3, <1>4, DiffPatches DEF IsState

(* The pages diff reports are all that changed, for states of any length:   *)
(* each page once and in order, and with them the old state gives the new.  *)
THEOREM DiffPatchesOld == Spec => []DiffIsPatch
BY ReturnedAlways, ReturnedIsPatch, PTL

---------------------------------------------------------------------------
(* Nothing to report is nothing changed.                                    *)

LEMMA DiffIsEmpty ==
    ASSUME NEW S, NEW T, NEW old \in Seq(S), NEW new \in Seq(T)
    PROVE  /\ Len(DiffHashes(old, new)) \in Nat
           /\ Len(DiffHashes(old, new)) = 0 <=> old = new
<1> DEFINE s == DiffHashes(old, new)
<1>1. /\ \A p, c : Told(s, p, c) <=> HasDelta(old, new, p, c)
      /\ s \in Seq(Deltas(old, new))
  BY DiffTells
<1> HIDE DEF s
<1>2. Len(s) \in Nat /\ DOMAIN s = 1 .. Len(s)
  BY <1>1
<1>3. ASSUME Len(s) = 0 PROVE old = new
  <2>1. \A p, c : ~HasDelta(old, new, p, c)
    BY <1>1, <1>2, <1>3 DEF Told
  <2>2. DOMAIN old = DOMAIN new /\ \A p \in DOMAIN old : old[p] = new[p]
    BY <2>1 DEF HasDelta
  <2> QED
    BY <2>2
<1>4. ASSUME Len(s) # 0 PROVE old # new
  <2>1. 1 \in DOMAIN s
    BY <1>2, <1>4
  <2>2. Told(s, s[1].pgno, s[1].change)
    BY <2>1 DEF Told
  <2>3. HasDelta(old, new, s[1].pgno, s[1].change)
    BY <1>1, <2>2, Zenon
  <2> QED
    BY <2>3 DEF HasDelta
<1> QED
  BY <1>2, <1>3, <1>4 DEF s

LEMMA ReturnedAgrees == Returned => StatusAgrees
<1>1. SUFFICES ASSUME Returned, Over("status"), NEW s \in result
               PROVE  s.dirty <=> s.changed > 0 \/ NothingToCount(call.head, call.file)
  BY DEF StatusAgrees
<1> DEFINE head == call.head
           file == call.file
           dirty == \A h \in head : <<h.size, h.hashes>> # <<file.size, file.hashes>>
<1>2. call \in Calls /\ call.op = "status" /\ s = Status(head, file)
  BY <1>1 DEF Returned, Over
<1>3. /\ IsState(file) /\ \A g, h \in head : g = h
      /\ \A h \in head : IsState(h) /\ PagesTellSize(h, file)
  BY <1>2, CallsAssumption
<1>4. file.hashes \in Seq(Range(file.hashes))
  BY <1>3 DEF IsState
<1>5. CASE head = {}
  <2>1. s.dirty /\ s.changed = Len(file.hashes)
    BY <1>2, <1>5 DEF Status
  <2>2. Len(file.hashes) \in Nat /\ (Len(file.hashes) = 0 <=> file.hashes = << >>)
    BY <1>4
  <2>3. NothingToCount(head, file) <=> file.hashes = << >>
    BY <1>5 DEF NothingToCount
  <2> QED
    BY <2>1, <2>2, <2>3
<1>6. CASE head # {}
  <2>1. PICK h : h = CHOOSE g \in head : TRUE
    OBVIOUS
  <2>2. h \in head /\ IsState(h) /\ PagesTellSize(h, file) /\ \A g \in head : g = h
    BY <1>3, <1>6, <2>1
  <2>3. s.changed = Len(DiffHashes(h.hashes, file.hashes))
    BY <1>2, <1>6, <2>1 DEF Status
  <2>4. /\ Len(DiffHashes(h.hashes, file.hashes)) \in Nat
        /\ Len(DiffHashes(h.hashes, file.hashes)) = 0 <=> h.hashes = file.hashes
    BY <1>4, <2>2, DiffIsEmpty DEF IsState
  <2>5. h.hashes = file.hashes /\ file.hashes # << >> => h.size = file.size
    <3>1. SUFFICES ASSUME h.hashes = file.hashes, file.hashes # << >>
                   PROVE  h.size = file.size
      OBVIOUS
    <3>2. 1 \in DOMAIN file.hashes
      BY <1>4, <3>1
    <3> QED
      BY <2>2, <3>1, <3>2 DEF PagesTellSize
  <2>6. s.dirty <=> h.hashes # file.hashes \/ h.size # file.size
    <3>1. s.dirty <=> <<h.size, h.hashes>> # <<file.size, file.hashes>>
      BY <1>2, <2>2 DEF Status
    <3> QED
      BY <3>1
  <2>7. NothingToCount(head, file) <=>
          file.hashes = << >> /\ h.hashes = << >> /\ h.size # file.size
    BY <2>2 DEF NothingToCount
  <2> QED
    BY <2>3, <2>4, <2>5, <2>6, <2>7
<1> QED
  BY <1>5, <1>6

(* status calls a file dirty exactly when it counts a page that differs, as *)
(* long as pages of different sizes have different hashes: the id and the   *)
(* pages cannot disagree, but about a file of no pages.                     *)
THEOREM StatusTellsPages == Spec => []StatusAgrees
BY ReturnedAlways, ReturnedAgrees, PTL

---------------------------------------------------------------------------
(* Induction, for a set of numbers: the least number outside would have a   *)
(* predecessor inside.                                                      *)
LEMMA NatInd ==
    ASSUME NEW S, 0 \in S, \A n \in Nat : n \in S => n + 1 \in S
    PROVE  Nat \subseteq S
<1> DEFINE Out == Nat \ S
<1> SUFFICES ASSUME Out # {} PROVE FALSE
  OBVIOUS
<1>1. Out \subseteq Nat
  OBVIOUS
<1>2. PICK m \in Out : \A k \in Out : ~ (<<k, m>> \in OpToRel(<, Nat))
  BY <1>1, NatLessThanWellFounded, WFMin, Zenon
<1>3. \A k \in Out : ~ (k < m)
  BY <1>1, <1>2 DEF OpToRel
<1>4. m \in Nat /\ m \notin S /\ m # 0
  OBVIOUS
<1>5. m - 1 \in Nat /\ m - 1 \in S
  BY <1>3, <1>4
<1> QED
  BY <1>4, <1>5

---------------------------------------------------------------------------
(* Powers.                                                                  *)

(* The powers up to the m-th. *)
Powers(b, m) ==
    {w \in [0 .. m -> Int] : w[0] = 1 /\ \A n \in 0 .. m - 1 : w[n + 1] = b * w[n]}

LEMMA PowersExist ==
    ASSUME NEW b \in Int, NEW m \in Nat
    PROVE  Powers(b, m) # {}
<1> DEFINE S == {k \in Nat : Powers(b, k) # {}}
<1>1. 0 \in S
  <2>1. [n \in 0 .. 0 |-> 1] \in Powers(b, 0)
    BY DEF Powers
  <2> QED
    BY <2>1
<1>2. ASSUME NEW k \in Nat, k \in S
      PROVE  k + 1 \in S
  <2>1. PICK w \in Powers(b, k) : TRUE
    BY <1>2
  <2> DEFINE v == [n \in 0 .. k + 1 |-> IF n = k + 1 THEN b * w[k] ELSE w[n]]
  <2>2. /\ w \in [0 .. k -> Int] /\ w[0] = 1
        /\ \A n \in 0 .. k - 1 : w[n + 1] = b * w[n]
    BY DEF Powers
  <2>3. v \in [0 .. k + 1 -> Int]
    BY <2>2
  <2>4. v[0] = 1 /\ \A n \in 0 .. k : v[n + 1] = b * v[n]
    <3>1. v[0] = 1
      BY <2>2
    <3>2. ASSUME NEW n \in 0 .. k PROVE v[n + 1] = b * v[n]
      <4>1. CASE n = k
        BY <4>1
      <4>2. CASE n # k
        <5>1. n \in 0 .. k - 1 /\ n + 1 \in 0 .. k + 1 /\ n + 1 # k + 1 /\ n \in 0 .. k + 1
          BY <4>2
        <5> QED
          BY <2>2, <5>1, <4>2
      <4> QED
        BY <4>1, <4>2
    <3> QED
      BY <3>1, <3>2
  <2>5. v \in Powers(b, k + 1)
    BY <2>3, <2>4 DEF Powers
  <2> QED
    BY <2>5
<1>3. Nat \subseteq S
  <2> HIDE DEF S
  <2> QED BY <1>1, <1>2, NatInd
<1> QED
  BY <1>3

LEMMA PowersAgree ==
    ASSUME NEW b \in Int, NEW k \in Nat, NEW m \in Nat,
           NEW v \in Powers(b, k), NEW w \in Powers(b, m),
           NEW n \in 0 .. k, n <= m
    PROVE  v[n] = w[n]
<1> DEFINE S == {i \in Nat : i <= k /\ i <= m => v[i] = w[i]}
<1>1. /\ v[0] = 1 /\ \A i \in 0 .. k - 1 : v[i + 1] = b * v[i]
      /\ w[0] = 1 /\ \A i \in 0 .. m - 1 : w[i + 1] = b * w[i]
  BY DEF Powers
<1>2. 0 \in S
  BY <1>1
<1>3. ASSUME NEW i \in Nat, i \in S
      PROVE  i + 1 \in S
  BY <1>1, <1>3
<1>4. Nat \subseteq S
  <2> HIDE DEF S
  <2> QED BY <1>2, <1>3, NatInd
<1> QED
  BY <1>4

LEMMA PowerIs ==
    ASSUME NEW b \in Int
    PROVE  /\ Power(b)[0] = 1
           /\ \A n \in Nat : Power(b)[n] \in Int /\ Power(b)[n + 1] = b * Power(b)[n]
<1> DEFINE Step(w, n) == IF n = 0 THEN 1 ELSE b * w[n - 1]
           w(m) == CHOOSE w \in Powers(b, m) : TRUE
           p == [n \in Nat |-> w(n)[n]]
<1>1. \A m \in Nat : w(m) \in Powers(b, m)
  BY PowersExist
<1>2. \A m \in Nat : /\ w(m) \in [0 .. m -> Int] /\ w(m)[0] = 1
                     /\ \A n \in 0 .. m - 1 : w(m)[n + 1] = b * w(m)[n]
  BY <1>1 DEF Powers
<1>3. \A m \in Nat : w(m + 1)[m] = w(m)[m]
  <2> SUFFICES ASSUME NEW m \in Nat PROVE w(m + 1)[m] = w(m)[m]
    OBVIOUS
  <2>1. w(m + 1) \in Powers(b, m + 1) /\ w(m) \in Powers(b, m)
    BY <1>1
  <2> HIDE DEF w
  <2> QED
    BY <2>1, PowersAgree
<1> HIDE DEF w
<1>4. p[0] = 1 /\ \A n \in Nat : p[n] \in Int /\ p[n + 1] = b * p[n]
  <2>1. p[0] = 1
    BY <1>2
  <2>2. ASSUME NEW n \in Nat PROVE p[n] \in Int /\ p[n + 1] = b * p[n]
    <3>1. p[n] = w(n)[n] /\ p[n + 1] = w(n + 1)[n + 1]
      OBVIOUS
    <3>2. w(n)[n] \in Int
      BY <1>2
    <3>3. w(n + 1)[n + 1] = b * w(n + 1)[n]
      BY <1>2
    <3> QED
      BY <1>3, <3>1, <3>2, <3>3
  <2> QED
    BY <2>1, <2>2
<1>5. \A n \in Nat : p[n] = Step(p, n)
  <2> SUFFICES ASSUME NEW n \in Nat PROVE p[n] = Step(p, n)
    OBVIOUS
  <2>1. CASE n = 0
    BY <2>1, <1>4
  <2>2. CASE n # 0
    <3>1. n - 1 \in Nat /\ n = (n - 1) + 1
      BY <2>2
    <3>2. p[(n - 1) + 1] = b * p[n - 1]
      BY <1>4, <3>1
    <3> QED BY <2>2, <3>1, <3>2
  <2> QED BY <2>1, <2>2
<1>6. p = [n \in Nat |-> Step(p, n)]
  <2> HIDE DEF Step
  <2> QED BY <1>5
<1> DEFINE P == CHOOSE q : q = [n \in Nat |-> Step(q, n)]
<1>7. Power(b) = P
  BY DEF Power
<1> HIDE DEF p
<1>8. P = [n \in Nat |-> Step(P, n)]
  BY <1>6, Zenon
<1> HIDE DEF P
<1>9. \A n \in Nat : P[n] = Step(P, n)
  <2> HIDE DEF Step
  <2> QED BY <1>8
<1>10. P[0] = 1 /\ \A n \in Nat : P[n + 1] = b * P[n]
  BY <1>9
<1> DEFINE S == {n \in Nat : P[n] \in Int}
<1>11. 0 \in S
  BY <1>10
<1>12. ASSUME NEW n \in Nat, n \in S
       PROVE  n + 1 \in S
  BY <1>10, <1>12
<1>13. Nat \subseteq S
  <2> HIDE DEF S
  <2> QED BY <1>11, <1>12, NatInd
<1> QED
  BY <1>7, <1>10, <1>13

LEMMA PowerGrows ==
    ASSUME NEW b \in Nat \ {0}, NEW n \in Nat
    PROVE  /\ Power(b)[n] \in Nat \ {0}
           /\ \A m \in 0 .. n : Power(b)[m] <= Power(b)[n]
<1> DEFINE P == Power(b)
           Good(k) == P[k] \in Nat \ {0} /\ \A m \in 0 .. k : P[m] <= P[k]
           S == {k \in Nat : Good(k)}
<1>1. P[0] = 1 /\ \A k \in Nat : P[k] \in Int /\ P[k + 1] = b * P[k]
  BY PowerIs
<1> HIDE DEF P
<1>2. 0 \in S
  BY <1>1
<1>3. ASSUME NEW k \in Nat, k \in S
      PROVE  k + 1 \in S
  <2>1. P[k] \in Nat \ {0} /\ \A m \in 0 .. k : P[m] <= P[k]
    BY <1>3
  <2>2. P[k + 1] = b * P[k] /\ P[k + 1] \in Int
    BY <1>1
  <2>3. b * P[k] >= P[k]
    <3>1. b * P[k] = (b - 1) * P[k] + P[k] /\ (b - 1) * P[k] >= 0
      BY <2>1
    <3> QED
      BY <2>1, <3>1
  <2>4. \A m \in 0 .. k + 1 : P[m] <= P[k + 1]
    <3> SUFFICES ASSUME NEW m \in 0 .. k + 1 PROVE P[m] <= P[k + 1]
      OBVIOUS
    <3>1. CASE m = k + 1
      BY <3>1, <2>2
    <3>2. CASE m # k + 1
      <4>1. m \in 0 .. k /\ P[m] \in Int
        BY <3>2, <1>1
      <4> QED
        BY <4>1, <2>1, <2>2, <2>3
    <3> QED BY <3>1, <3>2
  <2> QED
    BY <2>1, <2>2, <2>3, <2>4
<1>4. Nat \subseteq S
  <2> HIDE DEF S
  <2> QED BY <1>2, <1>3, NatInd
<1>5. Good(n)
  BY <1>4
<1> QED
  BY <1>5 DEF P

(* Quotients are unique. *)
LEMMA DivIs ==
    ASSUME NEW v \in Int, NEW d \in Nat \ {0}, NEW q \in Int, NEW r \in 0 .. d - 1,
           v = d * q + r
    PROVE  v \div d = q /\ v % d = r
<1> DEFINE x == v \div d
           y == v % d
<1>1. x \in Int /\ y \in 0 .. d - 1 /\ v = d * x + y
  OBVIOUS
<1> HIDE DEF x, y
<1>2. d * (x - q) = r - y
  BY <1>1
<1>3. ~ (x - q >= 1)
  <2> SUFFICES ASSUME x - q >= 1 PROVE FALSE
    OBVIOUS
  <2>1. d * (x - q) >= d
    BY <1>1
  <2> QED BY <1>1, <1>2, <2>1
<1>4. ~ (x - q <= -1)
  <2> SUFFICES ASSUME x - q <= -1 PROVE FALSE
    OBVIOUS
  <2>1. d * (x - q) <= -d
    BY <1>1
  <2> QED BY <1>1, <1>2, <2>1
<1>5. x = q
  BY <1>1, <1>3, <1>4
<1>6. y = r
  BY <1>1, <1>5
<1> QED
  BY <1>5, <1>6 DEF x, y

LEMMA SmallMod ==
    ASSUME NEW b \in Nat \ {0}, NEW y \in 0 .. b - 1
    PROVE  y % b = y /\ (y + b) % b = y
<1>1. /\ y = b * 0 + y /\ y + b = b * 1 + y
      /\ y \in Int /\ y + b \in Int /\ 0 \in Int /\ 1 \in Int
  OBVIOUS
<1>2. y % b = y
  BY <1>1, DivIs, Zenon
<1>3. (y + b) % b = y
  BY <1>1, DivIs, Zenon
<1> QED
  BY <1>2, <1>3

LEMMA DivDiv ==
    ASSUME NEW v \in Int, NEW p \in Nat \ {0}, NEW b \in Nat \ {0}
    PROVE  (v \div p) \div b = v \div (b * p)
<1> DEFINE q == v \div p
           r == v % p
           s == q \div b
           t == q % b
<1>1. q \in Int /\ r \in 0 .. p - 1 /\ v = p * q + r
  OBVIOUS
<1>2. s \in Int /\ t \in 0 .. b - 1 /\ q = b * s + t
  BY <1>1
<1> HIDE DEF q, r, s, t
<1>3. v = (b * p) * s + (p * t + r)
  <2>1. p * q = p * (b * s) + p * t
    BY <1>1, <1>2
  <2>2. p * (b * s) = (b * p) * s
    BY <1>2
  <2> QED BY <1>1, <1>2, <2>1, <2>2
<1>4. p * t + r \in 0 .. b * p - 1
  <2>1. p * t <= p * (b - 1) /\ p * t >= 0
    BY <1>2
  <2>2. p * (b - 1) = b * p - p
    OBVIOUS
  <2> QED BY <1>1, <1>2, <2>1, <2>2
<1>5. b * p \in Nat \ {0}
  OBVIOUS
<1>6. v \div (b * p) = s
  <2> DEFINE d == b * p
             e == p * t + r
  <2>1. d \in Nat \ {0} /\ e \in 0 .. d - 1 /\ v = d * s + e
    BY <1>3, <1>4, <1>5
  <2> HIDE DEF d, e
  <2>2. v \div d = s
    BY <2>1, <1>2, DivIs
  <2> QED BY <2>2 DEF d
<1> QED
  BY <1>6 DEF s, q

---------------------------------------------------------------------------
(* What is shifted in, byte by byte.                                        *)

LEMMA ShiftedStep ==
    ASSUME NEW b, NEW bytes, Len(bytes) \in Nat
    PROVE  /\ Shifted(b, bytes)[0] = 0
           /\ \A n \in 1 .. Len(bytes) :
                Shifted(b, bytes)[n] = b * Shifted(b, bytes)[n - 1] + (bytes[n] % b)
<1> DEFINE Step(w, n) == IF n = 0 THEN 0 ELSE b * w[n - 1] + (bytes[n] % b)
           Far == {m \in Nat : \E w : w = [n \in 0 .. m |-> Step(w, n)]}
           value == CHOOSE w : w = [n \in 0 .. Len(bytes) |-> Step(w, n)]
<1>1. 0 \in Far
  <2> DEFINE w == [n \in 0 .. 0 |-> 0]
  <2>1. w = [n \in 0 .. 0 |-> Step(w, n)]
    OBVIOUS
  <2> QED BY <2>1
<1>2. ASSUME NEW m \in Nat, m \in Far
      PROVE  m + 1 \in Far
  <2>0. \A w, v : \A n \in Nat : (n # 0 => w[n - 1] = v[n - 1]) => Step(w, n) = Step(v, n)
    OBVIOUS
  <2> HIDE DEF Step
  <2>1. PICK w : w = [n \in 0 .. m |-> Step(w, n)]
    BY <1>2
  <2> DEFINE v == [n \in 0 .. m + 1 |-> IF n = m + 1 THEN Step(w, n) ELSE w[n]]
  <2>2. \A n \in 0 .. m : v[n] = w[n] /\ w[n] = Step(w, n)
    BY <2>1
  <2>3. \A n \in 0 .. m + 1 : v[n] = Step(v, n)
    <3> SUFFICES ASSUME NEW n \in 0 .. m + 1 PROVE v[n] = Step(v, n)
      OBVIOUS
    <3>1. v[n] = Step(w, n)
      <4>1. CASE n \in 0 .. m
        BY <2>2, <4>1
      <4>2. CASE n = m + 1
        BY <4>2
      <4> QED BY <4>1, <4>2
    <3>2. n # 0 => v[n - 1] = w[n - 1]
      BY <2>2
    <3> QED BY <2>0, <3>1, <3>2
  <2>4. v = [n \in 0 .. m + 1 |-> Step(v, n)]
    BY <2>3
  <2> HIDE DEF v
  <2> QED BY <2>4
<1>3. Nat \subseteq Far
  <2> HIDE DEF Far
  <2> QED BY <1>1, <1>2, NatInd
<1>4. PICK w : w = [n \in 0 .. Len(bytes) |-> Step(w, n)]
  BY <1>3
<1>5. Shifted(b, bytes) = value
  BY DEF Shifted
<1>6. value = [n \in 0 .. Len(bytes) |-> Step(value, n)]
  BY <1>4, Zenon
<1> HIDE DEF value
<1>7. \A n \in 0 .. Len(bytes) : value[n] = Step(value, n)
  <2> HIDE DEF Step
  <2> QED BY <1>6
<1> QED
  BY <1>5, <1>7

LEMMA ShiftedBounds ==
    ASSUME NEW b \in Nat \ {0}, NEW bytes \in Seq(Nat), NEW n \in 0 .. Len(bytes)
    PROVE  Shifted(b, bytes)[n] \in 0 .. Power(b)[n] - 1
<1> DEFINE value == Shifted(b, bytes)
           P == Power(b)
           S == {k \in Nat : k <= Len(bytes) => value[k] \in 0 .. P[k] - 1}
<1>0. b \in Int /\ Len(bytes) \in Nat
  OBVIOUS
<1>1. value[0] = 0 /\ \A k \in 1 .. Len(bytes) : value[k] = b * value[k - 1] + (bytes[k] % b)
  BY <1>0, ShiftedStep
<1>2. P[0] = 1 /\ \A k \in Nat : P[k] \in Int /\ P[k + 1] = b * P[k]
  BY <1>0, PowerIs, Zenon
<1> HIDE DEF value, P
<1>3. 0 \in S
  <2>1. value[0] \in 0 .. P[0] - 1
    BY <1>1, <1>2
  <2> QED BY <2>1
<1>4. ASSUME NEW k \in Nat, k \in S
      PROVE  k + 1 \in S
  <2> SUFFICES ASSUME k + 1 <= Len(bytes) PROVE value[k + 1] \in 0 .. P[k + 1] - 1
    OBVIOUS
  <2> DEFINE digit == bytes[k + 1] % b
  <2>1. k + 1 \in 1 .. Len(bytes) /\ (k + 1) - 1 = k /\ value[k] \in 0 .. P[k] - 1
    BY <1>4
  <2>2. digit \in 0 .. b - 1
    BY <2>1
  <2>3. value[k + 1] = b * value[k] + digit
    BY <1>1, <2>1
  <2> HIDE DEF digit
  <2> DEFINE x == value[k]
             p == P[k]
  <2>4. x \in Nat /\ p \in Int /\ x <= p - 1 /\ P[k + 1] = b * p
    BY <2>1, <1>2
  <2> HIDE DEF x, p
  <2>5. b * x >= 0 /\ b * x <= b * (p - 1)
    BY <2>4
  <2>6. b * (p - 1) = b * p - b
    BY <2>4
  <2>7. b * x \in Int /\ b * p \in Int
    BY <2>4
  <2>8. value[k + 1] = b * x + digit
    BY <2>3 DEF x
  <2> DEFINE y == b * x
             z == b * p
  <2>9. /\ y \in Int /\ z \in Int /\ y >= 0 /\ y <= z - b
        /\ value[k + 1] = y + digit /\ P[k + 1] = z
    BY <2>4, <2>5, <2>6, <2>7, <2>8
  <2> HIDE DEF y, z
  <2> QED
    BY <2>2, <2>9
<1>5. Nat \subseteq S
  <2> HIDE DEF S
  <2> QED BY <1>3, <1>4, NatInd
<1>6. value[n] \in 0 .. P[n] - 1
  BY <1>5
<1> QED
  BY <1>6 DEF value, P

(* The digits of a number, read from the highest, are the number.           *)
LEMMA DigitsRead ==
    ASSUME NEW b \in Nat \ {0}, NEW n \in Nat,
           NEW v \in Nat, v < Power(b)[n],
           NEW bytes \in Seq(Nat), NEW m \in 0 .. n, m <= Len(bytes),
           \A i \in 1 .. m : bytes[i] % b = Digits(b, v, n)[i]
    PROVE  Shifted(b, bytes)[m] = v \div Power(b)[n - m]
<1> DEFINE value == Shifted(b, bytes)
           P == Power(b)
           S == {k \in Nat : k <= m => value[k] = v \div P[n - k]}
<1>0. b \in Int /\ Len(bytes) \in Nat
  OBVIOUS
<1>1. value[0] = 0 /\ \A k \in 1 .. Len(bytes) : value[k] = b * value[k - 1] + (bytes[k] % b)
  BY <1>0, ShiftedStep
<1>2. \A k \in Nat : P[k] \in Nat \ {0} /\ P[k + 1] = b * P[k]
  <2>1. \A k \in Nat : P[k + 1] = b * P[k]
    BY <1>0, PowerIs, Zenon
  <2>2. \A k \in Nat : P[k] \in Nat \ {0}
    BY PowerGrows, Zenon
  <2> QED
    BY <2>1, <2>2
<1>3. \A i \in 1 .. m : bytes[i] % b = (v \div P[n - i]) % b
  <2> SUFFICES ASSUME NEW i \in 1 .. m PROVE bytes[i] % b = (v \div P[n - i]) % b
    OBVIOUS
  <2>1. i \in 1 .. n /\ bytes[i] % b = Digits(b, v, n)[i]
    OBVIOUS
  <2> HIDE DEF P
  <2>2. Digits(b, v, n)[i] = (v \div Power(b)[n - i]) % b
    BY <2>1, Zenon DEF Digits
  <2> QED
    BY <2>1, <2>2 DEF P
<1>4. v < P[n]
  OBVIOUS
<1> HIDE DEF value, P
<1>5. 0 \in S
  <2>1. v \div P[n] = 0
    <3> DEFINE d == P[n]
    <3>1. d \in Nat \ {0} /\ v < d
      BY <1>2, <1>4
    <3> HIDE DEF d
    <3>2. v = d * 0 + v /\ v \in Int /\ v \in 0 .. d - 1 /\ 0 \in Int
      BY <3>1
    <3>3. v \div d = 0
      BY <3>1, <3>2, DivIs, Zenon
    <3> QED BY <3>3 DEF d
  <2> QED BY <2>1, <1>1
<1>6. ASSUME NEW k \in Nat, k \in S
      PROVE  k + 1 \in S
  <2> SUFFICES ASSUME k + 1 <= m PROVE value[k + 1] = v \div P[n - (k + 1)]
    OBVIOUS
  <2> DEFINE j == n - (k + 1)
             a == v \div P[j]
  <2>1. /\ k + 1 \in 1 .. m /\ k + 1 \in 1 .. Len(bytes) /\ (k + 1) - 1 = k
        /\ j \in Nat /\ n - k = j + 1
    BY <1>0
  <2>2. value[k] = v \div P[j + 1]
    BY <1>6, <2>1
  <2>3. value[k + 1] = b * value[k] + (a % b)
    BY <1>1, <1>3, <2>1
  <2>4. v \in Int /\ P[j] \in Nat \ {0} /\ P[j + 1] = b * P[j]
    <3>1. v \in Int
      OBVIOUS
    <3>2. j \in Nat
      BY <2>1
    <3> HIDE DEF j
    <3>3. P[j] \in Nat \ {0} /\ P[j + 1] = b * P[j]
      BY <1>2, <3>2, Zenon
    <3> QED BY <3>1, <3>3
  <2>5. a \div b = v \div P[j + 1]
    <3>1. a \div b = v \div (b * P[j])
      BY <2>4, DivDiv, Zenon
    <3> QED
      BY <2>4, <3>1
  <2>6. a \in Int
    BY <2>4, SMTT(30)
  <2> HIDE DEF a, j
  <2>7. a = b * (a \div b) + (a % b)
    BY <2>6
  <2>8. value[k + 1] = a
    BY <2>2, <2>3, <2>5, <2>7
  <2> QED
    BY <2>8 DEF a, j
<1>7. Nat \subseteq S
  <2> HIDE DEF S
  <2> QED BY <1>5, <1>6, NatInd
<1>8. value[m] = v \div P[n - m]
  BY <1>7
<1> QED
  BY <1>8 DEF value, P

---------------------------------------------------------------------------
(* Varints.                                                                 *)

LEMMA LeastOf ==
    ASSUME NEW S \in SUBSET Nat, S # {}
    PROVE  \E m \in S : \A k \in S : m <= k
<1>1. PICK m \in S : \A k \in S : ~ (<<k, m>> \in OpToRel(<, Nat))
  BY NatLessThanWellFounded, WFMin, Zenon
<1>2. \A k \in S : ~ (k < m)
  BY <1>1 DEF OpToRel
<1> QED
  BY <1>2

LEMMA Bases ==
    /\ Group \in Nat \ {0} /\ Group \in Int /\ Group >= 2
    /\ ByteBase \in Nat \ {0} /\ ByteBase = 2 * Group
    /\ MaxBytes \in Nat /\ MaxBytes - 1 \in Nat \ {0}
BY VarintAssumption DEF ByteBase

LEMMA BytesAre ==
    ASSUME NEW bytes \in Seq(0 .. ByteBase - 1)
    PROVE  /\ bytes \in Seq(Nat) /\ Len(bytes) \in Nat /\ DOMAIN bytes = 1 .. Len(bytes)
           /\ \A i \in 1 .. Len(bytes) : bytes[i] \in 0 .. ByteBase - 1
<1>1. \A i \in 1 .. Len(bytes) : bytes[i] \in 0 .. ByteBase - 1
  BY ElementOfSeq, Zenon
<1>2. \A i \in 1 .. Len(bytes) : bytes[i] \in Nat
  BY <1>1, Bases
<1> QED
  BY <1>1, <1>2

LEMMA GroupPowers ==
    \A n \in Nat : /\ Power(Group)[n] \in Nat \ {0}
                   /\ Power(Group)[n + 1] = Group * Power(Group)[n]
<1>1. \A n \in Nat : Power(Group)[n] \in Nat \ {0}
  BY Bases, PowerGrows, Zenon
<1>2. \A n \in Nat : Power(Group)[n + 1] = Group * Power(Group)[n]
  BY Bases, PowerIs, Zenon
<1> QED
  BY <1>1, <1>2

LEMMA LimitIs ==
    /\ Power(Group)[MaxBytes - 1] \in Nat \ {0}
    /\ VarintLimit \in Nat
    /\ VarintLimit = ByteBase * Power(Group)[MaxBytes - 1]
<1> DEFINE p == Power(Group)[MaxBytes - 1]
<1>1. p \in Nat \ {0}
  BY Bases, GroupPowers, Zenon
<1>2. VarintLimit = p * ByteBase
  BY DEF VarintLimit
<1> HIDE DEF p
<1>3. p * ByteBase = ByteBase * p /\ p * ByteBase \in Nat
  BY <1>1, Bases
<1>4. p \in Nat \ {0} /\ VarintLimit \in Nat /\ VarintLimit = ByteBase * p
  BY <1>1, <1>2, <1>3
<1> QED
  BY <1>4 DEF p

(* A digit is below its base. *)
LEMMA DigitsBelow ==
    ASSUME NEW v \in Nat, NEW n \in Nat, NEW i \in 1 .. n
    PROVE  Digits(Group, v, n)[i] \in 0 .. Group - 1
<1> DEFINE p == Power(Group)[n - i]
<1>1. n - i \in Nat
  OBVIOUS
<1>2. p \in Nat \ {0}
  BY <1>1, GroupPowers, Zenon
<1>3. Digits(Group, v, n)[i] = (v \div p) % Group
  BY DEF Digits
<1> HIDE DEF p
<1>4. v \div p \in Int
  BY <1>2
<1>5. (v \div p) % Group \in 0 .. Group - 1
  BY <1>4, Bases
<1> QED
  BY <1>3, <1>5

(* How many groups WriteVarint takes in its short form. *)
Width(v) == CHOOSE n \in 1 .. MaxBytes - 1 :
              /\ v < Power(Group)[n]
              /\ \A k \in 1 .. n - 1 : v >= Power(Group)[k]

LEMMA WidthIs ==
    ASSUME NEW v \in Nat, v < Power(Group)[MaxBytes - 1]
    PROVE  /\ Width(v) \in 1 .. MaxBytes - 1
           /\ v < Power(Group)[Width(v)]
           /\ \A k \in 1 .. MaxBytes - 1 : v < Power(Group)[k] => Width(v) <= k
<1> DEFINE P == Power(Group)
           S == {n \in 1 .. MaxBytes - 1 : v < P[n]}
<1>1. MaxBytes - 1 \in 1 .. MaxBytes - 1
  BY Bases
<1>2. S \in SUBSET Nat /\ S # {}
  BY <1>1
<1>3. PICK m \in S : \A k \in S : m <= k
  BY <1>2, LeastOf, Zenon
<1>4. \A k \in Nat : P[k] \in Nat
  BY GroupPowers
<1> HIDE DEF P
<1>5. /\ m \in 1 .. MaxBytes - 1 /\ v < P[m]
      /\ \A k \in 1 .. m - 1 : v >= P[k]
  BY <1>3, <1>4, Bases
<1>6. Width(v) \in 1 .. MaxBytes - 1 /\ v < P[Width(v)]
      /\ \A k \in 1 .. Width(v) - 1 : v >= P[k]
  BY <1>5, Zenon DEF Width, P
<1>7. ASSUME NEW k \in 1 .. MaxBytes - 1, v < P[k]
      PROVE  Width(v) <= k
  <2> SUFFICES ASSUME k < Width(v) PROVE FALSE
    BY <1>6, Bases
  <2>1. k \in 1 .. Width(v) - 1
    BY <1>6, Bases
  <2> QED
    BY <1>4, <1>6, <1>7, <2>1
<1> QED
  BY <1>6, <1>7 DEF P

(* The form with a whole byte at its end.                                   *)
LEMMA LongForm ==
    ASSUME NEW v \in Nat, v >= Power(Group)[MaxBytes - 1], v < VarintLimit
    PROVE  /\ WriteVarint(v) \in Seq(0 .. ByteBase - 1)
           /\ Len(WriteVarint(v)) = MaxBytes
           /\ v \div ByteBase \in Nat /\ v \div ByteBase < Power(Group)[MaxBytes - 1]
           /\ \A i \in 1 .. MaxBytes - 1 :
                WriteVarint(v)[i] = Digits(Group, v \div ByteBase, MaxBytes - 1)[i] + Group
           /\ WriteVarint(v)[MaxBytes] = v % ByteBase
<1> DEFINE d == v \div ByteBase
           e == v % ByteBase
           g(i) == Digits(Group, d, MaxBytes - 1)[i]
           s == [i \in 1 .. MaxBytes - 1 |-> g(i) + Group]
           p == Power(Group)[MaxBytes - 1]
<1>1. d \in Nat /\ e \in 0 .. ByteBase - 1 /\ v = ByteBase * d + e
  BY Bases, DivMod
<1>2. WriteVarint(v) = Append(s, e)
  BY DEF WriteVarint
<1>3. ByteBase * p > v /\ p \in Nat \ {0}
  BY LimitIs
<1> HIDE DEF d, e, p
<1>4. d < p
  <2> SUFFICES ASSUME d >= p PROVE FALSE
    BY <1>1, <1>3
  <2>1. ByteBase * d >= ByteBase * p
    BY <1>1, <1>3, Bases
  <2>2. ByteBase * d \in Int /\ ByteBase * p \in Int
    BY <1>1, <1>3, Bases
  <2> QED
    BY <1>1, <1>3, <2>1, <2>2
<1>5. \A i \in 1 .. MaxBytes - 1 : g(i) \in 0 .. Group - 1
  <2>1. MaxBytes - 1 \in Nat
    BY Bases
  <2> QED
    BY <1>1, <2>1, DigitsBelow, Zenon
<1> HIDE DEF g
<1>6. \A i \in 1 .. MaxBytes - 1 : s[i] = g(i) + Group /\ s[i] \in 0 .. ByteBase - 1
  BY <1>5, Bases
<1>7. s \in Seq(0 .. ByteBase - 1) /\ Len(s) = MaxBytes - 1
  BY <1>6, Bases
<1> HIDE DEF s
<1>8. /\ Append(s, e) \in Seq(0 .. ByteBase - 1)
      /\ Len(Append(s, e)) = MaxBytes
      /\ \A i \in 1 .. MaxBytes - 1 : Append(s, e)[i] = s[i]
      /\ Append(s, e)[MaxBytes] = e
  <2>1. /\ Append(s, e) \in Seq(0 .. ByteBase - 1)
        /\ Len(Append(s, e)) = Len(s) + 1
        /\ \A i \in 1 .. Len(s) : Append(s, e)[i] = s[i]
        /\ Append(s, e)[Len(s) + 1] = e
    BY <1>1, <1>7, AppendProperties
  <2>2. Len(s) = MaxBytes - 1 /\ Len(s) + 1 = MaxBytes
    BY <1>7, Bases
  <2> QED
    BY <2>1, <2>2
<1>9. /\ WriteVarint(v) \in Seq(0 .. ByteBase - 1)
      /\ Len(WriteVarint(v)) = MaxBytes
      /\ \A i \in 1 .. MaxBytes - 1 : WriteVarint(v)[i] = g(i) + Group
      /\ WriteVarint(v)[MaxBytes] = e
  BY <1>2, <1>6, <1>8
<1> QED
  BY <1>1, <1>4, <1>9 DEF d, e, g, p

LEMMA ShortForm ==
    ASSUME NEW v \in Nat, v < Power(Group)[MaxBytes - 1]
    PROVE  /\ WriteVarint(v) \in Seq(0 .. ByteBase - 1)
           /\ Len(WriteVarint(v)) = Width(v)
           /\ \A i \in 1 .. Width(v) :
                WriteVarint(v)[i] = Digits(Group, v, Width(v))[i]
                                    + (IF i < Width(v) THEN Group ELSE 0)
<1> DEFINE n == Width(v)
           g(i) == Digits(Group, v, n)[i]
           s == [i \in 1 .. n |-> g(i) + IF i < n THEN Group ELSE 0]
<1>1. n \in 1 .. MaxBytes - 1 /\ n \in Nat
  BY WidthIs, Bases
<1>2. WriteVarint(v) = s
  <2>1. Power(Group)[MaxBytes - 1] \in Nat
    BY LimitIs
  <2>2. ~ (v >= Power(Group)[MaxBytes - 1])
    BY <2>1
  <2> QED
    BY <2>2, Zenon DEF WriteVarint, Width
<1> HIDE DEF n
<1>3. \A i \in 1 .. n : g(i) \in 0 .. Group - 1
  BY <1>1, DigitsBelow, Zenon
<1> HIDE DEF g
<1>4. \A i \in 1 .. n : /\ s[i] = g(i) + (IF i < n THEN Group ELSE 0)
                        /\ s[i] \in 0 .. ByteBase - 1
  BY <1>1, <1>3, Bases
<1>5. s \in Seq(0 .. ByteBase - 1) /\ Len(s) = n
  BY <1>1, <1>4
<1> HIDE DEF s
<1>6. /\ WriteVarint(v) \in Seq(0 .. ByteBase - 1)
      /\ Len(WriteVarint(v)) = n
      /\ \A i \in 1 .. n : WriteVarint(v)[i] = g(i) + (IF i < n THEN Group ELSE 0)
  BY <1>2, <1>4, <1>5
<1> QED
  BY <1>6 DEF n, g

LEMMA WriteBounds ==
    ASSUME NEW v \in Nat, v < VarintLimit
    PROVE  /\ WriteVarint(v) \in Seq(0 .. ByteBase - 1)
           /\ Len(WriteVarint(v)) \in 1 .. MaxBytes
           /\ \A k \in 1 .. MaxBytes - 1 :
                v < Power(Group)[k] => Len(WriteVarint(v)) <= k
<1>1. CASE v >= Power(Group)[MaxBytes - 1]
  <2>1. WriteVarint(v) \in Seq(0 .. ByteBase - 1) /\ Len(WriteVarint(v)) = MaxBytes
    BY <1>1, LongForm
  <2>2. ASSUME NEW k \in 1 .. MaxBytes - 1, v < Power(Group)[k]
        PROVE  FALSE
    <3>1. Power(Group)[k] <= Power(Group)[MaxBytes - 1]
      <4>1. MaxBytes - 1 \in Nat /\ k \in 0 .. MaxBytes - 1
        BY Bases
      <4> QED
        BY <4>1, Bases, PowerGrows, Zenon
    <3>2. k \in Nat /\ Power(Group)[k] \in Nat /\ Power(Group)[MaxBytes - 1] \in Nat
      BY Bases, GroupPowers
    <3> QED
      BY <1>1, <2>2, <3>1, <3>2
  <2> QED
    BY <2>1, <2>2, Bases
<1>2. CASE v < Power(Group)[MaxBytes - 1]
  <2>1. WriteVarint(v) \in Seq(0 .. ByteBase - 1) /\ Len(WriteVarint(v)) = Width(v)
    BY <1>2, ShortForm
  <2>2. /\ Width(v) \in 1 .. MaxBytes - 1
        /\ \A k \in 1 .. MaxBytes - 1 : v < Power(Group)[k] => Width(v) <= k
    BY <1>2, WidthIs
  <2> QED
    BY <2>1, <2>2, Bases
<1> QED
  BY <1>1, <1>2, LimitIs

(* What read_varint makes of the first n bytes.                             *)
VarintValue(bytes, n) ==
    IF n = MaxBytes THEN ByteBase * Shifted(Group, bytes)[n - 1] + bytes[n]
    ELSE Shifted(Group, bytes)[n]

LEMMA ReadIs ==
    ASSUME NEW bytes
    PROVE  ReadVarint(bytes) = {[value |-> VarintValue(bytes, n), used |-> n] : n \in VarintEnds(bytes)}
BY DEF ReadVarint, VarintValue

LEMMA OneEnd ==
    ASSUME NEW bytes \in Seq(Nat), NEW n \in VarintEnds(bytes)
    PROVE  VarintEnds(bytes) = {n}
<1>1. Len(bytes) \in Nat
  OBVIOUS
<1>2. \A m \in VarintEnds(bytes) :
        /\ m \in 1 .. Len(bytes) /\ m <= MaxBytes
        /\ m = MaxBytes \/ bytes[m] < Group
        /\ \A i \in 1 .. m - 1 : bytes[i] >= Group
  BY DEF VarintEnds
<1>3. \A i \in 1 .. Len(bytes) : bytes[i] \in Nat
  OBVIOUS
<1>4. \A j, k \in VarintEnds(bytes) : ~ (j < k)
  <2> SUFFICES ASSUME NEW j \in VarintEnds(bytes), NEW k \in VarintEnds(bytes), j < k
               PROVE  FALSE
    OBVIOUS
  <2>1. /\ j \in 1 .. Len(bytes) /\ k \in 1 .. Len(bytes) /\ k <= MaxBytes
        /\ j = MaxBytes \/ bytes[j] < Group
    BY <1>2
  <2>2. j \in 1 .. k - 1 /\ j # MaxBytes
    BY <2>1, <1>1, Bases
  <2>3. bytes[j] >= Group /\ bytes[j] < Group
    BY <1>2, <2>1, <2>2
  <2> QED
    BY <2>1, <2>3, <1>3, Bases
<1>5. \A m \in VarintEnds(bytes) : m = n
  <2> SUFFICES ASSUME NEW m \in VarintEnds(bytes) PROVE m = n
    OBVIOUS
  <2>1. m \in Int /\ n \in Int
    BY <1>1, <1>2
  <2> QED
    BY <2>1, <1>4
<1> QED
  BY <1>5

LEMMA GroupsRead ==
    ASSUME NEW v \in Nat, NEW n \in Nat, v < Power(Group)[n],
           NEW bytes \in Seq(Nat), n <= Len(bytes),
           \A i \in 1 .. n : bytes[i] % Group = Digits(Group, v, n)[i]
    PROVE  Shifted(Group, bytes)[n] = v
<1> DEFINE P == Power(Group)
<1>1. Group \in Nat \ {0} /\ n \in 0 .. n
  BY Bases
<1>2. Shifted(Group, bytes)[n] = v \div P[n - n]
  BY <1>1, DigitsRead
<1>3. P[0] = 1
  BY Bases, PowerIs
<1> HIDE DEF P
<1>4. n - n = 0
  OBVIOUS
<1>5. Shifted(Group, bytes)[n] = v \div 1
  BY <1>2, <1>3, <1>4
<1>6. v \div 1 = v
  OBVIOUS
<1> QED
  BY <1>5, <1>6

(* The bytes of v, whatever follows them, are read as v.                    *)
LEMMA Written ==
    ASSUME NEW v \in Nat, v < VarintLimit, NEW bytes \in Seq(Nat),
           Len(WriteVarint(v)) <= Len(bytes),
           \A i \in 1 .. Len(WriteVarint(v)) : bytes[i] = WriteVarint(v)[i]
    PROVE  /\ Len(WriteVarint(v)) \in VarintEnds(bytes)
           /\ VarintValue(bytes, Len(WriteVarint(v))) = v
<1> DEFINE w == WriteVarint(v)
<1>1. Len(bytes) \in Nat /\ Len(w) \in 1 .. MaxBytes
  BY WriteBounds
<1>2. CASE v >= Power(Group)[MaxBytes - 1]
  <2> DEFINE d == v \div ByteBase
             g(i) == Digits(Group, d, MaxBytes - 1)[i]
             k == MaxBytes - 1
  <2>1. /\ Len(w) = MaxBytes /\ d \in Nat /\ d < Power(Group)[k]
        /\ \A i \in 1 .. k : w[i] = g(i) + Group
        /\ w[MaxBytes] = v % ByteBase
    BY <1>2, LongForm
  <2>2. k \in Nat /\ MaxBytes = k + 1
    BY Bases
  <2>3. v = ByteBase * d + (v % ByteBase)
    BY Bases, DivMod
  <2> HIDE DEF d
  <2>4. \A i \in 1 .. k : g(i) \in 0 .. Group - 1
    BY <2>1, <2>2, DigitsBelow, Zenon
  <2> HIDE DEF k
  <2>5. \A i \in 1 .. k : bytes[i] = g(i) + Group
    BY <2>1, <2>2
  <2>6. \A i \in 1 .. k : g(i) = Digits(Group, d, k)[i]
    BY DEF k
  <2> HIDE DEF g
  <2>7. \A i \in 1 .. k : bytes[i] >= Group /\ bytes[i] % Group = g(i)
    <3> SUFFICES ASSUME NEW i \in 1 .. k PROVE bytes[i] >= Group /\ bytes[i] % Group = g(i)
      OBVIOUS
    <3>1. bytes[i] = g(i) + Group /\ g(i) \in 0 .. Group - 1
      BY <2>4, <2>5
    <3>2. (g(i) + Group) % Group = g(i)
      BY <3>1, Bases, SmallMod
    <3> QED
      BY <3>1, <3>2, Bases
  <2>8. k <= Len(bytes)
    BY <2>1, <2>2, <1>1
  <2>9. Shifted(Group, bytes)[k] = d
    <3>1. \A i \in 1 .. k : bytes[i] % Group = Digits(Group, d, k)[i]
      BY <2>6, <2>7
    <3>2. d < Power(Group)[k]
      BY <2>1
    <3> QED
      BY <2>1, <2>2, <2>8, <3>1, <3>2, GroupsRead
  <2>10. Len(w) \in VarintEnds(bytes)
    BY <1>1, <2>1, <2>2, <2>7 DEF VarintEnds
  <2>11. bytes[MaxBytes] = v % ByteBase
    BY <2>1, <1>1
  <2>12. VarintValue(bytes, MaxBytes) = ByteBase * d + (v % ByteBase)
    <3>1. VarintValue(bytes, MaxBytes) = ByteBase * Shifted(Group, bytes)[k] + bytes[MaxBytes]
      BY DEF VarintValue, k
    <3> QED
      BY <3>1, <2>9, <2>11
  <2> QED
    BY <2>1, <2>3, <2>10, <2>12
<1>3. CASE v < Power(Group)[MaxBytes - 1]
  <2> DEFINE n == Width(v)
             g(i) == Digits(Group, v, n)[i]
  <2>1. /\ Len(w) = n
        /\ \A i \in 1 .. n : w[i] = g(i) + (IF i < n THEN Group ELSE 0)
    BY <1>3, ShortForm
  <2>2. n \in 1 .. MaxBytes - 1 /\ n \in Nat /\ v < Power(Group)[n]
    BY <1>3, WidthIs, Bases
  <2> HIDE DEF n
  <2>3. \A i \in 1 .. n : g(i) \in 0 .. Group - 1
    BY <2>2, DigitsBelow, Zenon
  <2>4. \A i \in 1 .. n : g(i) = Digits(Group, v, n)[i]
    OBVIOUS
  <2> HIDE DEF g
  <2>5. \A i \in 1 .. n : /\ i < n => bytes[i] >= Group
                          /\ i = n => bytes[i] < Group
                          /\ bytes[i] % Group = g(i)
    <3> SUFFICES ASSUME NEW i \in 1 .. n
                 PROVE  /\ i < n => bytes[i] >= Group
                        /\ i = n => bytes[i] < Group
                        /\ bytes[i] % Group = g(i)
      OBVIOUS
    <3>1. bytes[i] = g(i) + (IF i < n THEN Group ELSE 0) /\ g(i) \in 0 .. Group - 1
      BY <2>1, <2>3
    <3>2. (i < n => bytes[i] >= Group) /\ (i = n => bytes[i] < Group)
      BY <3>1, <2>2, Bases
    <3>3. g(i) % Group = g(i) /\ (g(i) + Group) % Group = g(i)
      BY <3>1, Bases, SmallMod
    <3>4. bytes[i] = g(i) \/ bytes[i] = g(i) + Group
      BY <3>1, Bases
    <3>5. bytes[i] % Group = g(i)
      BY <3>3, <3>4
    <3> QED
      BY <3>2, <3>5
  <2>6. n <= Len(bytes)
    BY <2>1, <2>2, <1>1
  <2>7. Shifted(Group, bytes)[n] = v
    <3>1. \A i \in 1 .. n : bytes[i] % Group = Digits(Group, v, n)[i]
      BY <2>4, <2>5
    <3> QED
      BY <2>2, <2>6, <3>1, GroupsRead
  <2>8. n \in VarintEnds(bytes)
    BY <1>1, <2>1, <2>2, <2>5, Bases DEF VarintEnds
  <2>9. n # MaxBytes
    BY <2>2, Bases
  <2> QED
    BY <2>1, <2>7, <2>8, <2>9 DEF VarintValue
<1> QED
  BY <1>2, <1>3, LimitIs

(* Of any bytes comes a number of the right width, which the writer would   *)
(* have put into no more of them.                                           *)
LEMMA ReadBounds ==
    ASSUME NEW bytes \in Seq(0 .. ByteBase - 1), NEW n \in VarintEnds(bytes)
    PROVE  /\ n \in 1 .. Len(bytes) /\ n <= MaxBytes
           /\ VarintValue(bytes, n) \in Nat
           /\ VarintValue(bytes, n) < VarintLimit
           /\ Len(WriteVarint(VarintValue(bytes, n))) <= n
<1> DEFINE k == MaxBytes - 1
<1>1. /\ Len(bytes) \in Nat /\ bytes \in Seq(Nat)
      /\ \A i \in 1 .. Len(bytes) : bytes[i] \in 0 .. ByteBase - 1
  BY BytesAre
<1>2. n \in 1 .. Len(bytes) /\ n <= MaxBytes
  BY DEF VarintEnds
<1>3. \A m \in 0 .. Len(bytes) : Shifted(Group, bytes)[m] \in 0 .. Power(Group)[m] - 1
  BY <1>1, Bases, ShiftedBounds
<1>4. k \in Nat \ {0} /\ MaxBytes = k + 1 /\ k \in 1 .. MaxBytes - 1
  BY Bases
<1>5. \A m \in Nat : Power(Group)[m] \in Nat \ {0}
  BY GroupPowers
<1>6. VarintLimit \in Nat /\ VarintLimit = ByteBase * Power(Group)[k]
  BY LimitIs
<1> HIDE DEF k
<1>7. CASE n = MaxBytes
  <2> DEFINE x == Shifted(Group, bytes)[k]
             p == Power(Group)[k]
             y == bytes[n]
  <2>1. k \in 0 .. Len(bytes) /\ n - 1 = k
    BY <1>2, <1>4, <1>7
  <2>2. x \in 0 .. p - 1 /\ p \in Nat /\ y \in 0 .. ByteBase - 1
    BY <1>1, <1>2, <1>3, <1>4, <1>5, <2>1
  <2>3. VarintValue(bytes, n) = ByteBase * x + y
    BY <1>7, <2>1 DEF VarintValue
  <2>4. VarintLimit = ByteBase * p
    BY <1>6
  <2> HIDE DEF x, p, y
  <2>5. ByteBase * x <= ByteBase * (p - 1) /\ ByteBase * x >= 0 /\ ByteBase * x \in Int
    BY <2>2, Bases
  <2>6. ByteBase * (p - 1) = ByteBase * p - ByteBase /\ ByteBase * p \in Int
    BY <2>2, Bases
  <2> DEFINE a == ByteBase * x
             c == ByteBase * p
  <2>7. a \in Int /\ c \in Int /\ a >= 0 /\ a <= c - ByteBase
    BY <2>5, <2>6
  <2>8. VarintValue(bytes, n) = a + y /\ VarintLimit = c
    BY <2>3, <2>4
  <2> HIDE DEF a, c
  <2>9. VarintValue(bytes, n) \in Nat /\ VarintValue(bytes, n) < VarintLimit
    BY <2>2, <2>7, <2>8, Bases
  <2>10. Len(WriteVarint(VarintValue(bytes, n))) \in 1 .. MaxBytes
    BY <2>9, WriteBounds
  <2> QED
    BY <1>2, <1>7, <2>9, <2>10
<1>8. CASE n # MaxBytes
  <2> DEFINE x == Shifted(Group, bytes)[n]
  <2>1. n \in 1 .. k /\ n \in 0 .. k /\ n \in 0 .. Len(bytes) /\ n \in Nat
    BY <1>1, <1>2, <1>4, <1>8
  <2>2. x \in 0 .. Power(Group)[n] - 1 /\ Power(Group)[n] \in Nat
    BY <1>3, <1>5, <2>1
  <2>3. VarintValue(bytes, n) = x
    BY <1>8 DEF VarintValue
  <2>4. Power(Group)[n] <= Power(Group)[k]
    BY <1>4, <2>1, Bases, PowerGrows
  <2> HIDE DEF x
  <2>5. x \in Nat /\ x < Power(Group)[n]
    BY <2>2
  <2> DEFINE p == Power(Group)[k]
  <2>6. p \in Nat \ {0} /\ x < p /\ VarintLimit = ByteBase * p
    BY <1>4, <1>5, <1>6, <2>2, <2>4, <2>5
  <2> HIDE DEF p
  <2>7. ByteBase * p >= p /\ ByteBase * p \in Nat
    <3>1. ByteBase * p = (ByteBase - 1) * p + p /\ (ByteBase - 1) * p >= 0
      BY <2>6, Bases
    <3> QED
      BY <2>6, <3>1, Bases
  <2>8. x < VarintLimit
    BY <2>5, <2>6, <2>7
  <2>9. Len(WriteVarint(x)) <= n
    BY <1>4, <2>1, <2>5, <2>8, WriteBounds
  <2> QED
    BY <1>2, <2>3, <2>5, <2>8, <2>9
<1> QED
  BY <1>7, <1>8

(* Reading fails only if the bytes end before the varint does.              *)
LEMMA NoEnd ==
    ASSUME NEW bytes \in Seq(Nat)
    PROVE  VarintEnds(bytes) = {} <=> /\ Len(bytes) < MaxBytes
                                    /\ \A i \in 1 .. Len(bytes) : bytes[i] >= Group
<1> DEFINE S == {m \in 1 .. Len(bytes) : m = MaxBytes \/ bytes[m] < Group}
<1>1. Len(bytes) \in Nat /\ \A i \in 1 .. Len(bytes) : bytes[i] \in Nat
  OBVIOUS
<1>2. VarintEnds(bytes) \subseteq S
  BY DEF VarintEnds
<1>3. ASSUME S # {}
      PROVE  VarintEnds(bytes) # {}
  <2>1. S \in SUBSET Nat
    OBVIOUS
  <2>2. PICK m \in S : \A j \in S : m <= j
    BY <1>3, <2>1, LeastOf, Zenon
  <2>3. m \in 1 .. Len(bytes) /\ (m = MaxBytes \/ bytes[m] < Group)
    OBVIOUS
  <2>4. \A i \in 1 .. m - 1 : i # MaxBytes /\ bytes[i] >= Group
    <3> SUFFICES ASSUME NEW i \in 1 .. m - 1 PROVE i # MaxBytes /\ bytes[i] >= Group
      OBVIOUS
    <3>1. i \in 1 .. Len(bytes) /\ i < m /\ i \in Nat /\ m \in Nat
      BY <1>1, <2>3
    <3>2. i \notin S
      <4> HIDE DEF S
      <4> QED BY <2>2, <3>1
    <3> QED
      BY <3>1, <3>2, <1>1, Bases
  <2>5. m <= MaxBytes
    <3> SUFFICES ASSUME m > MaxBytes PROVE FALSE
      BY <2>3, Bases
    <3>1. MaxBytes \in 1 .. m - 1
      BY <2>3, Bases
    <3> QED
      BY <2>4, <3>1
  <2>6. m \in VarintEnds(bytes)
    BY <2>3, <2>4, <2>5 DEF VarintEnds
  <2> QED
    BY <2>6
<1>4. S = {} <=> Len(bytes) < MaxBytes /\ \A i \in 1 .. Len(bytes) : bytes[i] >= Group
  <2>1. ASSUME S = {}, Len(bytes) >= MaxBytes PROVE FALSE
    <3>1. MaxBytes \in 1 .. Len(bytes)
      BY <1>1, <2>1, Bases
    <3>2. MaxBytes \in S
      BY <3>1
    <3> QED BY <2>1, <3>2
  <2>2. ASSUME S = {}, NEW i \in 1 .. Len(bytes) PROVE bytes[i] >= Group
    BY <1>1, <2>2, Bases
  <2>3. ASSUME Len(bytes) < MaxBytes, \A i \in 1 .. Len(bytes) : bytes[i] >= Group
        PROVE  S = {}
    BY <1>1, <2>3, Bases
  <2> QED
    BY <1>1, <2>1, <2>2, <2>3, Bases
<1> QED
  BY <1>2, <1>3, <1>4

LEMMA ReturnedReadsBack == Returned => VarintRoundTrip
<1>1. ASSUME Returned, Over("write_varint")
      PROVE  result = {[value |-> call.value, used |-> Len(WriteVarint(call.value))]}
  <2> DEFINE v == call.value
             w == WriteVarint(v)
             bytes == w \o call.rest
  <2>1. call \in Calls /\ call.op = "write_varint" /\ result = ReadVarint(bytes)
    BY <1>1 DEF Returned, Over
  <2>2. v \in 0 .. VarintLimit - 1 /\ call.rest \in Seq(0 .. ByteBase - 1)
    BY <2>1, CallsAssumption
  <2>3. v \in Nat /\ v < VarintLimit
    BY <2>2, LimitIs
  <2>4. w \in Seq(0 .. ByteBase - 1) /\ Len(w) \in Nat
    BY <2>3, WriteBounds
  <2> HIDE DEF w
  <2>5. /\ bytes \in Seq(0 .. ByteBase - 1) /\ Len(bytes) = Len(w) + Len(call.rest)
        /\ \A i \in 1 .. Len(w) : bytes[i] = w[i]
    BY <2>2, <2>4, Concat
  <2>6. bytes \in Seq(Nat) /\ Len(w) <= Len(bytes)
    <3>1. Len(call.rest) \in Nat
      BY <2>2
    <3> HIDE DEF bytes
    <3>2. bytes \in Seq(Nat)
      BY <2>5, BytesAre
    <3> QED
      BY <2>4, <2>5, <3>1, <3>2
  <2> HIDE DEF bytes, v
  <2>7. Len(w) \in VarintEnds(bytes) /\ VarintValue(bytes, Len(w)) = v
    BY <2>3, <2>5, <2>6, Written DEF w
  <2>8. VarintEnds(bytes) = {Len(w)}
    BY <2>6, <2>7, OneEnd
  <2>9. ReadVarint(bytes) = {[value |-> v, used |-> Len(w)]}
    BY <2>7, <2>8, ReadIs
  <2> QED
    BY <2>1, <2>9 DEF v, w
<1>2. ASSUME Returned, Over("read_varint")
      PROVE  /\ result = {} <=> Len(call.buf) < MaxBytes
                                /\ \A i \in DOMAIN call.buf : call.buf[i] >= Group
             /\ \A v \in result : /\ v.value < VarintLimit
                                  /\ v.used <= Len(call.buf)
                                  /\ Len(WriteVarint(v.value)) <= v.used
  <2> DEFINE bytes == call.buf
  <2>1. call \in Calls /\ call.op = "read_varint" /\ result = ReadVarint(bytes)
    BY <1>2 DEF Returned, Over
  <2>2. bytes \in Seq(0 .. ByteBase - 1)
    BY <2>1, CallsAssumption
  <2> HIDE DEF bytes
  <2>3. bytes \in Seq(Nat) /\ DOMAIN bytes = 1 .. Len(bytes) /\ Len(bytes) \in Nat
    BY <2>2, BytesAre
  <2>4. result = {[value |-> VarintValue(bytes, n), used |-> n] : n \in VarintEnds(bytes)}
    BY <2>1, ReadIs
  <2>5. result = {} <=> VarintEnds(bytes) = {}
    BY <2>4
  <2>6. result = {} <=> Len(bytes) < MaxBytes /\ \A i \in DOMAIN bytes : bytes[i] >= Group
    BY <2>3, <2>5, NoEnd
  <2>7. ASSUME NEW v \in result
        PROVE  /\ v.value < VarintLimit /\ v.used <= Len(bytes)
               /\ Len(WriteVarint(v.value)) <= v.used
    <3>1. PICK n \in VarintEnds(bytes) : v = [value |-> VarintValue(bytes, n), used |-> n]
      BY <2>4
    <3>2. /\ n \in 1 .. Len(bytes) /\ VarintValue(bytes, n) < VarintLimit
          /\ Len(WriteVarint(VarintValue(bytes, n))) <= n
      BY <2>2, ReadBounds
    <3>3. v.value = VarintValue(bytes, n) /\ v.used = n
      BY <3>1
    <3> QED
      BY <3>2, <3>3
  <2> QED
    BY <2>6, <2>7 DEF bytes
<1> QED
  BY <1>1, <1>2 DEF VarintRoundTrip

(* write_varint and read_varint for every width of group and length of the  *)
(* longest form, so for 7 bits and 9 bytes: every integer is read back, and *)
(* any bytes give an integer of 64 bits or fail for want of a last byte.    *)
THEOREM VarintsReadBack == Spec => []VarintRoundTrip
BY ReturnedAlways, ReturnedReadsBack, PTL

---------------------------------------------------------------------------
(* Integers of two's complement.                                            *)

Octets == 0 .. ByteBase - 1

LEMMA DivModInt ==
    ASSUME NEW v \in Int, NEW p \in Nat \ {0}
    PROVE  v \div p \in Int /\ v % p \in 0 .. p - 1 /\ v = p * (v \div p) + (v % p)
OBVIOUS

LEMMA PowersAdd ==
    ASSUME NEW b \in Nat \ {0}, NEW m \in Nat, NEW n \in Nat
    PROVE  Power(b)[m + n] = Power(b)[m] * Power(b)[n]
<1> DEFINE P == Power(b)
           S == {k \in Nat : P[m + k] = P[m] * P[k]}
<1>1. P[0] = 1 /\ \A k \in Nat : P[k] \in Int /\ P[k + 1] = b * P[k]
  BY PowerIs
<1> HIDE DEF P
<1>2. 0 \in S
  BY <1>1
<1>3. ASSUME NEW k \in Nat, k \in S
      PROVE  k + 1 \in S
  <2>1. P[m + k] = P[m] * P[k]
    BY <1>3
  <2>2. P[m + (k + 1)] = b * P[m + k]
    <3>1. m + (k + 1) = (m + k) + 1 /\ m + k \in Nat
      OBVIOUS
    <3> QED
      BY <1>1, <3>1
  <2>3. P[k + 1] = b * P[k] /\ P[k] \in Int /\ P[m] \in Int
    BY <1>1
  <2>4. b * (P[m] * P[k]) = P[m] * (b * P[k])
    BY <2>3
  <2> QED
    BY <2>1, <2>2, <2>3, <2>4
<1>4. Nat \subseteq S
  <2> HIDE DEF S
  <2> QED BY <1>2, <1>3, NatInd
<1> QED
  BY <1>4 DEF P

(* A number and its two's complement have the same digits.                  *)
LEMMA ComplementDigits ==
    ASSUME NEW b \in Nat \ {0}, NEW n \in Nat, NEW v \in Int
    PROVE  Digits(b, v, n) = Digits(b, v + Power(b)[n], n)
<1> DEFINE P == Power(b)
           u == v + P[n]
<1>1. \A k \in Nat : P[k] \in Nat \ {0} /\ P[k + 1] = b * P[k]
  <2>1. \A k \in Nat : P[k] \in Nat \ {0}
    BY PowerGrows
  <2>2. \A k \in Nat : P[k + 1] = b * P[k]
    BY PowerIs
  <2> QED
    BY <2>1, <2>2
<1>2. \A j, k \in Nat : P[j + k] = P[j] * P[k]
  BY PowersAdd
<1>3. Digits(b, v, n) = [i \in 1 .. n |-> (v \div P[n - i]) % b]
  BY DEF Digits
<1>4. Digits(b, u, n) = [i \in 1 .. n |-> (u \div P[n - i]) % b]
  BY DEF Digits
<1> HIDE DEF P
<1>5. ASSUME NEW i \in 1 .. n
      PROVE  (v \div P[n - i]) % b = (u \div P[n - i]) % b
  <2> DEFINE p == P[n - i]
             r == P[i - 1]
             q == v \div p
  <2>1. n - i \in Nat /\ i \in Nat /\ i - 1 \in Nat /\ (i - 1) + 1 = i /\ (n - i) + i = n
    OBVIOUS
  <2>2. p \in Nat \ {0} /\ r \in Nat \ {0} /\ P[i] = b * r
    BY <1>1, <2>1
  <2>3. P[n] = p * (b * r)
    <3>1. P[(n - i) + i] = P[n - i] * P[i]
      BY <1>2, <2>1
    <3> QED
      BY <2>1, <2>2, <3>1
  <2>4. u = v + P[n]
    OBVIOUS
  <2>5. q \in Int /\ v % p \in 0 .. p - 1 /\ v = p * q + (v % p)
    BY <2>2, DivModInt
  <2> HIDE DEF u, p, r, q
  <2> DEFINE w == b * r
             e == v % p
  <2>6. w \in Int
    BY <2>2
  <2>7. u = p * (q + w) + e
    <3>1. u = p * q + e + p * w
      BY <2>3, <2>4, <2>5
    <3> HIDE DEF w, e
    <3>2. p * (q + w) = p * q + p * w
      BY <2>2, <2>5, <2>6
    <3>3. p * q \in Int /\ p * w \in Int /\ e \in Int
      BY <2>2, <2>5, <2>6 DEF e
    <3> QED
      BY <3>1, <3>2, <3>3
  <2>8. u \div p = q + w
    <3>1. e \in 0 .. p - 1 /\ q + w \in Int
      BY <2>5, <2>6
    <3>2. u \in Int
      BY <1>1, <2>4
    <3> HIDE DEF w, e
    <3> QED
      BY <2>2, <2>7, <3>1, <3>2, DivIs
  <2>9. (q + b * r) % b = q % b
    <3> DEFINE d == q \div b
               f == q % b
    <3>1. d \in Int /\ f \in 0 .. b - 1 /\ q = b * d + f
      BY <2>5
    <3> HIDE DEF d, f
    <3>2. q + b * r = b * (d + r) + f
      <4>1. b * (d + r) = b * d + b * r /\ b * d \in Int /\ b * r \in Int
        BY <2>2, <3>1
      <4> QED
        BY <3>1, <4>1
    <3> DEFINE x == q + b * r
               y == d + r
    <3>3. x \in Int /\ y \in Int /\ x = b * y + f
      BY <2>2, <2>5, <3>1, <3>2
    <3> HIDE DEF x, y
    <3>4. x % b = f
      BY <3>1, <3>3, DivIs
    <3> QED
      BY <3>4 DEF x, f
  <2> QED
    BY <2>8, <2>9 DEF p, q
<1> QED
  BY <1>3, <1>4, <1>5 DEF P

LEMMA BytePowers ==
    \A n \in Nat : /\ Power(ByteBase)[n] \in Nat \ {0}
                   /\ Power(ByteBase)[n + 1] = ByteBase * Power(ByteBase)[n]
<1>1. \A n \in Nat : Power(ByteBase)[n] \in Nat \ {0}
  BY Bases, PowerGrows, Zenon
<1>2. ByteBase \in Int
  BY Bases
<1>3. \A n \in Nat : Power(ByteBase)[n + 1] = ByteBase * Power(ByteBase)[n]
  BY <1>2, PowerIs, Zenon
<1> QED
  BY <1>1, <1>3

LEMMA ByteDigits ==
    ASSUME NEW v \in Int, NEW n \in Nat
    PROVE  /\ Digits(ByteBase, v, n) \in Seq(Octets)
           /\ Len(Digits(ByteBase, v, n)) = n
           /\ \A i \in 1 .. n : /\ Digits(ByteBase, v, n)[i] \in Octets
                                /\ Digits(ByteBase, v, n)[i]
                                     = (v \div Power(ByteBase)[n - i]) % ByteBase
<1> DEFINE P == Power(ByteBase)
           s == [i \in 1 .. n |-> (v \div P[n - i]) % ByteBase]
<1>1. \A k \in Nat : P[k] \in Nat \ {0}
  BY BytePowers
<1> HIDE DEF P
<1>2. \A i \in 1 .. n : s[i] = (v \div P[n - i]) % ByteBase /\ s[i] \in Octets
  <2> SUFFICES ASSUME NEW i \in 1 .. n PROVE (v \div P[n - i]) % ByteBase \in Octets
    OBVIOUS
  <2>1. n - i \in Nat
    OBVIOUS
  <2>2. P[n - i] \in Nat \ {0}
    BY <1>1, <2>1
  <2>3. v \div P[n - i] \in Int
    BY <2>2, DivModInt
  <2> QED
    BY <2>3, Bases, DivModInt DEF Octets
<1>3. s = Digits(ByteBase, v, n)
  BY DEF Digits, P
<1>4. s \in Seq(Octets) /\ Len(s) = n
  BY <1>2
<1> HIDE DEF s
<1>5. /\ Digits(ByteBase, v, n) \in Seq(Octets)
      /\ Len(Digits(ByteBase, v, n)) = n
      /\ \A i \in 1 .. n : /\ Digits(ByteBase, v, n)[i] = (v \div P[n - i]) % ByteBase
                           /\ Digits(ByteBase, v, n)[i] \in Octets
  BY <1>2, <1>3, <1>4
<1> QED
  BY <1>5 DEF P

(* The digits of a number of n bytes.                                       *)
LEMMA BytesRead ==
    ASSUME NEW n \in Nat \ {0}, NEW u \in Nat, u < Power(ByteBase)[n]
    PROVE  /\ Shifted(ByteBase, Digits(ByteBase, u, n))[n] = u
           /\ Digits(ByteBase, u, n)[1] = u \div Power(ByteBase)[n - 1]
<1> DEFINE P == Power(ByteBase)
           s == Digits(ByteBase, u, n)
<1>1. /\ s \in Seq(Octets) /\ Len(s) = n
      /\ \A i \in 1 .. n : s[i] \in Octets /\ s[i] = (u \div P[n - i]) % ByteBase
  <2>1. u \in Int /\ n \in Nat
    OBVIOUS
  <2> QED
    BY <2>1, ByteDigits
<1>2. \A k \in Nat : P[k] \in Nat \ {0} /\ P[k + 1] = ByteBase * P[k]
  BY BytePowers
<1>3. u < P[n]
  OBVIOUS
<1>4. P[0] = 1
  BY Bases, PowerIs
<1>5. s \in Seq(Nat)
  BY <1>1, BytesAre DEF Octets
<1>6. \A i \in 1 .. n : s[i] % ByteBase = Digits(ByteBase, u, n)[i]
  <2> SUFFICES ASSUME NEW i \in 1 .. n PROVE s[i] % ByteBase = s[i]
    OBVIOUS
  <2>1. s[i] \in 0 .. ByteBase - 1
    BY <1>1 DEF Octets
  <2> QED
    BY <2>1, Bases, SmallMod
<1>7. Shifted(ByteBase, s)[n] = u \div P[n - n]
  <2>1. n \in 0 .. n /\ n \in Nat /\ n <= Len(s)
    BY <1>1
  <2> QED
    BY <1>5, <1>6, <2>1, Bases, DigitsRead
<1> HIDE DEF s, P
<1>8. Shifted(ByteBase, s)[n] = u
  <2>1. n - n = 0
    OBVIOUS
  <2>2. u \div 1 = u
    OBVIOUS
  <2> QED
    BY <1>4, <1>7, <2>1, <2>2
<1>9. s[1] = u \div P[n - 1]
  <2> DEFINE p == P[n - 1]
             d == u \div p
  <2>1. n - 1 \in Nat /\ (n - 1) + 1 = n /\ 1 \in 1 .. n
    OBVIOUS
  <2>2. p \in Nat \ {0} /\ P[n] = ByteBase * p
    BY <1>2, <2>1
  <2>3. s[1] = d % ByteBase
    BY <1>1, <2>1
  <2>4. d \in Nat /\ u % p \in 0 .. p - 1 /\ u = p * d + (u % p)
    BY <2>2, DivMod
  <2>5. u < ByteBase * p
    BY <1>3, <2>2
  <2> HIDE DEF p, d
  <2>6. d < ByteBase
    <3> SUFFICES ASSUME d >= ByteBase PROVE FALSE
      BY <2>4, Bases
    <3>1. p * d >= p * ByteBase /\ p * ByteBase = ByteBase * p
      BY <2>2, <2>4, Bases
    <3>2. p * d \in Int /\ ByteBase * p \in Int
      BY <2>2, <2>4, Bases
    <3> QED
      BY <2>4, <2>5, <3>1, <3>2
  <2>7. d % ByteBase = d
    BY <2>4, <2>6, Bases, SmallMod
  <2> QED
    BY <2>3, <2>7 DEF p, d
<1> QED
  BY <1>8, <1>9 DEF s, P

(* An integer of n bytes, of either sign, is read from its bytes.           *)
LEMMA IntRead ==
    ASSUME NEW n \in Nat \ {0}, NEW v \in Int,
           -(Group * Power(ByteBase)[n - 1]) <= v, v < Group * Power(ByteBase)[n - 1]
    PROVE  ReadBeInt(BeBytes(v, n)) = v
<1> DEFINE P == Power(ByteBase)
           p == P[n - 1]
           half == Group * p
           raw == BeBytes(v, n)
           u == IF v >= 0 THEN v ELSE v + P[n]
<1>1. n - 1 \in Nat /\ (n - 1) + 1 = n
  OBVIOUS
<1>2. p \in Nat \ {0} /\ P[n] = ByteBase * p /\ P[n] \in Nat
  BY <1>1, BytePowers
<1>3. -half <= v /\ v < half
  OBVIOUS
<1>4. half \in Nat /\ P[n] = half + half
  <2> HIDE DEF P, p
  <2>1. ByteBase * p = 2 * (Group * p) /\ Group * p \in Nat
    BY <1>2, Bases
  <2> QED
    BY <1>2, <2>1
<1>5. raw = Digits(ByteBase, u, n)
  <2>1. CASE v >= 0
    BY <2>1 DEF BeBytes
  <2>2. CASE v < 0
    <3>1. Digits(ByteBase, v, n) = Digits(ByteBase, v + Power(ByteBase)[n], n)
      BY Bases, ComplementDigits
    <3> QED
      BY <2>2, <3>1 DEF BeBytes
  <2> QED
    BY <2>1, <2>2
<1>6. Len(raw) = n
  BY ByteDigits DEF BeBytes
<1> HIDE DEF half
<1>7. u \in Nat /\ u < P[n] /\ (v < 0 <=> u >= half)
  <2> HIDE DEF P
  <2> QED BY <1>2, <1>3, <1>4
<1>8. Shifted(ByteBase, raw)[n] = u /\ raw[1] = u \div p
  <2> HIDE DEF u
  <2> QED BY <1>5, <1>7, BytesRead
<1> HIDE DEF P, p, raw
<1>9. raw[1] >= Group <=> u >= half
  <2> DEFINE d == u \div p
  <2>1. d \in Nat /\ u % p \in 0 .. p - 1 /\ u = p * d + (u % p)
    <3> HIDE DEF u
    <3> QED BY <1>2, <1>7, DivMod
  <2>2. half = p * Group
    BY <1>2, Bases DEF half
  <2> HIDE DEF d, u
  <2>3. ASSUME d >= Group PROVE u >= half
    <3>1. p * d >= p * Group
      BY <1>2, <2>1, <2>3, Bases
    <3>2. p * d \in Int /\ p * Group \in Int
      BY <1>2, <2>1, Bases
    <3> QED
      BY <2>1, <2>2, <3>1, <3>2
  <2>4. ASSUME d < Group PROVE u < half
    <3>1. p * d <= p * (Group - 1)
      BY <1>2, <2>1, <2>4, Bases
    <3>2. p * d \in Int /\ p * Group \in Int /\ p * (Group - 1) = p * Group - p
      BY <1>2, <2>1, Bases
    <3> QED
      BY <1>2, <2>1, <2>2, <3>1, <3>2
  <2>5. d >= Group \/ d < Group
    BY <2>1, Bases
  <2>6. raw[1] = d
    BY <1>8 DEF d
  <2>7. u < half => ~ (u >= half)
    BY <1>4, <1>7
  <2>8. d < Group => ~ (d >= Group)
    BY <2>1, Bases
  <2> QED
    BY <2>3, <2>4, <2>5, <2>6, <2>7, <2>8
<1>10. ReadBeInt(raw) = IF raw[1] >= Group THEN u - P[n] ELSE u
  BY <1>6, <1>8 DEF ReadBeInt, P
<1>11. ReadBeInt(raw) = IF v < 0 THEN u - P[n] ELSE u
  BY <1>7, <1>9, <1>10
<1>12. CASE v < 0
  BY <1>2, <1>11, <1>12 DEF raw
<1>13. CASE v >= 0
  BY <1>11, <1>13 DEF raw
<1> QED
  BY <1>12, <1>13

---------------------------------------------------------------------------
(* Sequences joined.                                                        *)

(* f[i] is the first i sequences of s, joined. *)
JoinsTo(f, s, m, T) ==
    /\ f \in [0 .. m -> Seq(T)]
    /\ f[0] = << >>
    /\ \A i \in 1 .. m : f[i] = f[i - 1] \o s[i]

Joins(f, s, T) == JoinsTo(f, s, Len(s), T)

LEMMA JoinMore ==
    ASSUME NEW T, NEW s, NEW m \in Nat, s[m + 1] \in Seq(T), NEW f, JoinsTo(f, s, m, T)
    PROVE  \E g : JoinsTo(g, s, m + 1, T)
<1> DEFINE x == f[m] \o s[m + 1]
           g == [i \in 0 .. m + 1 |-> IF i = m + 1 THEN x ELSE f[i]]
<1>1. f \in [0 .. m -> Seq(T)] /\ f[0] = << >> /\ \A i \in 1 .. m : f[i] = f[i - 1] \o s[i]
  BY DEF JoinsTo
<1>2. f[m] \in Seq(T)
  BY <1>1
<1>3. x \in Seq(T)
  BY <1>2, ConcatProperties
<1> HIDE DEF x
<1>4. g \in [0 .. m + 1 -> Seq(T)] /\ g[0] = << >>
  BY <1>1, <1>3
<1>5. ASSUME NEW i \in 1 .. m + 1
      PROVE  g[i] = g[i - 1] \o s[i]
  <2>1. CASE i = m + 1
    <3>1. g[i] = x /\ g[i - 1] = f[m]
      BY <2>1
    <3> QED
      BY <2>1, <3>1 DEF x
  <2>2. CASE i # m + 1
    <3>1. i \in 1 .. m /\ g[i] = f[i] /\ g[i - 1] = f[i - 1]
      BY <2>2
    <3>2. f[i] = f[i - 1] \o s[i]
      BY <1>1, <3>1, Zenon
    <3> QED
      BY <3>1, <3>2, Zenon
  <2> QED
    BY <2>1, <2>2
<1> HIDE DEF g
<1>6. JoinsTo(g, s, m + 1, T)
  BY <1>4, <1>5, Zenon DEF JoinsTo
<1> QED
  BY <1>6, Zenon

LEMMA JoinExists ==
    ASSUME NEW T, NEW s \in Seq(Seq(T))
    PROVE  \E f : Joins(f, s, T)
<1> DEFINE n == Len(s)
           S == {m \in Nat : m <= n => \E f : JoinsTo(f, s, m, T)}
<1>1. n \in Nat /\ \A i \in 1 .. n : s[i] \in Seq(T)
  BY ElementOfSeq
<1>2. \E f : JoinsTo(f, s, 0, T)
  <2> DEFINE f == [i \in 0 .. 0 |-> << >>]
  <2>1. f \in [0 .. 0 -> Seq(T)] /\ f[0] = << >> /\ \A i \in 1 .. 0 : f[i] = f[i - 1] \o s[i]
    OBVIOUS
  <2> HIDE DEF f
  <2> QED
    BY <2>1, Zenon DEF JoinsTo
<1>3. 0 \in S
  BY <1>2
<1>4. ASSUME NEW m \in Nat, m \in S, m + 1 <= n
      PROVE  \E g : JoinsTo(g, s, m + 1, T)
  <2>1. m <= n /\ m + 1 \in 1 .. n
    BY <1>1, <1>4
  <2>2. PICK f : JoinsTo(f, s, m, T)
    BY <1>4, <2>1
  <2>3. s[m + 1] \in Seq(T)
    BY <1>1, <2>1, Zenon
  <2> QED
    BY <2>2, <2>3, JoinMore, Zenon
<1>5. ASSUME NEW m \in Nat, m \in S
      PROVE  m + 1 \in S
  <2>1. m + 1 <= n => \E g : JoinsTo(g, s, m + 1, T)
    <3> HIDE DEF S, n
    <3> QED BY <1>4, <1>5
  <2> QED
    BY <2>1
<1>6. Nat \subseteq S
  <2> HIDE DEF S
  <2> QED BY <1>3, <1>5, NatInd
<1>7. n \in S
  BY <1>1, <1>6
<1>8. n <= n
  BY <1>1
<1>9. \E f : JoinsTo(f, s, n, T)
  BY <1>7, <1>8
<1> QED
  BY <1>9 DEF Joins

LEMMA FlattenJoins ==
    ASSUME NEW T, NEW s \in Seq(Seq(T)), NEW f, Joins(f, s, T)
    PROVE  FlattenSeq(s) = f[Len(s)]
<1> DEFINE n == Len(s)
           Step(w, i) == IF i = 1 THEN s[i] ELSE w[i - 1] \o s[i]
           w == CHOOSE w : w = [i \in 1 .. n |-> Step(w, i)]
<1>1. n \in Nat /\ \A i \in 1 .. n : s[i] \in Seq(T)
  BY ElementOfSeq
<1>2. f[0] = << >> /\ \A i \in 1 .. n : f[i] = f[i - 1] \o s[i]
  BY DEF Joins, JoinsTo
<1>3. CASE n = 0
  BY <1>2, <1>3 DEF FlattenSeq
<1>4. CASE n # 0
  <2> DEFINE v == [i \in 1 .. n |-> f[i]]
  <2>1. \A i \in 1 .. n : v[i] = Step(v, i)
    <3> SUFFICES ASSUME NEW i \in 1 .. n PROVE v[i] = Step(v, i)
      OBVIOUS
    <3>0. f[i] = f[i - 1] \o s[i] /\ s[i] \in Seq(T)
      BY <1>1, <1>2, Zenon
    <3>1. CASE i = 1
      <4>1. f[i - 1] = << >>
        BY <1>2, <3>1
      <4>2. << >> \o s[i] = s[i]
        BY <3>0, ConcatEmptySeq
      <4> QED
        BY <3>0, <3>1, <4>1, <4>2
    <3>2. CASE i # 1
      <4>1. i - 1 \in 1 .. n /\ v[i - 1] = f[i - 1] /\ v[i] = f[i]
        BY <1>1, <3>2
      <4> QED
        BY <3>0, <3>2, <4>1
    <3> QED
      BY <3>1, <3>2
  <2>2. v = [i \in 1 .. n |-> Step(v, i)]
    <3> HIDE DEF Step
    <3> QED BY <2>1
  <2> HIDE DEF v
  <2>3. w = [i \in 1 .. n |-> Step(w, i)]
    BY <2>2, Zenon
  <2>4. FlattenSeq(s) = w[n]
    BY <1>4 DEF FlattenSeq
  <2> HIDE DEF w
  <2> DEFINE S == {i \in Nat : i + 1 <= n => w[i + 1] = v[i + 1]}
  <2>5. \A i \in 1 .. n : w[i] = Step(w, i)
    <3> HIDE DEF Step
    <3> QED BY <2>3
  <2>6. 0 \in S
    BY <2>1, <2>5
  <2>7. ASSUME NEW i \in Nat, i \in S
        PROVE  i + 1 \in S
    <3> SUFFICES ASSUME (i + 1) + 1 <= n PROVE w[(i + 1) + 1] = v[(i + 1) + 1]
      OBVIOUS
    <3>1. /\ w[i + 1] = v[i + 1] /\ (i + 1) + 1 \in 1 .. n /\ (i + 1) + 1 # 1
          /\ ((i + 1) + 1) - 1 = i + 1
      BY <1>1, <2>7
    <3> QED
      BY <2>1, <2>5, <3>1
  <2>8. Nat \subseteq S
    <3> HIDE DEF S
    <3> QED BY <2>6, <2>7, NatInd
  <2>9. w[n] = v[n]
    <3>1. n - 1 \in Nat /\ (n - 1) + 1 = n /\ n <= n
      BY <1>1, <1>4
    <3>2. n - 1 \in S
      BY <2>8, <3>1
    <3>3. (n - 1) + 1 <= n => w[(n - 1) + 1] = v[(n - 1) + 1]
      BY <3>2
    <3> QED
      BY <3>1, <3>3
  <2>10. v[n] = f[n]
    BY <1>1, <1>4 DEF v
  <2> QED
    BY <2>4, <2>9, <2>10
<1> QED
  BY <1>3, <1>4

(* z is x with y behind it. *)
IsConcat(x, y, z) ==
    /\ Len(x) \in Nat /\ Len(y) \in Nat
    /\ Len(z) = Len(x) + Len(y)
    /\ \A k \in 1 .. Len(x) : z[k] = x[k]
    /\ \A k \in 1 .. Len(y) : z[Len(x) + k] = y[k]

LEMMA Joined ==
    ASSUME NEW T, NEW s \in Seq(Seq(T)), NEW f, Joins(f, s, T)
    PROVE  \A i \in 1 .. Len(s) : IsConcat(f[i - 1], s[i], f[i])
<1> SUFFICES ASSUME NEW i \in 1 .. Len(s)
             PROVE  IsConcat(f[i - 1], s[i], f[i])
  OBVIOUS
<1>1. f \in [0 .. Len(s) -> Seq(T)] /\ f[i] = f[i - 1] \o s[i]
  BY DEF Joins, JoinsTo
<1>2. i - 1 \in 0 .. Len(s)
  OBVIOUS
<1>3. f[i - 1] \in Seq(T)
  BY <1>1, <1>2
<1>4. s[i] \in Seq(T)
  BY ElementOfSeq
<1> DEFINE x == f[i - 1]
           y == s[i]
<1> HIDE DEF x, y
<1>5. x \in Seq(T) /\ y \in Seq(T) /\ f[i] = x \o y
  BY <1>1, <1>3, <1>4 DEF x, y
<1>6. Len(x) \in Nat /\ Len(y) \in Nat
  BY <1>5
<1>7. /\ Len(f[i]) = Len(x) + Len(y)
      /\ \A k \in 1 .. Len(x) : f[i][k] = x[k]
      /\ \A k \in 1 .. Len(y) : f[i][Len(x) + k] = y[k]
  BY <1>5, Concat
<1>8. IsConcat(x, y, f[i])
  BY <1>6, <1>7 DEF IsConcat
<1> QED
  BY <1>8 DEF x, y

(* The first parts stand at the beginning of the whole.                     *)
LEMMA JoinedBegins ==
    ASSUME NEW T, NEW s \in Seq(Seq(T)), NEW f, Joins(f, s, T), NEW i \in 0 .. Len(s)
    PROVE  /\ Len(f[i]) \in Nat /\ Len(f[i]) <= Len(f[Len(s)])
           /\ \A k \in 1 .. Len(f[i]) : f[Len(s)][k] = f[i][k]
<1> DEFINE n == Len(s)
           Good(m) == /\ Len(f[i]) <= Len(f[m])
                      /\ \A k \in 1 .. Len(f[i]) : f[m][k] = f[i][k]
           S == {m \in Nat : i + m <= n => Good(i + m)}
<1>1. n \in Nat /\ i \in Nat /\ i <= n
  OBVIOUS
<1>2. f \in [0 .. n -> Seq(T)]
  BY DEF Joins, JoinsTo
<1>3. \A j \in 0 .. n : Len(f[j]) \in Nat
  BY <1>2
<1>4. Len(f[i]) \in Nat
  BY <1>3
<1>5. \A j \in 1 .. n : IsConcat(f[j - 1], s[j], f[j])
  <2> HIDE DEF Good, S
  <2> QED BY Joined, Zenon
<1> HIDE DEF n
<1>6. 0 \in S
  <2>1. i + 0 = i
    BY <1>1
  <2>2. Good(i)
    BY <1>4
  <2> HIDE DEF Good
  <2> QED
    BY <2>1, <2>2
<1>7. ASSUME NEW m \in Nat, m \in S, i + (m + 1) <= n
      PROVE  Good(i + (m + 1))
  <2> DEFINE j == i + (m + 1)
             p == j - 1
  <2>1. j \in 1 .. n /\ p = i + m /\ i + m <= n
    BY <1>1, <1>7
  <2>2. Good(i + m)
    <3> HIDE DEF Good
    <3> QED BY <1>7, <2>1
  <2> HIDE DEF j
  <2>3. /\ Len(f[j]) = Len(f[p]) + Len(s[j])
        /\ Len(f[p]) \in Nat /\ Len(s[j]) \in Nat
        /\ \A k \in 1 .. Len(f[p]) : f[j][k] = f[p][k]
    <3>1. IsConcat(f[p], s[j], f[j])
      BY <1>5, <2>1
    <3> HIDE DEF p
    <3> QED BY <3>1 DEF IsConcat
  <2>4. Good(p)
    <3> HIDE DEF p, Good
    <3> QED BY <2>1, <2>2
  <2> HIDE DEF p
  <2>5. Len(f[i]) <= Len(f[j])
    <3> DEFINE x == Len(f[i])
               y == Len(f[p])
               z == Len(s[j])
               e == Len(f[j])
    <3>1. x \in Nat /\ y \in Nat /\ z \in Nat /\ e = y + z /\ x <= y
      BY <1>4, <2>3, <2>4
    <3> HIDE DEF x, y, z, e
    <3>2. x <= e
      BY <3>1
    <3> QED
      BY <3>2 DEF x, e
  <2>6. ASSUME NEW k \in 1 .. Len(f[i])
        PROVE  f[j][k] = f[i][k]
    <3>1. k \in 1 .. Len(f[p])
      BY <1>4, <2>3, <2>4
    <3>2. f[p][k] = f[i][k]
      BY <2>4
    <3> QED
      BY <2>3, <3>1, <3>2
  <2> QED
    BY <2>5, <2>6 DEF j
<1>8. \A m \in Nat : m \in S => m + 1 \in S
  <2> HIDE DEF Good
  <2> QED BY <1>7
<1>9. Nat \subseteq S
  <2> HIDE DEF S
  <2> QED BY <1>6, <1>8, NatInd
<1>10. Good(n)
  <2>1. n - i \in Nat /\ i + (n - i) = n
    BY <1>1
  <2>2. n - i \in S
    BY <1>9, <2>1
  <2> HIDE DEF Good
  <2>3. i + (n - i) <= n => Good(i + (n - i))
    BY <2>2
  <2> QED
    BY <1>1, <2>1, <2>3
<1> QED
  BY <1>4, <1>10 DEF n

(* y stands in z behind its first n elements. *)
Stands(y, z, n) ==
    /\ n + Len(y) <= Len(z)
    /\ \A k \in 1 .. Len(y) : z[n + k] = y[k]

(* Each of the joined sequences stands behind those before it.              *)
LEMMA JoinStands ==
    ASSUME NEW T, NEW s \in Seq(Seq(T)), NEW f, Joins(f, s, T)
    PROVE  \A i \in 1 .. Len(s) : Stands(s[i], f[Len(s)], Len(f[i - 1]))
<1> SUFFICES ASSUME NEW i \in 1 .. Len(s)
             PROVE  Stands(s[i], f[Len(s)], Len(f[i - 1]))
  OBVIOUS
<1>1. i \in 0 .. Len(s)
  OBVIOUS
<1>2. /\ Len(f[i]) = Len(f[i - 1]) + Len(s[i])
      /\ Len(f[i - 1]) \in Nat /\ Len(s[i]) \in Nat
      /\ \A k \in 1 .. Len(s[i]) : f[i][Len(f[i - 1]) + k] = s[i][k]
  <2>1. IsConcat(f[i - 1], s[i], f[i])
    BY Joined, Zenon
  <2> QED
    BY <2>1 DEF IsConcat
<1>3. /\ Len(f[i]) <= Len(f[Len(s)])
      /\ \A k \in 1 .. Len(f[i]) : f[Len(s)][k] = f[i][k]
  BY <1>1, JoinedBegins
<1>4. ASSUME NEW k \in 1 .. Len(s[i])
      PROVE  f[Len(s)][Len(f[i - 1]) + k] = s[i][k]
  <2> DEFINE a == Len(f[i - 1]) + k
  <2>1. a \in 1 .. Len(f[i])
    <3> DEFINE x == Len(f[i - 1])
               y == Len(s[i])
               z == Len(f[i])
    <3>1. x \in Nat /\ y \in Nat /\ z = x + y /\ k \in 1 .. y
      BY <1>2
    <3> HIDE DEF x, y, z
    <3>2. x + k \in 1 .. z
      BY <3>1
    <3> QED
      BY <3>2 DEF x, y, z
  <2>2. f[i][a] = s[i][k]
    BY <1>2
  <2> HIDE DEF a
  <2>3. f[Len(s)][a] = s[i][k]
    BY <1>3, <2>1, <2>2
  <2> QED
    BY <2>3 DEF a
<1> QED
  BY <1>2, <1>3, <1>4 DEF Stands

---------------------------------------------------------------------------
(* Texts.                                                                   *)

(* Characters joined, with nothing in between, are UTF-8: where one stands, *)
(* or after nothings, the next one stands, unless it is the end.            *)
LEMMA JoinedIsUtf8 ==
    ASSUME NEW s \in Seq(Seq(Octets)), \A i \in 1 .. Len(s) : s[i] \in Chars \cup {<< >>},
           NEW f, Joins(f, s, Octets)
    PROVE  IsUtf8(f[Len(s)])
<1> DEFINE n == Len(s)
           t == f[n]
           cuts == {Len(f[k]) : k \in 0 .. n}
           Leads(k) == Len(f[k]) # Len(t) =>
                         \E c \in Chars : StandsAt(c, t, Len(f[k])) /\ Len(f[k]) + Len(c) \in cuts
           S == {m \in Nat : m <= n => Leads(n - m)}
<1>1. n \in Nat /\ f \in [0 .. n -> Seq(Octets)] /\ f[0] = << >>
  BY DEF Joins, JoinsTo
<1>2. \A i \in 1 .. n : IsConcat(f[i - 1], s[i], f[i])
  <2> HIDE DEF n
  <2> QED BY Joined, Zenon DEF n
<1>3. \A i \in 1 .. n : Stands(s[i], t, Len(f[i - 1]))
  BY JoinStands, Zenon
<1>4. \A k \in 0 .. n : Len(f[k]) \in Nat /\ Len(f[k]) <= Len(t)
  BY JoinedBegins
<1> HIDE DEF n, t
<1>5. ASSUME NEW m \in Nat, m + 1 <= n, Leads(n - m)
      PROVE  Leads(n - (m + 1))
  <2> DEFINE k == n - (m + 1)
             i == n - m
             c == s[i]
  <2>1. k \in 0 .. n /\ i \in 1 .. n /\ i \in 0 .. n /\ k = i - 1
    BY <1>1, <1>5
  <2>2. c \in Chars \/ c = << >>
    <3> HIDE DEF i
    <3> QED BY <2>1 DEF n
  <2>3. /\ Len(f[i]) = Len(f[k]) + Len(c) /\ Len(f[k]) \in Nat /\ Len(c) \in Nat
    <3>1. IsConcat(f[i - 1], s[i], f[i])
      BY <1>2, <2>1
    <3> HIDE DEF i, k
    <3> QED BY <2>1, <3>1 DEF IsConcat
  <2>4. Stands(c, t, Len(f[k]))
    <3> HIDE DEF i, k
    <3> QED BY <1>3, <2>1
  <2>5. Len(f[i]) \in cuts
    <3> HIDE DEF i, k
    <3> QED BY <2>1
  <2> SUFFICES ASSUME Len(f[k]) # Len(t)
               PROVE  \E d \in Chars : StandsAt(d, t, Len(f[k])) /\ Len(f[k]) + Len(d) \in cuts
    OBVIOUS
  <2> HIDE DEF k, cuts
  <2>6. CASE c = << >>
    <3>1. Len(f[i]) = Len(f[k])
      <4>1. Len(c) = 0
        BY <2>6
      <4> HIDE DEF i, c
      <4> QED BY <2>3, <4>1
    <3> QED
      BY <1>5, <3>1
  <2>7. CASE c \in Chars
    <3>1. c \in Seq(Octets)
      BY <2>7, CharsAssumption DEF Octets
    <3> HIDE DEF c, i
    <3>2. StandsAt(c, t, Len(f[k]))
      <4>1. DOMAIN c = 1 .. Len(c)
        BY <3>1
      <4> QED BY <2>4, <4>1 DEF Stands, StandsAt
    <3>3. Len(f[k]) + Len(c) \in cuts
      BY <2>3, <2>5
    <3> QED
      BY <2>7, <3>2, <3>3
  <2> QED
    BY <2>2, <2>6, <2>7
<1>6. 0 \in S
  <2>1. n - 0 = n
    BY <1>1
  <2>2. Leads(n)
    BY DEF t
  <2> HIDE DEF Leads
  <2> QED BY <2>1, <2>2
<1>7. \A m \in Nat : m \in S => m + 1 \in S
  <2> SUFFICES ASSUME NEW m \in Nat, m \in S, m + 1 <= n
               PROVE  Leads(n - (m + 1))
    OBVIOUS
  <2>1. Leads(n - m)
    <3> HIDE DEF Leads
    <3> QED BY <1>1
  <2> HIDE DEF Leads
  <2> QED
    BY <1>5, <2>1
<1>8. Nat \subseteq S
  <2> HIDE DEF S
  <2> QED BY <1>6, <1>7, NatInd
<1>9. \A k \in 0 .. n : Leads(k)
  <2> SUFFICES ASSUME NEW k \in 0 .. n PROVE Leads(k)
    OBVIOUS
  <2>1. n - k \in Nat /\ n - k <= n /\ n - (n - k) = k
    BY <1>1
  <2> HIDE DEF Leads
  <2>2. Leads(n - (n - k))
    BY <1>8, <2>1
  <2> QED
    BY <2>1, <2>2
<1>10. cuts \in SUBSET (0 .. Len(t)) /\ {0, Len(t)} \subseteq cuts
  <2>1. cuts \in SUBSET (0 .. Len(t))
    <3>1. 0 \in 0 .. n /\ n \in 0 .. n /\ Len(t) \in Nat
      BY <1>1, <1>4 DEF t
    <3> QED BY <1>4, <3>1
  <2>2. 0 \in cuts
    <3>1. 0 \in 0 .. n /\ Len(f[0]) = 0
      BY <1>1
    <3> QED BY <3>1
  <2>3. Len(t) \in cuts
    <3>1. n \in 0 .. n /\ t = f[n]
      BY <1>1 DEF t
    <3> QED BY <3>1
  <2> QED BY <2>1, <2>2, <2>3
<1>11. \A a \in cuts \ {Len(t)} : \E c \in Chars : StandsAt(c, t, a) /\ a + Len(c) \in cuts
  <2> SUFFICES ASSUME NEW k \in 0 .. n, Len(f[k]) # Len(t)
               PROVE  \E c \in Chars : StandsAt(c, t, Len(f[k])) /\ Len(f[k]) + Len(c) \in cuts
    OBVIOUS
  <2>1. Leads(k)
    BY <1>9
  <2> QED
    BY <2>1
<1> HIDE DEF cuts
<1>12. IsUtf8(t)
  BY <1>10, <1>11, Zenon DEF IsUtf8
<1> QED
  BY <1>12 DEF t, n

(* Whatever the bytes of a text are, what is read of it is UTF-8. *)
LEMMA LossyIsUtf8 ==
    ASSUME NEW s \in Seq(Octets)
    PROVE  IsUtf8(FromUtf8Lossy(s))
<1> DEFINE n == Len(s)
           part(i) == IF i - 1 \in UnitStarts(s) THEN UnitAt(s, i - 1) ELSE << >>
           parts == [i \in 1 .. n |-> part(i)]
<1>1. CASE IsUtf8(s)
  BY <1>1 DEF FromUtf8Lossy
<1>2. CASE ~ IsUtf8(s)
  <2>1. \A i \in 1 .. n : part(i) \in Chars \cup {<< >>}
    <3>1. \A a : UnitAt(s, a) \in Chars
      BY CharsAssumption, Zenon DEF UnitAt, CharsAt
    <3> QED BY <3>1
  <2>2. Chars \subseteq Seq(Octets) /\ << >> \in Seq(Octets) /\ n \in Nat
    BY CharsAssumption DEF Octets
  <2>3. FromUtf8Lossy(s) = FlattenSeq(parts)
    BY <1>2 DEF FromUtf8Lossy
  <2> HIDE DEF part, n
  <2>4. /\ parts \in Seq(Seq(Octets)) /\ Len(parts) = n
        /\ \A i \in 1 .. n : parts[i] \in Chars \cup {<< >>}
    <3>1. \A i \in 1 .. n : parts[i] = part(i)
      OBVIOUS
    <3>2. \A i \in 1 .. n : parts[i] \in Chars \cup {<< >>}
      BY <2>1, <3>1, Zenon
    <3>3. \A i \in 1 .. n : parts[i] \in Seq(Octets)
      BY <2>2, <3>2
    <3>4. parts = [i \in 1 .. n |-> parts[i]]
      OBVIOUS
    <3> HIDE DEF parts
    <3>5. parts \in Seq(Seq(Octets)) /\ Len(parts) = n
      BY <2>2, <3>3, <3>4
    <3> QED
      BY <3>2, <3>5
  <2> HIDE DEF parts
  <2>5. PICK f : Joins(f, parts, Octets)
    BY <2>4, JoinExists
  <2>6. FlattenSeq(parts) = f[Len(parts)]
    BY <2>4, <2>5, FlattenJoins
  <2>7. IsUtf8(f[Len(parts)])
    BY <2>4, <2>5, JoinedIsUtf8
  <2> QED
    BY <2>3, <2>6, <2>7
<1> QED
  BY <1>1, <1>2

---------------------------------------------------------------------------
(* Columns.                                                                 *)

(* The bytes of a column are those its serial type says, and its value.     *)
Reading(c) == Value(c.serial, ColumnBytes(c))

ColumnReads(c) ==
    /\ c.serial \in Nat /\ c.serial < VarintLimit /\ c.serial \notin ReservedSerials
    /\ ColumnBytes(c) \in Seq(Octets)
    /\ Len(ColumnBytes(c)) = SerialTypeLen(c.serial)
    /\ ReadsAs(Reading(c), c.value)

LEMMA SerialLens ==
    /\ \A s \in {0, 8, 9} : SerialTypeLen(s) = 0
    /\ \A s \in 1 .. 4 : SerialTypeLen(s) = s
    /\ SerialTypeLen(5) = 6 /\ SerialTypeLen(6) = 8 /\ SerialTypeLen(7) = 8
    /\ \A s \in Nat : s >= 12 => SerialTypeLen(s) = (s - 12) \div 2
BY DEF SerialTypeLen

LEMMA ColumnIsRead ==
    ASSUME NEW c, IsColumn(c)
    PROVE  ColumnReads(c)
<1> DEFINE s == c.serial
           v == c.value
           n == Len(v.is)
           half == Group * Power(ByteBase)[SerialTypeLen(s) - 1]
<1>1. /\ s \in 0 .. VarintLimit - 1 /\ s \notin ReservedSerials
      /\ v = [kind |-> v.kind, is |-> v.is]
  BY DEF IsColumn
<1>2. s \in Nat /\ s < VarintLimit
  BY <1>1, LimitIs
<1>3. \/ s = 0 /\ v.kind = "null" /\ v.is = << >>
      \/ s = 8 /\ v.kind = "int" /\ v.is = <<0>>
      \/ s = 9 /\ v.kind = "int" /\ v.is = <<1>>
      \/ /\ s \in 1 .. 6
         /\ v.kind = "int" /\ v.is = <<v.is[1]>>
         /\ v.is[1] \in -half .. half - 1
      \/ s = 7 /\ v.kind = "float" /\ v.is \in Seq(Octets) /\ n = 8
      \/ s = 12 + 2 * n /\ v.kind = "blob" /\ v.is \in Seq(Octets)
      \/ s = 13 + 2 * n /\ v.kind = "text" /\ v.is \in Seq(Octets)
  BY DEF IsColumn, Octets
<1>4. ASSUME ColumnBytes(c) \in Seq(Octets),
             Len(ColumnBytes(c)) = SerialTypeLen(s), ReadsAs(Value(s, ColumnBytes(c)), v)
      PROVE  ColumnReads(c)
  BY <1>1, <1>2, <1>4 DEF ColumnReads, Reading
<1>0. v.kind # "text" => ReadsAs(v, v)
  BY DEF ReadsAs
<1>5. CASE s \in {0, 8, 9}
  <2>1. ColumnBytes(c) = << >>
    BY <1>5 DEF ColumnBytes
  <2>2. << >> \in Seq(Octets) /\ Len(<< >>) = 0
    OBVIOUS
  <2>3. Value(s, << >>) = v
    <3>1. CASE s = 0
      BY <1>1, <1>3, <3>1 DEF Value
    <3>2. CASE s = 8
      BY <1>1, <1>3, <3>2 DEF Value
    <3>3. CASE s = 9
      BY <1>1, <1>3, <3>3 DEF Value
    <3> QED
      BY <1>5, <3>1, <3>2, <3>3
  <2>4. v.kind # "text"
    BY <1>3, <1>5
  <2> QED
    BY <1>0, <1>4, <1>5, <2>1, <2>2, <2>3, <2>4, SerialLens
<1>6. CASE s \in 1 .. 6
  <2> DEFINE l == SerialTypeLen(s)
             x == v.is[1]
             raw == BeBytes(x, l)
  <2>1. l \in Nat \ {0}
    BY <1>6, SerialLens
  <2>2. l - 1 \in Nat
    BY <2>1
  <2>3. half \in Nat
    <3>1. Power(ByteBase)[l - 1] \in Nat
      BY <2>2, BytePowers
    <3> HIDE DEF l
    <3>2. half = Group * Power(ByteBase)[l - 1]
      BY DEF l
    <3> QED
      BY <3>1, <3>2, Bases
  <2>4. /\ v.kind = "int" /\ v.is = <<x>> /\ x \in -half .. half - 1
    BY <1>3, <1>6
  <2>5. x \in Int /\ -half <= x /\ x < half
    BY <2>3, <2>4
  <2>6. ReadBeInt(raw) = x
    <3> HIDE DEF x
    <3> QED BY <2>1, <2>5, IntRead
  <2>7. raw \in Seq(Octets) /\ Len(raw) = l
    BY <2>1, <2>5, ByteDigits DEF BeBytes
  <2>8. ColumnBytes(c) = raw
    BY <1>6 DEF ColumnBytes
  <2>9. Value(s, raw) = [kind |-> "int", is |-> <<ReadBeInt(raw)>>]
    <3> HIDE DEF raw
    <3>1. s # 0
      BY <1>6
    <3> QED BY <1>6, <3>1 DEF Value
  <2> QED
    BY <1>0, <1>1, <1>4, <2>4, <2>6, <2>7, <2>8, <2>9
<1>7. CASE s = 7 /\ v.kind = "float" /\ v.is \in Seq(Octets) /\ n = 8
  <2>1. ColumnBytes(c) = v.is
    BY <1>7 DEF ColumnBytes
  <2>2. Value(s, v.is) = [kind |-> "float", is |-> v.is]
    BY <1>7 DEF Value
  <2> QED
    BY <1>0, <1>1, <1>4, <1>7, <2>1, <2>2, SerialLens
<1>8. CASE /\ v.is \in Seq(Octets)
           /\ \/ s = 12 + 2 * n /\ v.kind = "blob"
              \/ s = 13 + 2 * n /\ v.kind = "text"
  <2>0. n \in Nat /\ (s = 12 + 2 * n \/ s = 13 + 2 * n)
    BY <1>8
  <2>1. n \in Nat /\ s >= 12 /\ s \notin {0, 7, 8, 9} /\ s \notin 1 .. 6
    <3> HIDE DEF n, s
    <3> QED BY <2>0
  <2>2. ColumnBytes(c) = v.is
    BY <2>1 DEF ColumnBytes
  <2>3. SerialTypeLen(s) = n
    <3>1. SerialTypeLen(s) = (s - 12) \div 2
      BY <1>2, <2>1, SerialLens
    <3> HIDE DEF n, s
    <3>2. (s - 12) \div 2 = n
      BY <1>8, <2>1, SMTT(30)
    <3> QED
      BY <3>1, <3>2
  <2>4. Value(s, v.is) = IF s % 2 = 0 THEN [kind |-> "blob", is |-> v.is]
                         ELSE [kind |-> "text", is |-> FromUtf8Lossy(v.is)]
    BY <2>1 DEF Value
  <2>5. v.kind = IF s % 2 = 0 THEN "blob" ELSE "text"
    <3> HIDE DEF n, s
    <3>1. s = 12 + 2 * n => s % 2 = 0
      BY <2>1
    <3>2. s = 13 + 2 * n => s % 2 = 1
      BY <2>1
    <3> QED
      BY <1>8, <3>1, <3>2
  <2>6. ReadsAs(Value(s, v.is), v)
    <3>1. CASE v.kind # "text"
      BY <1>0, <1>1, <2>4, <2>5, <3>1
    <3>2. CASE v.kind = "text" /\ IsUtf8(v.is)
      <4>1. FromUtf8Lossy(v.is) = v.is
        BY <3>2 DEF FromUtf8Lossy
      <4> QED BY <1>1, <2>4, <2>5, <3>2, <4>1 DEF ReadsAs
    <3>3. CASE v.kind = "text" /\ ~ IsUtf8(v.is)
      <4>1. IsUtf8(FromUtf8Lossy(v.is))
        BY <1>8, LossyIsUtf8
      <4>2. Value(s, v.is) = [kind |-> "text", is |-> FromUtf8Lossy(v.is)]
        BY <2>4, <2>5, <3>3
      <4>3. PICK x : x = FromUtf8Lossy(v.is)
        OBVIOUS
      <4> QED BY <3>3, <4>1, <4>2, <4>3 DEF ReadsAs
    <3> QED
      BY <3>1, <3>2, <3>3
  <2> QED
    BY <1>4, <1>8, <2>2, <2>3, <2>6
<1> QED
  BY <1>3, <1>5, <1>6, <1>7, <1>8

---------------------------------------------------------------------------
(* Where varints and columns stand.                                         *)

LEMMA DropIs ==
    ASSUME NEW T, NEW s \in Seq(T), NEW n \in 0 .. Len(s)
    PROVE  /\ Drop(s, n) \in Seq(T) /\ Len(Drop(s, n)) = Len(s) - n
           /\ \A i \in 1 .. Len(s) - n : Drop(s, n)[i] = s[n + i]
<1> DEFINE m == n + 1
           t == SubSeq(s, m, Len(s))
<1>1. m \in 1 .. Len(s) + 1 /\ Len(s) \in Nat /\ Len(s) \in m - 1 .. Len(s)
  OBVIOUS
<1>2. t \in Seq(T) /\ Len(t) = Len(s) - m + 1
  <2> HIDE DEF m
  <2> QED BY <1>1, Slice
<1>3. \A i \in 1 .. Len(s) - m + 1 : t[i] = s[m + i - 1]
  <2> HIDE DEF m
  <2>1. m \in Int /\ Len(s) \in Int /\ \A i \in m .. Len(s) : s[i] \in T
    BY <1>1
  <2> QED BY <2>1, SubSeqProperties
<1>4. Drop(s, n) = t
  BY DEF Drop
<1> HIDE DEF t
<1>5. Len(s) - m + 1 = Len(s) - n
  BY <1>1
<1>6. \A i \in 1 .. Len(s) - n : m + i - 1 = n + i
  BY <1>1
<1> HIDE DEF m
<1> QED
  BY <1>2, <1>3, <1>4, <1>5, <1>6

LEMMA DropDrop ==
    ASSUME NEW T, NEW s \in Seq(T), NEW n \in Nat, NEW m \in Nat, n + m <= Len(s)
    PROVE  Drop(Drop(s, n), m) = Drop(s, n + m)
<1> DEFINE t == Drop(s, n)
           u == Drop(t, m)
           v == Drop(s, n + m)
<1>1. Len(s) \in Nat /\ n \in 0 .. Len(s) /\ n + m \in 0 .. Len(s) /\ m \in 0 .. Len(s) - n
  OBVIOUS
<1>2. t \in Seq(T) /\ Len(t) = Len(s) - n /\ \A i \in 1 .. Len(s) - n : t[i] = s[n + i]
  BY <1>1, DropIs
<1> HIDE DEF t
<1>3. u \in Seq(T) /\ Len(u) = Len(t) - m /\ \A i \in 1 .. Len(t) - m : u[i] = t[m + i]
  <2>1. m \in 0 .. Len(t) /\ t \in Seq(T)
    BY <1>1, <1>2
  <2> QED
    BY <2>1, DropIs
<1>4. /\ v \in Seq(T) /\ Len(v) = Len(s) - (n + m)
      /\ \A i \in 1 .. Len(s) - (n + m) : v[i] = s[(n + m) + i]
  BY <1>1, DropIs
<1> HIDE DEF u, v
<1>5. Len(u) = Len(v)
  BY <1>1, <1>2, <1>3, <1>4
<1>6. ASSUME NEW i \in 1 .. Len(u)
      PROVE  u[i] = v[i]
  <2>1. /\ i \in 1 .. Len(t) - m /\ m + i \in 1 .. Len(s) - n /\ i \in 1 .. Len(s) - (n + m)
        /\ n + (m + i) = (n + m) + i
    BY <1>1, <1>2, <1>3
  <2> QED
    BY <1>2, <1>3, <1>4, <2>1
<1>7. u = v
  BY <1>3, <1>4, <1>5, <1>6, SeqEqual
<1> QED
  BY <1>7 DEF t, u, v

(* A varint that stands at the beginning is read, and nothing else.         *)
LEMMA VarintStands ==
    ASSUME NEW v \in Nat, v < VarintLimit, NEW bytes \in Seq(Octets),
           Stands(WriteVarint(v), bytes, 0)
    PROVE  ReadVarint(bytes) = {[value |-> v, used |-> Len(WriteVarint(v))]}
<1> DEFINE w == WriteVarint(v)
<1>1. bytes \in Seq(Nat)
  BY BytesAre DEF Octets
<1>2. Len(w) \in Nat
  BY WriteBounds, Bases
<1>3. Len(w) <= Len(bytes) /\ \A i \in 1 .. Len(w) : bytes[i] = w[i]
  <2> HIDE DEF w
  <2>1. Stands(w, bytes, 0)
    BY DEF w
  <2> QED
    BY <1>2, <2>1 DEF Stands
<1>4. Len(w) \in VarintEnds(bytes) /\ VarintValue(bytes, Len(w)) = v
  BY <1>1, <1>3, Written
<1> HIDE DEF w
<1>5. VarintEnds(bytes) = {Len(w)}
  BY <1>1, <1>4, OneEnd
<1>6. ReadVarint(bytes) = {[value |-> v, used |-> Len(w)]}
  BY <1>4, <1>5, ReadIs
<1> QED
  BY <1>6 DEF w

(* The bytes of a record that a file may hold: what agrees with s as far as *)
(* both go.                                                                 *)
Agrees(t, s) == \A i \in 1 .. Len(s) : i <= Len(t) => t[i] = s[i]

LEMMA Begins ==
    ASSUME NEW T, NEW s \in Seq(T), NEW t \in Seq(T), Len(s) <= Len(t), Agrees(t, s)
    PROVE  SubSeq(t, 1, Len(s)) = s
<1> DEFINE u == SubSeq(t, 1, Len(s))
<1>1. Len(s) \in Nat /\ Len(t) \in Nat
  OBVIOUS
<1>2. 1 \in 1 .. Len(t) + 1 /\ Len(s) \in 1 - 1 .. Len(t) /\ \A i \in 1 .. Len(s) : t[i] \in T
  BY <1>1
<1>3. u \in Seq(T) /\ Len(u) = Len(s) - 1 + 1
  BY <1>2, Slice
<1>4. \A i \in 1 .. Len(s) - 1 + 1 : u[i] = t[1 + i - 1]
  BY <1>1, <1>2, SubSeqProperties
<1> HIDE DEF u
<1>5. Len(u) = Len(s)
  BY <1>1, <1>3
<1>6. ASSUME NEW i \in 1 .. Len(u)
      PROVE  u[i] = s[i]
  <2>1. i \in 1 .. Len(s) - 1 + 1 /\ 1 + i - 1 = i /\ i \in 1 .. Len(s) /\ i <= Len(t)
    BY <1>1, <1>5
  <2>2. t[i] = s[i]
    BY <2>1 DEF Agrees
  <2> QED
    BY <1>4, <2>1, <2>2
<1>7. u = s
  BY <1>3, <1>5, <1>6, SeqEqual
<1> QED
  BY <1>7 DEF u

(* One turn of the loop, over the serial type of a column and over as much  *)
(* of its bytes as there is.                                                *)
LEMMA ColumnStep ==
    ASSUME NEW c, ColumnReads(c),
           NEW at, at.header \in Seq(Octets), at.body \in Seq(Octets),
           Stands(WriteVarint(c.serial), at.header, 0), Agrees(at.body, ColumnBytes(c))
    PROVE  DecodeColumn(at) =
             IF Len(ColumnBytes(c)) <= Len(at.body)
             THEN {[header |-> Drop(at.header, Len(WriteVarint(c.serial))),
                    body   |-> Drop(at.body, Len(ColumnBytes(c))),
                    values |-> Append(at.values, Reading(c))]}
             ELSE {}
<1> DEFINE v == c.serial
           n == Len(WriteVarint(v))
           raw == ColumnBytes(c)
           read == [value |-> v, used |-> n]
           next(s) == [header |-> Drop(at.header, s.used),
                       body   |-> Drop(at.body, SerialTypeLen(s.value)),
                       values |-> Append(at.values,
                                         Value(s.value, SubSeq(at.body, 1, SerialTypeLen(s.value))))]
           S == {s \in ReadVarint(at.header) : Decodable(s.value, at.body)}
<1>1. /\ v \in Nat /\ v < VarintLimit /\ v \notin ReservedSerials
      /\ raw \in Seq(Octets) /\ Len(raw) = SerialTypeLen(v) /\ Value(v, raw) = Reading(c)
  BY DEF ColumnReads, Reading
<1>2. ReadVarint(at.header) = {read}
  BY <1>1, VarintStands
<1>3. read.value = v /\ read.used = n
  OBVIOUS
<1>4. DecodeColumn(at) = {next(s) : s \in S}
  BY DEF DecodeColumn
<1>5. Decodable(read.value, at.body) <=> Len(raw) <= Len(at.body)
  BY <1>1, <1>3 DEF Decodable
<1>6. CASE Len(raw) <= Len(at.body)
  <2>1. S = {read}
    <3> HIDE DEF read
    <3> QED BY <1>2, <1>5, <1>6
  <2>2. SubSeq(at.body, 1, Len(raw)) = raw
    BY <1>1, <1>6, Begins
  <2>3. next(read) = [header |-> Drop(at.header, n),
                      body   |-> Drop(at.body, Len(raw)),
                      values |-> Append(at.values, Reading(c))]
    <3> HIDE DEF raw, n, v, read
    <3> QED BY <1>1, <1>3, <2>2
  <2> HIDE DEF next, S
  <2>4. DecodeColumn(at) = {next(read)}
    BY <1>4, <2>1
  <2> QED
    BY <1>6, <2>3, <2>4
<1>7. CASE ~ (Len(raw) <= Len(at.body))
  <2>1. S = {}
    <3> HIDE DEF read
    <3> QED BY <1>2, <1>5, <1>7
  <2> HIDE DEF next, S
  <2>2. DecodeColumn(at) = {}
    BY <1>4, <2>1
  <2> QED
    BY <1>7, <2>2
<1> QED
  BY <1>6, <1>7

(* No serial type in no bytes. *)
LEMMA NoColumn ==
    ASSUME NEW at, at.header = << >>
    PROVE  DecodeColumn(at) = {}
<1>1. VarintEnds(<< >>) = {}
  BY DEF VarintEnds
<1>2. ReadVarint(at.header) = {}
  BY <1>1, ReadIs
<1> QED
  BY <1>2 DEF DecodeColumn

---------------------------------------------------------------------------
(* The columns of a record.                                                 *)

AllRead(columns) ==
    Len(columns) \in Nat /\ \A i \in 1 .. Len(columns) : ColumnReads(columns[i])

Serials(columns) == [i \in 1 .. Len(columns) |-> WriteVarint(columns[i].serial)]
Bodies(columns)  == [i \in 1 .. Len(columns) |-> ColumnBytes(columns[i])]

LEMMA PartsAre ==
    ASSUME NEW columns, AllRead(columns)
    PROVE  /\ Serials(columns) \in Seq(Seq(Octets)) /\ Len(Serials(columns)) = Len(columns)
           /\ Bodies(columns) \in Seq(Seq(Octets)) /\ Len(Bodies(columns)) = Len(columns)
           /\ \A i \in 1 .. Len(columns) :
                /\ Serials(columns)[i] = WriteVarint(columns[i].serial)
                /\ Bodies(columns)[i] = ColumnBytes(columns[i])
                /\ Len(Serials(columns)[i]) \in 1 .. MaxBytes
<1> DEFINE n == Len(columns)
           s == Serials(columns)
           b == Bodies(columns)
<1>1. n \in Nat /\ \A i \in 1 .. n : ColumnReads(columns[i])
  BY DEF AllRead
<1>2. \A i \in 1 .. n : s[i] = WriteVarint(columns[i].serial) /\ b[i] = ColumnBytes(columns[i])
  BY DEF Serials, Bodies
<1>3. s = [i \in 1 .. n |-> s[i]] /\ b = [i \in 1 .. n |-> b[i]]
  BY DEF Serials, Bodies
<1> HIDE DEF n, s, b
<1>4. \A i \in 1 .. n : /\ s[i] \in Seq(Octets) /\ Len(s[i]) \in 1 .. MaxBytes
                        /\ b[i] \in Seq(Octets)
  <2> SUFFICES ASSUME NEW i \in 1 .. n
               PROVE  /\ s[i] \in Seq(Octets) /\ Len(s[i]) \in 1 .. MaxBytes
                      /\ b[i] \in Seq(Octets)
    OBVIOUS
  <2>1. ColumnReads(columns[i])
    BY <1>1
  <2>2. /\ columns[i].serial \in Nat /\ columns[i].serial < VarintLimit
        /\ ColumnBytes(columns[i]) \in Seq(Octets)
    BY <2>1 DEF ColumnReads
  <2>3. /\ WriteVarint(columns[i].serial) \in Seq(Octets)
        /\ Len(WriteVarint(columns[i].serial)) \in 1 .. MaxBytes
    BY <2>2, WriteBounds DEF Octets
  <2> QED
    BY <1>2, <2>2, <2>3, Zenon
<1>5. s \in Seq(Seq(Octets)) /\ Len(s) = n
  BY <1>1, <1>3, <1>4
<1>6. b \in Seq(Seq(Octets)) /\ Len(b) = n
  BY <1>1, <1>3, <1>4
<1> QED
  BY <1>2, <1>4, <1>5, <1>6 DEF n, s, b

(* The columns, where their parts end, and the body a file holds. *)
Cut(columns, h, b, body) ==
    /\ AllRead(columns)
    /\ Joins(h, Serials(columns), Octets)
    /\ Joins(b, Bodies(columns), Octets)
    /\ body \in Seq(Octets)
    /\ Agrees(body, b[Len(columns)])

LEMMA Ends ==
    ASSUME NEW T, NEW s \in Seq(Seq(T)), NEW f, Joins(f, s, T)
    PROVE  /\ f[0] = << >> /\ Len(f[0]) = 0 /\ f[Len(s)] \in Seq(T)
           /\ \A k \in 0 .. Len(s) : Len(f[k]) \in 0 .. Len(f[Len(s)])
           /\ \A k \in 0 .. Len(s) : k + 1 <= Len(s) =>
                /\ Len(f[k + 1]) = Len(f[k]) + Len(s[k + 1])
                /\ Stands(s[k + 1], f[Len(s)], Len(f[k]))
<1>1. f \in [0 .. Len(s) -> Seq(T)] /\ f[0] = << >> /\ Len(s) \in Nat
  BY DEF Joins, JoinsTo
<1>2. \A k \in 0 .. Len(s) : Len(f[k]) \in Nat
  BY <1>1
<1>3. \A k \in 0 .. Len(s) : Len(f[k]) <= Len(f[Len(s)])
  BY JoinedBegins
<1>4. \A k \in 0 .. Len(s) : Len(f[k]) \in 0 .. Len(f[Len(s)])
  <2> SUFFICES ASSUME NEW k \in 0 .. Len(s) PROVE Len(f[k]) \in 0 .. Len(f[Len(s)])
    OBVIOUS
  <2>1. Len(f[k]) \in Nat /\ Len(f[Len(s)]) \in Nat /\ Len(f[k]) <= Len(f[Len(s)])
    BY <1>1, <1>2, <1>3
  <2> QED
    BY <2>1
<1>5. ASSUME NEW k \in 0 .. Len(s), k + 1 <= Len(s)
      PROVE  /\ Len(f[k + 1]) = Len(f[k]) + Len(s[k + 1])
             /\ Stands(s[k + 1], f[Len(s)], Len(f[k]))
  <2> DEFINE i == k + 1
  <2>1. i \in 1 .. Len(s) /\ i - 1 = k
    BY <1>1, <1>5
  <2> HIDE DEF i
  <2>2. Len(f[i]) = Len(f[i - 1]) + Len(s[i])
    <3>1. IsConcat(f[i - 1], s[i], f[i])
      BY <2>1, Joined, Zenon
    <3> QED
      BY <3>1 DEF IsConcat
  <2>3. Stands(s[i], f[Len(s)], Len(f[i - 1]))
    BY <2>1, JoinStands, Zenon
  <2> QED
    BY <2>1, <2>2, <2>3 DEF i
<1>6. f[Len(s)] \in Seq(T)
  BY <1>1
<1>7. Len(f[0]) = 0
  BY <1>1
<1> QED
  BY <1>1, <1>4, <1>5, <1>6, <1>7

(* Before the k-th turn of the loop. *)
Turn(columns, h, b, body, k) ==
    [header |-> Drop(h[Len(columns)], Len(h[k])),
     body   |-> Drop(body, Len(b[k])),
     values |-> [i \in 1 .. k |-> Reading(columns[i])]]

LEMMA TurnIsStep ==
    ASSUME NEW columns, NEW h, NEW b, NEW body, Cut(columns, h, b, body),
           NEW k \in 0 .. Len(columns), k + 1 <= Len(columns), Len(b[k]) <= Len(body)
    PROVE  DecodeColumn(Turn(columns, h, b, body, k)) =
             IF Len(b[k + 1]) <= Len(body) THEN {Turn(columns, h, b, body, k + 1)} ELSE {}
<1> DEFINE n == Len(columns)
           s == Serials(columns)
           c == columns[k + 1]
           w == WriteVarint(c.serial)
           raw == ColumnBytes(c)
           at == Turn(columns, h, b, body, k)
<1>1. /\ AllRead(columns) /\ Joins(h, s, Octets) /\ Joins(b, Bodies(columns), Octets)
      /\ body \in Seq(Octets) /\ Agrees(body, b[n])
  BY DEF Cut
<1>2. n \in Nat /\ k \in 0 .. n /\ k + 1 \in 1 .. n
  BY <1>1 DEF AllRead
<1>3. /\ s \in Seq(Seq(Octets)) /\ Len(s) = n
      /\ Bodies(columns) \in Seq(Seq(Octets)) /\ Len(Bodies(columns)) = n
      /\ s[k + 1] = w /\ Bodies(columns)[k + 1] = raw /\ Len(w) \in 1 .. MaxBytes
  BY <1>1, <1>2, PartsAre
<1>4. ColumnReads(c)
  BY <1>1, <1>2 DEF AllRead
<1>5. raw \in Seq(Octets)
  BY <1>4 DEF ColumnReads
<1>6. /\ h[n] \in Seq(Octets) /\ Len(h[k]) \in 0 .. Len(h[n])
      /\ Len(h[k + 1]) = Len(h[k]) + Len(w) /\ Stands(w, h[n], Len(h[k]))
  <2>1. /\ h[Len(s)] \in Seq(Octets)
        /\ \A j \in 0 .. Len(s) : Len(h[j]) \in 0 .. Len(h[Len(s)])
        /\ \A j \in 0 .. Len(s) : j + 1 <= Len(s) =>
             /\ Len(h[j + 1]) = Len(h[j]) + Len(s[j + 1])
             /\ Stands(s[j + 1], h[Len(s)], Len(h[j]))
    BY <1>1, <1>3, Ends
  <2>2. k \in 0 .. Len(s) /\ k + 1 <= Len(s)
    BY <1>2, <1>3
  <2>3. /\ Len(h[k]) \in 0 .. Len(h[Len(s)])
        /\ Len(h[k + 1]) = Len(h[k]) + Len(s[k + 1])
        /\ Stands(s[k + 1], h[Len(s)], Len(h[k]))
    <3> HIDE DEF s, n
    <3> QED BY <2>1, <2>2, Zenon
  <2> HIDE DEF s, w, n
  <2> QED
    BY <1>3, <2>1, <2>3, Zenon
<1>7. /\ b[n] \in Seq(Octets) /\ Len(b[k]) \in 0 .. Len(b[n]) /\ Len(b[k + 1]) \in 0 .. Len(b[n])
      /\ Len(b[k + 1]) = Len(b[k]) + Len(raw) /\ Stands(raw, b[n], Len(b[k]))
  <2> DEFINE t == Bodies(columns)
  <2>1. /\ b[Len(t)] \in Seq(Octets)
        /\ \A j \in 0 .. Len(t) : Len(b[j]) \in 0 .. Len(b[Len(t)])
        /\ \A j \in 0 .. Len(t) : j + 1 <= Len(t) =>
             /\ Len(b[j + 1]) = Len(b[j]) + Len(t[j + 1])
             /\ Stands(t[j + 1], b[Len(t)], Len(b[j]))
    BY <1>1, <1>3, Ends
  <2>2. k \in 0 .. Len(t) /\ k + 1 \in 0 .. Len(t) /\ k + 1 <= Len(t)
    BY <1>2, <1>3
  <2>3. /\ Len(b[k]) \in 0 .. Len(b[Len(t)]) /\ Len(b[k + 1]) \in 0 .. Len(b[Len(t)])
        /\ Len(b[k + 1]) = Len(b[k]) + Len(t[k + 1])
        /\ Stands(t[k + 1], b[Len(t)], Len(b[k]))
    <3> HIDE DEF t, n
    <3> QED BY <2>1, <2>2, Zenon
  <2>4. Len(t) = n /\ t[k + 1] = raw
    BY <1>3
  <2> HIDE DEF t, raw, n
  <2> QED
    BY <2>1, <2>3, <2>4, Zenon
<1> HIDE DEF s, w, raw, n, c
<1>8. /\ at.header = Drop(h[n], Len(h[k])) /\ at.body = Drop(body, Len(b[k]))
      /\ at.values = [i \in 1 .. k |-> Reading(columns[i])]
  BY DEF Turn, n
<1> HIDE DEF at
<1>9. at.header \in Seq(Octets) /\ Stands(w, at.header, 0)
  <2> DEFINE t == h[n]
             m == Len(h[k])
             d == Drop(t, m)
  <2> HIDE DEF t, m, d
  <2>1. t \in Seq(Octets) /\ m \in 0 .. Len(t) /\ Stands(w, t, m) /\ at.header = d
    BY <1>6, <1>8 DEF t, m, d
  <2>2. d \in Seq(Octets) /\ Len(d) = Len(t) - m /\ \A i \in 1 .. Len(t) - m : d[i] = t[m + i]
    BY <2>1, DropIs DEF d
  <2>3. m + Len(w) <= Len(t) /\ \A i \in 1 .. Len(w) : t[m + i] = w[i]
    BY <2>1 DEF Stands
  <2>4. Len(t) \in Nat /\ m \in Nat /\ Len(w) \in Nat
    BY <1>3, <2>1, Bases
  <2>5. 0 + Len(w) <= Len(d)
    BY <2>2, <2>3, <2>4
  <2>6. ASSUME NEW i \in 1 .. Len(w)
        PROVE  d[0 + i] = w[i]
    <3>1. i \in 1 .. Len(t) - m /\ 0 + i = i
      BY <2>3, <2>4
    <3> QED
      BY <2>2, <2>3, <3>1
  <2> QED
    BY <2>1, <2>2, <2>5, <2>6 DEF Stands
<1>10. at.body \in Seq(Octets) /\ Agrees(at.body, raw) /\ Len(at.body) = Len(body) - Len(b[k])
  <2> DEFINE t == b[n]
             m == Len(b[k])
             d == Drop(body, m)
  <2> HIDE DEF t, m, d
  <2>1. t \in Seq(Octets) /\ m \in 0 .. Len(t) /\ Stands(raw, t, m) /\ at.body = d /\ m <= Len(body)
    BY <1>7, <1>8 DEF t, m, d
  <2>2. Len(t) \in Nat /\ m \in Nat /\ Len(body) \in Nat /\ m \in 0 .. Len(body)
    BY <1>1, <2>1
  <2>3. d \in Seq(Octets) /\ Len(d) = Len(body) - m /\ \A i \in 1 .. Len(body) - m : d[i] = body[m + i]
    BY <1>1, <2>2, DropIs DEF d
  <2>4. m + Len(raw) <= Len(t) /\ \A i \in 1 .. Len(raw) : t[m + i] = raw[i]
    BY <2>1 DEF Stands
  <2>5. Len(raw) \in Nat
    BY <1>5
  <2>6. \A i \in 1 .. Len(t) : i <= Len(body) => body[i] = t[i]
    BY <1>1 DEF Agrees, t
  <2>7. ASSUME NEW i \in 1 .. Len(raw), i <= Len(d)
        PROVE  d[i] = raw[i]
    <3>1. /\ i \in 1 .. Len(body) - m /\ m + i \in 1 .. Len(t) /\ m + i <= Len(body)
      BY <2>2, <2>3, <2>4, <2>5, <2>7
    <3> QED
      BY <2>3, <2>4, <2>6, <3>1
  <2> QED
    BY <2>1, <2>3, <2>7 DEF Agrees, m
<1>11. DecodeColumn(at) = IF Len(raw) <= Len(at.body)
                          THEN {[header |-> Drop(at.header, Len(w)),
                                 body   |-> Drop(at.body, Len(raw)),
                                 values |-> Append(at.values, Reading(c))]}
                          ELSE {}
  BY <1>4, <1>9, <1>10, ColumnStep DEF raw, w
<1>12. Len(raw) <= Len(at.body) <=> Len(b[k + 1]) <= Len(body)
  <2>1. Len(raw) \in Nat /\ Len(b[k]) \in Nat /\ Len(body) \in Nat
    BY <1>1, <1>5, <1>7
  <2> QED
    BY <1>7, <1>10, <2>1
<1>13. Drop(at.header, Len(w)) = Drop(h[n], Len(h[k + 1]))
  <2> DEFINE t == h[n]
             m == Len(h[k])
             x == Len(w)
  <2>1. t \in Seq(Octets) /\ m \in Nat /\ x \in Nat /\ m + x <= Len(t)
    BY <1>3, <1>6, Bases DEF Stands
  <2>2. at.header = Drop(t, m) /\ Len(h[k + 1]) = m + x
    BY <1>6, <1>8
  <2> HIDE DEF t, m, x
  <2>3. Drop(Drop(t, m), x) = Drop(t, m + x)
    BY <2>1, DropDrop
  <2> QED
    BY <2>2, <2>3 DEF t, x
<1>14. ASSUME Len(b[k + 1]) <= Len(body)
       PROVE  Drop(at.body, Len(raw)) = Drop(body, Len(b[k + 1]))
  <2> DEFINE m == Len(b[k])
             x == Len(raw)
  <2>1. m \in Nat /\ x \in Nat /\ m + x <= Len(body)
    BY <1>5, <1>7, <1>14
  <2>2. at.body = Drop(body, m) /\ Len(b[k + 1]) = m + x
    BY <1>7, <1>8
  <2> HIDE DEF m, x
  <2>3. Drop(Drop(body, m), x) = Drop(body, m + x)
    BY <1>1, <2>1, DropDrop
  <2> QED
    BY <2>2, <2>3 DEF x
<1>15. Append(at.values, Reading(c)) = [i \in 1 .. k + 1 |-> Reading(columns[i])]
  <2> DEFINE val(i) == Reading(columns[i])
             V == {val(i) : i \in 1 .. n}
             p == [i \in 1 .. k |-> val(i)]
             q == [i \in 1 .. k + 1 |-> val(i)]
             r == Append(p, val(k + 1))
  <2>1. \A i \in 1 .. n : val(i) \in V
    OBVIOUS
  <2>2. val(k + 1) = Reading(c) /\ at.values = p
    BY <1>8 DEF c
  <2> HIDE DEF val, V
  <2>3. /\ p \in Seq(V) /\ Len(p) = k /\ \A i \in 1 .. k : p[i] = val(i)
        /\ q \in Seq(V) /\ Len(q) = k + 1 /\ \A i \in 1 .. k + 1 : q[i] = val(i)
        /\ val(k + 1) \in V
    BY <1>2, <2>1
  <2> HIDE DEF p, q
  <2>4. /\ r \in Seq(V) /\ Len(r) = k + 1 /\ \A i \in 1 .. k : r[i] = p[i]
        /\ r[k + 1] = val(k + 1)
    BY <2>3, AppendProperties
  <2> HIDE DEF r
  <2>5. ASSUME NEW i \in 1 .. k + 1
        PROVE  r[i] = q[i]
    BY <1>2, <2>3, <2>4
  <2>6. r = q
    BY <2>3, <2>4, <2>5, SeqEqual
  <2> QED
    BY <2>2, <2>6 DEF r, q, val
<1>16. Turn(columns, h, b, body, k + 1) = [header |-> Drop(h[n], Len(h[k + 1])),
                                           body   |-> Drop(body, Len(b[k + 1])),
                                           values |-> [i \in 1 .. k + 1 |-> Reading(columns[i])]]
  BY DEF Turn, n
<1>17. CASE Len(b[k + 1]) <= Len(body)
  BY <1>11, <1>12, <1>13, <1>14, <1>15, <1>16, <1>17, Zenon DEF at
<1>18. CASE ~ (Len(b[k + 1]) <= Len(body))
  BY <1>11, <1>12, <1>18, Zenon DEF at
<1> QED
  BY <1>17, <1>18

LEMMA TurnHeader ==
    ASSUME NEW columns, NEW h, NEW b, NEW body, Cut(columns, h, b, body),
           NEW k \in 0 .. Len(columns)
    PROVE  /\ Turn(columns, h, b, body, k).header = << >> <=> k = Len(columns)
           /\ k <= Len(h[k]) /\ Len(h[k]) <= MaxBytes * k
           /\ Len(b[k]) <= Len(b[Len(columns)])
<1> DEFINE n == Len(columns)
           s == Serials(columns)
           t == h[n]
           S == {j \in Nat : j <= n => j <= Len(h[j]) /\ Len(h[j]) <= MaxBytes * j}
<1>1. AllRead(columns) /\ Joins(h, s, Octets) /\ Joins(b, Bodies(columns), Octets)
  BY DEF Cut
<1>2. n \in Nat /\ k \in 0 .. n /\ k \in Nat /\ k <= n
  BY <1>1 DEF AllRead
<1>3. /\ s \in Seq(Seq(Octets)) /\ Len(s) = n
      /\ Bodies(columns) \in Seq(Seq(Octets)) /\ Len(Bodies(columns)) = n
      /\ \A i \in 1 .. n : Len(s[i]) \in 1 .. MaxBytes
  BY <1>1, PartsAre
<1>4. /\ Len(h[0]) = 0 /\ t \in Seq(Octets)
      /\ \A j \in 0 .. n : Len(h[j]) \in 0 .. Len(t)
      /\ \A j \in 0 .. n : j + 1 <= n =>
           /\ Len(h[j + 1]) = Len(h[j]) + Len(s[j + 1])
           /\ Stands(s[j + 1], t, Len(h[j]))
  <2>1. /\ Len(h[0]) = 0 /\ h[Len(s)] \in Seq(Octets)
        /\ \A j \in 0 .. Len(s) : Len(h[j]) \in 0 .. Len(h[Len(s)])
        /\ \A j \in 0 .. Len(s) : j + 1 <= Len(s) =>
             /\ Len(h[j + 1]) = Len(h[j]) + Len(s[j + 1])
             /\ Stands(s[j + 1], h[Len(s)], Len(h[j]))
    BY <1>1, <1>3, Ends
  <2>2. Len(s) = n
    BY <1>3
  <2> HIDE DEF s, n
  <2> QED
    BY <2>1, <2>2
<1>5. \A j \in 0 .. n : Len(b[j]) \in 0 .. Len(b[n])
  <2> DEFINE u == Bodies(columns)
  <2>1. \A j \in 0 .. Len(u) : Len(b[j]) \in 0 .. Len(b[Len(u)])
    BY <1>1, <1>3, Ends
  <2>2. Len(u) = n
    BY <1>3
  <2> HIDE DEF u, n
  <2> QED
    BY <2>1, <2>2
<1> HIDE DEF s, n, t
<1>6. 0 \in S
  <2>1. MaxBytes * 0 = 0
    BY Bases
  <2> QED
    BY <1>4, <2>1
<1>7. ASSUME NEW j \in Nat, j \in S, j + 1 <= n
      PROVE  j + 1 <= Len(h[j + 1]) /\ Len(h[j + 1]) <= MaxBytes * (j + 1)
  <2>1. j \in 0 .. n /\ j <= n /\ j + 1 \in 1 .. n
    BY <1>2, <1>7
  <2>2. Len(h[j + 1]) = Len(h[j]) + Len(s[j + 1]) /\ Len(h[j]) \in 0 .. Len(t)
    BY <1>4, <1>7, <2>1
  <2>3. Len(s[j + 1]) \in 1 .. MaxBytes
    BY <1>3, <2>1
  <2>4. j <= Len(h[j]) /\ Len(h[j]) <= MaxBytes * j
    BY <1>7, <2>1
  <2>5. MaxBytes * (j + 1) = MaxBytes * j + MaxBytes /\ MaxBytes * j \in Nat
    BY Bases
  <2> DEFINE x == Len(h[j])
             y == Len(s[j + 1])
             z == Len(h[j + 1])
             m == MaxBytes * j
  <2>6. x \in Nat /\ y \in 1 .. MaxBytes /\ z = x + y /\ j <= x /\ x <= m /\ m \in Nat
    <3>1. Len(t) \in Nat
      BY <1>4
    <3> QED
      BY <2>2, <2>3, <2>4, <2>5, <3>1
  <2> HIDE DEF x, y, z, m
  <2>7. j + 1 <= z /\ z <= m + MaxBytes
    BY <2>6, Bases
  <2> QED
    BY <2>5, <2>7 DEF z, m
<1>8. ASSUME NEW j \in Nat, j \in S
      PROVE  j + 1 \in S
  BY <1>7, <1>8
<1>9. Nat \subseteq S
  <2> HIDE DEF S
  <2> QED BY <1>6, <1>8, NatInd
<1>10. k <= Len(h[k]) /\ Len(h[k]) <= MaxBytes * k
  BY <1>2, <1>9
<1>11. Turn(columns, h, b, body, k).header = Drop(t, Len(h[k]))
  BY DEF Turn, t, n
<1> DEFINE d == Drop(t, Len(h[k]))
<1>12. d \in Seq(Octets) /\ Len(d) = Len(t) - Len(h[k]) /\ Len(h[k]) \in Nat /\ Len(t) \in Nat
  <2>1. Len(h[k]) \in 0 .. Len(t)
    BY <1>2, <1>4
  <2>2. d \in Seq(Octets) /\ Len(d) = Len(t) - Len(h[k])
    BY <1>4, <2>1, DropIs
  <2>3. Len(t) \in Nat
    BY <1>4
  <2> HIDE DEF d
  <2> QED
    BY <2>1, <2>2, <2>3
<1> HIDE DEF d
<1>13. ASSUME k = n
       PROVE  d = << >>
  <2>1. Len(d) = 0
    BY <1>12, <1>13 DEF t
  <2> QED
    BY <1>12, <2>1
<1>14. ASSUME k # n
       PROVE  d # << >>
  <2>1. k + 1 <= n
    BY <1>2, <1>14
  <2>2. k + 1 \in 1 .. n
    BY <1>2, <2>1
  <2>3. Stands(s[k + 1], t, Len(h[k])) /\ Len(s[k + 1]) \in 1 .. MaxBytes
    BY <1>2, <1>3, <1>4, <2>1, <2>2
  <2>4. Len(h[k]) + Len(s[k + 1]) <= Len(t)
    BY <2>3 DEF Stands
  <2> DEFINE x == Len(h[k])
             y == Len(s[k + 1])
             z == Len(t)
  <2>5. x \in Nat /\ y \in 1 .. MaxBytes /\ z \in Nat /\ x + y <= z /\ Len(d) = z - x
    BY <1>12, <2>3, <2>4
  <2> HIDE DEF x, y, z
  <2>6. Len(d) > 0
    BY <2>5, Bases
  <2> QED
    BY <2>6
<1>15. Len(b[k]) <= Len(b[n])
  BY <1>2, <1>5
<1> QED
  BY <1>10, <1>11, <1>13, <1>14, <1>15 DEF d, n

(* The loop goes over every column, if the body is long enough.             *)
LEMMA ColumnsAre ==
    ASSUME NEW columns, NEW h, NEW b, NEW body, Cut(columns, h, b, body)
    PROVE  Columns(h[Len(columns)], body) =
             IF Len(b[Len(columns)]) <= Len(body)
             THEN {[i \in 1 .. Len(columns) |-> Reading(columns[i])]}
             ELSE {}
<1> DEFINE n == Len(columns)
           t == h[n]
           m == Len(t)
           At(k) == Turn(columns, h, b, body, k)
           start == [header |-> t, body |-> body, values |-> << >>]
           Step(w, k) == IF k = 0 THEN {start} ELSE UNION {DecodeColumn(at) : at \in w[k - 1]}
           after == CHOOSE w : w = [k \in 0 .. m |-> Step(w, k)]
           Reached(k) == IF k <= n /\ Len(b[k]) <= Len(body) THEN {At(k)} ELSE {}
           v == [k \in 0 .. m |-> Reached(k)]
           values == [i \in 1 .. n |-> Reading(columns[i])]
<1>1. /\ AllRead(columns) /\ Joins(h, Serials(columns), Octets)
      /\ Joins(b, Bodies(columns), Octets) /\ body \in Seq(Octets)
  BY DEF Cut
<1>2. n \in Nat /\ Len(body) \in Nat
  BY <1>1 DEF AllRead
<1>3. /\ h[0] = << >> /\ Len(h[0]) = 0 /\ t \in Seq(Octets)
      /\ b[0] = << >> /\ Len(b[0]) = 0
      /\ \A k \in 0 .. n : Len(b[k]) \in 0 .. Len(b[n])
      /\ \A k \in 0 .. n : k + 1 <= n => Len(b[k]) <= Len(b[k + 1])
  <2> DEFINE s == Serials(columns)
             u == Bodies(columns)
  <2>1. /\ s \in Seq(Seq(Octets)) /\ Len(s) = n /\ u \in Seq(Seq(Octets)) /\ Len(u) = n
    BY <1>1, PartsAre
  <2>2. h[0] = << >> /\ Len(h[0]) = 0 /\ h[Len(s)] \in Seq(Octets)
    BY <1>1, <2>1, Ends
  <2>3. /\ b[0] = << >> /\ Len(b[0]) = 0
        /\ \A k \in 0 .. Len(u) : Len(b[k]) \in 0 .. Len(b[Len(u)])
        /\ \A k \in 0 .. Len(u) : k + 1 <= Len(u) => Len(b[k + 1]) = Len(b[k]) + Len(u[k + 1])
    BY <1>1, <2>1, Ends
  <2>4. \A k \in 0 .. n : k + 1 <= n => Len(u[k + 1]) \in Nat
    <3> SUFFICES ASSUME NEW k \in 0 .. n, k + 1 <= n PROVE Len(u[k + 1]) \in Nat
      OBVIOUS
    <3>1. k + 1 \in 1 .. Len(u)
      BY <1>2, <2>1
    <3>2. u[k + 1] \in Seq(Octets)
      BY <2>1, <3>1, ElementOfSeq
    <3> QED
      BY <3>2
  <2> HIDE DEF s, u
  <2>5. \A k \in 0 .. n : Len(b[k]) \in 0 .. Len(b[n])
    BY <2>1, <2>3
  <2>6. ASSUME NEW k \in 0 .. n, k + 1 <= n
        PROVE  Len(b[k]) <= Len(b[k + 1])
    <3>1. Len(b[k + 1]) = Len(b[k]) + Len(u[k + 1])
      BY <2>1, <2>3, <2>6
    <3>2. Len(b[k]) \in Nat /\ Len(u[k + 1]) \in Nat
      BY <2>4, <2>5, <2>6
    <3> DEFINE x == Len(b[k])
               y == Len(u[k + 1])
               z == Len(b[k + 1])
    <3>3. x \in Nat /\ y \in Nat /\ z = x + y
      BY <3>1, <3>2
    <3> HIDE DEF x, y, z
    <3>4. x <= z
      BY <3>3
    <3> QED
      BY <3>4 DEF x, z
  <2> QED
    BY <2>1, <2>2, <2>3, <2>5, <2>6
<1>4. m \in Nat /\ n <= m
  <2>1. n \in 0 .. Len(columns)
    BY <1>2
  <2>2. n <= Len(h[n])
    BY <2>1, TurnHeader
  <2> QED
    BY <1>3, <2>2
<1>5. \A k \in 0 .. n : /\ At(k).header = << >> <=> k = n
                        /\ Len(b[k]) <= Len(b[n])
  BY TurnHeader
<1>6. \A k \in 0 .. n : k + 1 <= n /\ Len(b[k]) <= Len(body) =>
        DecodeColumn(At(k)) = IF Len(b[k + 1]) <= Len(body) THEN {At(k + 1)} ELSE {}
  BY TurnIsStep
<1>7. DecodeColumn(At(n)) = {}
  <2>1. At(n).header = << >>
    BY <1>2, <1>5
  <2> HIDE DEF At
  <2> QED
    BY <2>1, NoColumn
<1>8. At(0) = start
  <2>1. Drop(t, 0) = t /\ Drop(body, 0) = body
    <3>1. /\ SubSeq(t, 0 + 1, Len(t)) = t
      BY <1>3
    <3>2. SubSeq(body, 0 + 1, Len(body)) = body
      BY <1>1
    <3> HIDE DEF t
    <3> QED
      BY <3>1, <3>2 DEF Drop
  <2>2. [i \in 1 .. 0 |-> Reading(columns[i])] = << >>
    OBVIOUS
  <2> HIDE DEF n, t
  <2> QED
    BY <1>3, <2>1, <2>2 DEF Turn, n, t
<1>9. values = At(n).values
  BY DEF Turn
<1> HIDE DEF At, start, n, t, m, values
<1>10. Reached(0) = {start}
  <2>1. 0 <= n /\ Len(b[0]) <= Len(body)
    BY <1>2, <1>3
  <2> QED
    BY <1>8, <2>1
<1>11. ASSUME NEW k \in Nat
       PROVE  UNION {DecodeColumn(at) : at \in Reached(k)} = Reached(k + 1)
  <2>1. CASE k + 1 <= n /\ Len(b[k]) <= Len(body)
    <3>1. k \in 0 .. n /\ k <= n
      BY <1>2, <2>1
    <3>2. Reached(k) = {At(k)}
      BY <2>1, <3>1
    <3>3. DecodeColumn(At(k)) = IF Len(b[k + 1]) <= Len(body) THEN {At(k + 1)} ELSE {}
      BY <1>6, <2>1, <3>1
    <3>4. DecodeColumn(At(k)) = Reached(k + 1)
      BY <2>1, <3>3
    <3> HIDE DEF Reached
    <3> QED
      BY <3>2, <3>4
  <2>2. CASE k = n
    <3>1. Reached(k) \subseteq {At(n)}
      BY <2>2
    <3>2. Reached(k + 1) = {}
      BY <1>2, <2>2
    <3> HIDE DEF Reached
    <3> QED
      BY <1>7, <3>1, <3>2
  <2>3. CASE k > n
    <3>1. Reached(k) = {} /\ Reached(k + 1) = {}
      BY <1>2, <2>3
    <3> HIDE DEF Reached
    <3> QED
      BY <3>1
  <2>4. CASE k + 1 <= n /\ ~ (Len(b[k]) <= Len(body))
    <3>1. k \in 0 .. n /\ k + 1 \in 0 .. n
      BY <1>2, <2>4
    <3>2. Len(b[k]) <= Len(b[k + 1])
      BY <1>3, <2>4, <3>1
    <3>3. Len(b[k]) \in Nat /\ Len(b[k + 1]) \in Nat
      BY <1>3, <3>1
    <3>4. ~ (Len(b[k + 1]) <= Len(body))
      BY <1>2, <2>4, <3>2, <3>3
    <3>5. Reached(k) = {} /\ Reached(k + 1) = {}
      BY <2>4, <3>4
    <3> HIDE DEF Reached
    <3> QED
      BY <3>5
  <2>5. k + 1 <= n \/ k = n \/ k > n
    BY <1>2
  <2> QED
    BY <2>1, <2>2, <2>3, <2>4, <2>5
<1>12. \A k \in 0 .. m : v[k] = Reached(k)
  OBVIOUS
<1>13. v = [k \in 0 .. m |-> Step(v, k)]
  <2>1. ASSUME NEW k \in 0 .. m
        PROVE  Reached(k) = Step(v, k)
    <3>1. CASE k = 0
      <4> HIDE DEF Reached, v
      <4> QED BY <1>10, <3>1
    <3>2. CASE k # 0
      <4> DEFINE j == k - 1
      <4>1. j \in Nat /\ j \in 0 .. m /\ j + 1 = k
        BY <1>4, <3>2
      <4>2. v[j] = Reached(j)
        BY <1>12, <4>1
      <4> HIDE DEF j, Reached, v
      <4>3. UNION {DecodeColumn(at) : at \in v[j]} = Reached(k)
        BY <1>11, <4>1, <4>2
      <4>4. Step(v, k) = UNION {DecodeColumn(at) : at \in v[j]}
        BY <3>2 DEF j
      <4> QED
        BY <4>3, <4>4
    <3> QED
      BY <3>1, <3>2
  <2> HIDE DEF Step, Reached
  <2>2. \A k \in 0 .. m : v[k] = Step(v, k)
    BY <1>12, <2>1
  <2> QED
    BY <2>2
<1> HIDE DEF v
<1>14. after = [k \in 0 .. m |-> Step(after, k)]
  <2> HIDE DEF Step
  <2>1. \E w : w = [k \in 0 .. m |-> Step(w, k)]
    BY <1>13
  <2> QED
    BY <2>1, Zenon
<1> HIDE DEF after
<1>15. \A k \in 0 .. m : after[k] = Step(after, k)
  <2> HIDE DEF Step
  <2> QED BY <1>14
<1> DEFINE S == {k \in Nat : k <= m => after[k] = Reached(k)}
<1>16. 0 \in S
  <2>1. after[0] = Step(after, 0)
    <3> HIDE DEF Step
    <3> QED BY <1>4, <1>15
  <2> HIDE DEF Reached
  <2> QED
    BY <1>10, <2>1
<1>17. ASSUME NEW k \in Nat, k \in S, k + 1 <= m
       PROVE  after[k + 1] = Reached(k + 1)
  <2> HIDE DEF Reached
  <2>1. k + 1 \in 0 .. m /\ k <= m /\ k + 1 # 0 /\ (k + 1) - 1 = k
    BY <1>4, <1>17
  <2>2. after[k] = Reached(k)
    BY <1>17, <2>1
  <2>3. after[k + 1] = UNION {DecodeColumn(at) : at \in after[k]}
    BY <1>15, <2>1
  <2> QED
    BY <1>11, <2>2, <2>3
<1>18. Nat \subseteq S
  <2>1. ASSUME NEW k \in Nat, k \in S
        PROVE  k + 1 \in S
    <3>1. k + 1 <= m => after[k + 1] = Reached(k + 1)
      <4> HIDE DEF S, Reached
      <4> QED BY <1>17, <2>1
    <3> HIDE DEF Reached
    <3> QED
      BY <3>1
  <2> HIDE DEF S
  <2> QED BY <1>16, <2>1, NatInd
<1>19. \A k \in 0 .. m : after[k] = Reached(k)
  <2> HIDE DEF Reached
  <2> QED BY <1>4, <1>18
<1>20. Columns(t, body) = {at.values : at \in {at \in UNION {after[k] : k \in 0 .. m} : at.header = << >>}}
  BY Zenon DEF Columns, after, m, start
<1> DEFINE R == {at \in UNION {after[k] : k \in 0 .. m} : at.header = << >>}
<1>21. \A at : at \in R <=> /\ \E k \in 0 .. m : at \in Reached(k)
                            /\ at.header = << >>
  <2> HIDE DEF Reached
  <2> QED BY <1>19
<1>22. \A at : at \in R <=> at = At(n) /\ Len(b[n]) <= Len(body)
  <2> HIDE DEF R
  <2>1. ASSUME NEW at, at \in R
        PROVE  at = At(n) /\ Len(b[n]) <= Len(body)
    <3>1. PICK k \in 0 .. m : at \in Reached(k)
      <4> HIDE DEF Reached
      <4> QED BY <1>21, <2>1
    <3>2. at = At(k) /\ k <= n /\ Len(b[k]) <= Len(body)
      BY <3>1
    <3>3. at.header = << >>
      <4> HIDE DEF Reached
      <4> QED BY <1>21, <2>1
    <3>4. k \in 0 .. n
      BY <1>2, <3>2
    <3>5. k = n
      BY <1>5, <3>2, <3>3, <3>4
    <3> QED
      BY <3>2, <3>5
  <2>2. ASSUME Len(b[n]) <= Len(body)
        PROVE  At(n) \in R
    <3>1. n \in 0 .. m /\ n \in 0 .. n /\ n <= n
      BY <1>2, <1>4
    <3>2. At(n) \in Reached(n) /\ At(n).header = << >>
      BY <1>5, <2>2, <3>1
    <3> HIDE DEF Reached
    <3> QED
      BY <1>21, <3>1, <3>2
  <2> QED
    BY <2>1, <2>2
<1>23. Columns(t, body) = {at.values : at \in R}
  BY <1>20
<1> HIDE DEF R
<1>24. CASE Len(b[n]) <= Len(body)
  <2>1. R = {At(n)}
    BY <1>22, <1>24
  <2>2. Columns(t, body) = {values}
    BY <1>9, <1>23, <2>1
  <2> QED
    BY <1>24, <2>2 DEF t, n, values
<1>25. CASE ~ (Len(b[n]) <= Len(body))
  <2>1. R = {}
    BY <1>22, <1>25
  <2>2. Columns(t, body) = {}
    BY <1>23, <2>1
  <2> QED
    BY <1>25, <2>2 DEF t, n
<1> QED
  BY <1>24, <1>25

---------------------------------------------------------------------------
(* The length of the header, which counts its own.                          *)

LEMMA LensMonotonic ==
    ASSUME NEW v \in Nat, v < VarintLimit, NEW u \in Nat, u <= v
    PROVE  Len(WriteVarint(u)) <= Len(WriteVarint(v))
<1>1. u < VarintLimit
  BY LimitIs
<1>2. /\ Len(WriteVarint(u)) \in 1 .. MaxBytes /\ Len(WriteVarint(v)) \in 1 .. MaxBytes
      /\ \A k \in 1 .. MaxBytes - 1 : u < Power(Group)[k] => Len(WriteVarint(u)) <= k
  BY <1>1, WriteBounds
<1>3. CASE v >= Power(Group)[MaxBytes - 1]
  <2>1. Len(WriteVarint(v)) = MaxBytes
    BY <1>3, LongForm
  <2> QED
    BY <1>2, <2>1, Bases
<1>4. CASE v < Power(Group)[MaxBytes - 1]
  <2> DEFINE n == Len(WriteVarint(v))
  <2>1. n \in 1 .. MaxBytes - 1 /\ v < Power(Group)[n]
    <3>1. n = Width(v)
      BY <1>4, ShortForm
    <3>2. Width(v) \in 1 .. MaxBytes - 1 /\ v < Power(Group)[Width(v)]
      BY <1>4, WidthIs
    <3> HIDE DEF n
    <3> QED
      BY <3>1, <3>2
  <2> HIDE DEF n
  <2>2. Power(Group)[n] \in Nat
    <3>1. n \in Nat
      BY <2>1, Bases
    <3> QED
      BY <3>1, GroupPowers
  <2>3. u < Power(Group)[n]
    BY <2>1, <2>2
  <2> QED
    BY <1>2, <2>1, <2>3 DEF n
<1> QED
  BY <1>3, <1>4, LimitIs

(* The length of the header counts its own bytes. *)
Own(l) == CHOOSE n \in 1 .. MaxBytes : Len(WriteVarint(n + l)) = n

LEMMA OwnIs ==
    ASSUME NEW l \in Nat, MaxBytes + l < VarintLimit
    PROVE  Own(l) \in 1 .. MaxBytes /\ Len(WriteVarint(Own(l) + l)) = Own(l)
<1> DEFINE len(n) == Len(WriteVarint(n + l))
           S == {n \in 1 .. MaxBytes : len(n) <= n}
<1>1. \A n \in 1 .. MaxBytes : len(n) \in 1 .. MaxBytes
  <2> SUFFICES ASSUME NEW n \in 1 .. MaxBytes PROVE Len(WriteVarint(n + l)) \in 1 .. MaxBytes
    OBVIOUS
  <2>1. n + l \in Nat /\ n + l < VarintLimit
    BY LimitIs, Bases
  <2> QED
    BY <2>1, WriteBounds
<1>2. \A n \in 1 .. MaxBytes : n - 1 \in 1 .. MaxBytes => len(n - 1) <= len(n)
  <2> SUFFICES ASSUME NEW n \in 1 .. MaxBytes, n - 1 \in 1 .. MaxBytes
               PROVE  Len(WriteVarint((n - 1) + l)) <= Len(WriteVarint(n + l))
    OBVIOUS
  <2>1. n + l \in Nat /\ n + l < VarintLimit /\ (n - 1) + l \in Nat /\ (n - 1) + l <= n + l
    BY LimitIs, Bases
  <2> QED
    BY <2>1, LensMonotonic
<1> HIDE DEF len
<1>3. MaxBytes \in S
  BY <1>1, Bases
<1>4. S \in SUBSET Nat /\ S # {}
  BY <1>3
<1>5. PICK m \in S : \A k \in S : m <= k
  BY <1>4, LeastOf, Zenon
<1>6. len(m) = m
  <2>1. m \in 1 .. MaxBytes /\ len(m) <= m /\ len(m) \in 1 .. MaxBytes
    BY <1>1
  <2>2. CASE m = 1
    BY <2>1, <2>2
  <2>3. CASE m # 1
    <3>1. m - 1 \in 1 .. MaxBytes /\ m - 1 \in Nat /\ ~ (m <= m - 1)
      BY <2>1, <2>3, Bases
    <3>2. m - 1 \notin S
      <4> HIDE DEF S
      <4> QED BY <1>5, <3>1
    <3>3. ~ (len(m - 1) <= m - 1)
      BY <3>1, <3>2
    <3>4. len(m - 1) <= len(m) /\ len(m - 1) \in 1 .. MaxBytes
      BY <1>1, <1>2, <2>1, <3>1
    <3> QED
      BY <2>1, <3>1, <3>3, <3>4
  <2> QED
    BY <2>2, <2>3
<1>7. \E n \in 1 .. MaxBytes : Len(WriteVarint(n + l)) = n
  BY <1>6 DEF len
<1> QED
  BY <1>7, Zenon DEF Own

---------------------------------------------------------------------------
(* A record, or what is left of it.                                         *)

(* Before its end a varint says that it goes on. *)
LEMMA GoesOn ==
    ASSUME NEW v \in Nat, v < VarintLimit, NEW i \in 1 .. Len(WriteVarint(v)) - 1
    PROVE  WriteVarint(v)[i] >= Group
<1> DEFINE w == WriteVarint(v)
<1>1. w \in Seq(Nat) /\ Len(w) \in Nat
  BY WriteBounds, BytesAre
<1>2. Len(w) <= Len(w)
  BY <1>1
<1>3. \A k \in 1 .. Len(w) : w[k] = w[k]
  OBVIOUS
<1>4. Len(w) \in VarintEnds(w)
  BY <1>1, <1>2, Written
<1> HIDE DEF w
<1>5. \A k \in 1 .. Len(w) - 1 : w[k] >= Group
  BY <1>4 DEF VarintEnds
<1> QED
  BY <1>5 DEF w

LEMMA CutShort ==
    ASSUME NEW v \in Nat, v < VarintLimit, NEW bytes \in Seq(Octets),
           Len(bytes) < Len(WriteVarint(v)), Agrees(bytes, WriteVarint(v))
    PROVE  ReadVarint(bytes) = {}
<1> DEFINE w == WriteVarint(v)
<1>1. bytes \in Seq(Nat) /\ Len(bytes) \in Nat
  BY BytesAre DEF Octets
<1>2. Len(w) \in 1 .. MaxBytes
  BY WriteBounds
<1>3. ASSUME NEW i \in 1 .. Len(bytes)
      PROVE  bytes[i] >= Group
  <2>1. i \in 1 .. Len(w) - 1 /\ i \in 1 .. Len(w) /\ i <= Len(bytes)
    BY <1>1, <1>2
  <2>2. w[i] >= Group
    BY <2>1, GoesOn
  <2>3. bytes[i] = w[i]
    BY <2>1 DEF Agrees
  <2> QED
    BY <2>2, <2>3
<1>4. Len(bytes) < MaxBytes
  BY <1>1, <1>2, Bases
<1>5. VarintEnds(bytes) = {}
  BY <1>1, <1>3, <1>4, NoEnd
<1> QED
  BY <1>5, ReadIs

LEMMA RecordIs ==
    ASSUME NEW columns, IsColumns(columns)
    PROVE  /\ AllRead(columns) /\ DOMAIN columns = 1 .. Len(columns)
           /\ \E h, b : /\ Joins(h, Serials(columns), Octets)
                        /\ Joins(b, Bodies(columns), Octets)
                        /\ h[Len(columns)] \in Seq(Octets)
                        /\ b[Len(columns)] \in Seq(Octets)
                        /\ MaxBytes + Len(h[Len(columns)]) < VarintLimit
                        /\ SqliteRecord(columns) =
                             WriteVarint(Own(Len(h[Len(columns)])) + Len(h[Len(columns)]))
                             \o h[Len(columns)] \o b[Len(columns)]
<1> DEFINE n == Len(columns)
           s == Serials(columns)
           t == Bodies(columns)
<1>1. n \in Nat /\ DOMAIN columns = 1 .. n
  <2>1. columns \in Seq(Range(columns))
    BY DEF IsColumns
  <2> HIDE DEF n
  <2> QED
    BY <2>1 DEF n
<1>2. AllRead(columns)
  <2>1. \A i \in 1 .. n : IsColumn(columns[i])
    BY <1>1 DEF IsColumns
  <2>2. \A i \in 1 .. n : ColumnReads(columns[i])
    BY <2>1, ColumnIsRead
  <2> QED
    BY <1>1, <2>2 DEF AllRead
<1>3. /\ s \in Seq(Seq(Octets)) /\ Len(s) = n
      /\ t \in Seq(Seq(Octets)) /\ Len(t) = n
  BY <1>2, PartsAre
<1>4. PICK h : Joins(h, s, Octets)
  BY <1>3, JoinExists, Zenon
<1>5. PICK b : Joins(b, t, Octets)
  BY <1>3, JoinExists, Zenon
<1>6. h[n] \in Seq(Octets) /\ FlattenSeq(s) = h[n]
  <2>1. h[Len(s)] \in Seq(Octets) /\ FlattenSeq(s) = h[Len(s)]
    BY <1>3, <1>4, Ends, FlattenJoins
  <2>2. Len(s) = n
    BY <1>3
  <2> HIDE DEF s, n
  <2> QED
    BY <2>1, <2>2
<1>7. b[n] \in Seq(Octets) /\ FlattenSeq(t) = b[n]
  <2>1. b[Len(t)] \in Seq(Octets) /\ FlattenSeq(t) = b[Len(t)]
    BY <1>3, <1>5, Ends, FlattenJoins
  <2>2. Len(t) = n
    BY <1>3
  <2> HIDE DEF t, n
  <2> QED
    BY <2>1, <2>2
<1> DEFINE l == Len(h[n])
<1>8. MaxBytes + l < VarintLimit
  <2>1. Cut(columns, h, b, b[n])
    BY <1>2, <1>4, <1>5, <1>7 DEF Cut, Agrees
  <2>2. n \in 0 .. Len(columns)
    BY <1>1
  <2>3. l <= MaxBytes * n
    BY <2>1, <2>2, TurnHeader
  <2>4. MaxBytes * (n + 1) < VarintLimit
    BY DEF IsColumns
  <2>5. l \in Nat
    BY <1>6
  <2> HIDE DEF l, n
  <2>6. MaxBytes * (n + 1) = MaxBytes * n + MaxBytes /\ MaxBytes * n \in Nat
    BY <1>1, Bases
  <2> QED
    BY <2>3, <2>4, <2>5, <2>6, Bases, LimitIs
<1>9. SqliteRecord(columns) = WriteVarint(Own(l) + l) \o h[n] \o b[n]
  <2>1. /\ [i \in DOMAIN columns |-> WriteVarint(columns[i].serial)] = s
        /\ [i \in DOMAIN columns |-> ColumnBytes(columns[i])] = t
    BY <1>1 DEF Serials, Bodies
  <2> HIDE DEF s, t, n
  <2>2. SqliteRecord(columns) = WriteVarint(Own(Len(FlattenSeq(s))) + Len(FlattenSeq(s)))
                                \o FlattenSeq(s) \o FlattenSeq(t)
    BY <2>1, Zenon DEF SqliteRecord, Own
  <2> QED
    BY <1>6, <1>7, <2>2
<1> QED
  BY <1>1, <1>2, <1>4, <1>5, <1>6, <1>7, <1>8, <1>9 DEF n, s, t, l

(* A payload that begins as a record does, as far as it goes, is decoded to *)
(* the columns if the whole record is there, and refused if it is not.      *)
LEMMA DecodesRecord ==
    ASSUME NEW columns, IsColumns(columns),
           NEW payload \in Seq(Octets), Agrees(payload, SqliteRecord(columns))
    PROVE  DecodeRecord(payload) =
             IF Len(SqliteRecord(columns)) <= Len(payload)
             THEN {[i \in DOMAIN columns |-> Reading(columns[i])]} ELSE {}
<1> DEFINE n == Len(columns)
           record == SqliteRecord(columns)
           values == [i \in DOMAIN columns |-> Reading(columns[i])]
<1>1. AllRead(columns) /\ DOMAIN columns = 1 .. n /\ n \in Nat
  BY RecordIs DEF AllRead
<1>2. PICK h, b : /\ Joins(h, Serials(columns), Octets)
                  /\ Joins(b, Bodies(columns), Octets)
                  /\ h[n] \in Seq(Octets) /\ b[n] \in Seq(Octets)
                  /\ MaxBytes + Len(h[n]) < VarintLimit
                  /\ record = WriteVarint(Own(Len(h[n])) + Len(h[n])) \o h[n] \o b[n]
  BY RecordIs
<1> DEFINE s == h[n]
           t == b[n]
           l == Len(s)
           e == Len(t)
           own == Own(l)
           w == WriteVarint(own + l)
           p == Len(payload)
           tail == Drop(payload, own + l)
<1>3. /\ s \in Seq(Octets) /\ t \in Seq(Octets) /\ l \in Nat /\ e \in Nat
      /\ MaxBytes + l < VarintLimit /\ record = w \o s \o t
  BY <1>2
<1>4. own \in 1 .. MaxBytes /\ Len(w) = own
  <2> HIDE DEF l
  <2> QED BY <1>3, OwnIs
<1>5. own \in Nat /\ own + l \in Nat /\ own + l < VarintLimit /\ p \in Nat
  <2> HIDE DEF own, l
  <2> QED BY <1>3, <1>4, Bases, LimitIs
<1>6. w \in Seq(Octets)
  <2> HIDE DEF own, l
  <2> QED BY <1>5, WriteBounds DEF Octets
<1>7. /\ Len(record) = own + l + e
      /\ \A i \in 1 .. own : i <= p => payload[i] = w[i]
      /\ \A i \in 1 .. l : own + i <= p => payload[own + i] = s[i]
      /\ \A i \in 1 .. e : own + l + i <= p => payload[own + l + i] = t[i]
  <2> DEFINE ws == w \o s
  <2>1. record = ws \o t
    BY <1>3
  <2>2. \A i \in 1 .. Len(record) : i <= p => payload[i] = record[i]
    BY DEF Agrees
  <2> HIDE DEF w, s, t, l, e, own, record, p
  <2>3. /\ ws \in Seq(Octets) /\ Len(ws) = Len(w) + Len(s)
        /\ \A i \in 1 .. Len(w) : ws[i] = w[i]
        /\ \A i \in 1 .. Len(s) : ws[Len(w) + i] = s[i]
    BY <1>3, <1>6, Concat
  <2> HIDE DEF ws
  <2>4. /\ Len(record) = Len(ws) + Len(t)
        /\ \A i \in 1 .. Len(ws) : record[i] = ws[i]
        /\ \A i \in 1 .. Len(t) : record[Len(ws) + i] = t[i]
    <3> DEFINE z == ws \o t
    <3>0. ws \in Seq(Octets) /\ t \in Seq(Octets)
      BY <1>3, <2>3
    <3>1. /\ Len(z) = Len(ws) + Len(t)
          /\ \A i \in 1 .. Len(ws) : z[i] = ws[i]
          /\ \A i \in 1 .. Len(t) : z[Len(ws) + i] = t[i]
      BY <3>0, Concat
    <3>2. z = record
      BY <2>1
    <3> HIDE DEF z
    <3> QED
      BY <3>1, <3>2
  <2>5. Len(s) = l /\ Len(t) = e /\ Len(ws) = own + l
    BY <1>4, <2>3 DEF l, e
  <2>6. Len(record) = own + l + e
    BY <2>4, <2>5
  <2>7. ASSUME NEW i \in 1 .. own, i <= p
        PROVE  payload[i] = w[i]
    <3>1. i \in 1 .. Len(record) /\ i \in 1 .. own + l
      BY <1>3, <1>5, <2>6
    <3> QED
      BY <1>4, <2>2, <2>3, <2>4, <2>5, <2>7, <3>1
  <2>8. ASSUME NEW i \in 1 .. l, own + i <= p
        PROVE  payload[own + i] = s[i]
    <3>1. own + i \in 1 .. Len(record) /\ own + i \in 1 .. own + l
      BY <1>3, <1>5, <2>6
    <3>2. payload[own + i] = record[own + i]
      BY <2>2, <2>8, <3>1
    <3>3. record[own + i] = ws[own + i]
      BY <2>4, <2>5, <3>1
    <3>4. ws[own + i] = s[i]
      BY <1>4, <2>3, <2>5
    <3> QED
      BY <3>2, <3>3, <3>4
  <2>9. ASSUME NEW i \in 1 .. e, own + l + i <= p
        PROVE  payload[own + l + i] = t[i]
    <3>1. own + l + i \in 1 .. Len(record)
      BY <1>3, <1>5, <2>6
    <3>2. payload[own + l + i] = record[own + l + i]
      BY <2>2, <2>9, <3>1
    <3>3. record[own + l + i] = t[i]
      BY <2>4, <2>5
    <3> QED
      BY <3>2, <3>3
  <2> QED
    BY <2>6, <2>7, <2>8, <2>9
<1>8. DecodeRecord(payload) =
        UNION {Columns(SubSeq(payload, r.used + 1, r.value), Drop(payload, r.value))
               : r \in {r \in ReadVarint(payload) : r.used <= r.value /\ r.value <= p}}
  BY DEF DecodeRecord
<1> HIDE DEF record, values, l, e, own, w, p, tail, s, t
<1>9. CASE p < own
  <2>1. Len(payload) < Len(w) /\ Agrees(payload, w)
    BY <1>4, <1>7, <1>9 DEF p, Agrees
  <2>2. ReadVarint(payload) = {}
    BY <1>5, <2>1, CutShort DEF w
  <2>3. DecodeRecord(payload) = {}
    BY <1>8, <2>2
  <2>4. ~ (Len(record) <= p)
    BY <1>3, <1>5, <1>7, <1>9
  <2> QED
    BY <2>3, <2>4 DEF record, p
<1>10. CASE own <= p
  <2> DEFINE read == [value |-> own + l, used |-> own]
  <2>1. ReadVarint(payload) = {read}
    <3>1. Stands(w, payload, 0)
      <4>1. 0 + Len(w) <= Len(payload)
        BY <1>4, <1>5, <1>10 DEF p
      <4>2. ASSUME NEW i \in 1 .. Len(w) PROVE payload[0 + i] = w[i]
        <5>1. 0 + i = i /\ i \in 1 .. own /\ i <= p
          BY <1>4, <1>5, <1>10
        <5> QED
          BY <1>7, <5>1
      <4> QED
        BY <4>1, <4>2 DEF Stands
    <3> QED
      BY <1>4, <1>5, <3>1, VarintStands DEF w
  <2>2. read.value = own + l /\ read.used = own
    OBVIOUS
  <2>3. own <= own + l
    BY <1>3, <1>5
  <2> HIDE DEF read
  <2>4. CASE ~ (own + l <= p)
    <3>1. DecodeRecord(payload) = {}
      BY <1>8, <2>1, <2>2, <2>4
    <3>2. ~ (Len(record) <= p)
      BY <1>3, <1>5, <1>7, <2>4
    <3> QED
      BY <3>1, <3>2 DEF record, p
  <2>5. CASE own + l <= p
    <3>1. {r \in ReadVarint(payload) : r.used <= r.value /\ r.value <= p} = {read}
      BY <2>1, <2>2, <2>3, <2>5
    <3>2. DecodeRecord(payload) = Columns(SubSeq(payload, own + 1, own + l), tail)
      BY <1>8, <2>2, <3>1 DEF tail
    <3>3. SubSeq(payload, own + 1, own + l) = s
      <4> DEFINE i == own + 1
                 j == own + l
                 u == SubSeq(payload, i, j)
      <4>1. i \in 1 .. Len(payload) + 1 /\ j \in i - 1 .. Len(payload) /\ j - i + 1 = l
        BY <1>3, <1>5, <2>5 DEF p
      <4>2. \A k \in i .. j : payload[k] \in Octets
        <5>1. \A k \in 1 .. Len(payload) : payload[k] \in Octets
          BY ElementOfSeq
        <5> HIDE DEF i, j
        <5> QED
          BY <4>1, <5>1
      <4>3. i \in Int /\ j \in Int
        BY <1>3, <1>5
      <4>5. \A k \in 1 .. l : i + k - 1 = own + k /\ own + k <= p
        BY <1>3, <1>5, <2>5
      <4> HIDE DEF i, j
      <4>6. u \in Seq(Octets) /\ Len(u) = j - i + 1
        BY <4>1, Slice
      <4>7. \A k \in 1 .. j - i + 1 : u[k] = payload[i + k - 1]
        BY <4>2, <4>3, SubSeqProperties
      <4> HIDE DEF u
      <4>8. Len(u) = Len(s)
        BY <4>1, <4>6 DEF l
      <4>9. ASSUME NEW k \in 1 .. Len(u) PROVE u[k] = s[k]
        <5>1. k \in 1 .. l
          BY <4>1, <4>6, <4>9
        <5> QED
          BY <1>7, <4>1, <4>5, <4>7, <5>1
      <4>10. u = s
        BY <1>3, <4>6, <4>8, <4>9, SeqEqual
      <4> QED
        BY <4>10 DEF u, i, j
    <3>4. /\ tail \in Seq(Octets) /\ Len(tail) = p - (own + l)
          /\ \A i \in 1 .. p - (own + l) : tail[i] = payload[own + l + i]
      <4> DEFINE k == own + l
      <4>1. k \in 0 .. Len(payload)
        BY <1>3, <1>5, <2>5 DEF p
      <4> HIDE DEF k
      <4>2. /\ Drop(payload, k) \in Seq(Octets) /\ Len(Drop(payload, k)) = Len(payload) - k
            /\ \A i \in 1 .. Len(payload) - k : Drop(payload, k)[i] = payload[k + i]
        BY <4>1, DropIs
      <4> QED
        BY <4>2 DEF k, tail, p
    <3>5. Agrees(tail, t)
      <4> SUFFICES ASSUME NEW i \in 1 .. Len(t), i <= Len(tail) PROVE tail[i] = t[i]
        BY DEF Agrees
      <4>1. i \in 1 .. e /\ i \in 1 .. p - (own + l) /\ own + l + i <= p
        BY <1>3, <1>5, <3>4 DEF e
      <4> QED
        BY <1>7, <3>4, <4>1
    <3>6. Cut(columns, h, b, tail)
      BY <1>1, <1>2, <3>4, <3>5 DEF Cut, t, n
    <3>7. Columns(s, tail) = IF e <= Len(tail) THEN {values} ELSE {}
      BY <1>1, <3>6, ColumnsAre DEF s, t, e, values
    <3>8. e <= Len(tail) <=> Len(record) <= p
      BY <1>3, <1>5, <1>7, <3>4
    <3>9. DecodeRecord(payload) = IF Len(record) <= p THEN {values} ELSE {}
      BY <3>2, <3>3, <3>7, <3>8
    <3> QED
      BY <3>9 DEF record, p, values
  <2> QED
    BY <2>4, <2>5
<1> QED
  BY <1>5, <1>9, <1>10

LEMMA RecordBytes ==
    ASSUME NEW columns, IsColumns(columns)
    PROVE  SqliteRecord(columns) \in Seq(Octets)
<1> DEFINE n == Len(columns)
<1>1. PICK h, b : /\ h[n] \in Seq(Octets) /\ b[n] \in Seq(Octets)
                  /\ MaxBytes + Len(h[n]) < VarintLimit
                  /\ SqliteRecord(columns) =
                       WriteVarint(Own(Len(h[n])) + Len(h[n])) \o h[n] \o b[n]
  BY RecordIs
<1> DEFINE s == h[n]
           l == Len(s)
           w == WriteVarint(Own(l) + l)
<1>2. l \in Nat /\ MaxBytes + l < VarintLimit
  BY <1>1
<1> HIDE DEF l
<1>3. Own(l) \in 1 .. MaxBytes
  BY <1>2, OwnIs
<1>4. Own(l) + l \in Nat /\ Own(l) + l < VarintLimit
  BY <1>2, <1>3, Bases, LimitIs
<1>5. w \in Seq(Octets)
  BY <1>4, WriteBounds DEF Octets
<1> DEFINE ws == w \o s
<1>6. SqliteRecord(columns) = ws \o b[n]
  BY <1>1 DEF l
<1> HIDE DEF w
<1>7. ws \in Seq(Octets)
  BY <1>1, <1>5, Concat
<1> HIDE DEF ws
<1>8. ws \o b[n] \in Seq(Octets)
  BY <1>1, <1>7, Concat
<1> QED
  BY <1>6, <1>8

LEMMA ReturnedDecodes == Returned => RecordRoundTrip
<1>1. ASSUME Returned, Over("record")
      PROVE  /\ result # {}
             /\ \A values \in result :
                  /\ DOMAIN values = DOMAIN call.columns
                  /\ \A i \in DOMAIN values : ReadsAs(values[i], call.columns[i].value)
  <2> DEFINE columns == call.columns
             record == SqliteRecord(columns)
             payload == record \o call.rest
  <2>1. call \in Calls /\ call.op = "record" /\ result = DecodeRecord(payload)
    BY <1>1 DEF Returned, Over
  <2>2. IsColumns(columns) /\ call.rest \in Seq(Octets)
    BY <2>1, CallsAssumption DEF Octets
  <2>3. record \in Seq(Octets)
    BY <2>2, RecordBytes
  <2> HIDE DEF record
  <2>4. /\ payload \in Seq(Octets) /\ Len(payload) = Len(record) + Len(call.rest)
        /\ \A i \in 1 .. Len(record) : payload[i] = record[i]
    BY <2>2, <2>3, Concat
  <2> HIDE DEF payload
  <2>5. Agrees(payload, record)
    BY <2>4 DEF Agrees
  <2>6. Len(record) <= Len(payload)
    <3>1. Len(record) \in Nat /\ Len(call.rest) \in Nat
      BY <2>2, <2>3
    <3> QED
      BY <2>4, <3>1
  <2> HIDE DEF columns
  <2>7. DecodeRecord(payload) = {[i \in DOMAIN columns |-> Reading(columns[i])]}
    BY <2>2, <2>4, <2>5, <2>6, DecodesRecord DEF record
  <2>8. \A i \in DOMAIN columns : ReadsAs(Reading(columns[i]), columns[i].value)
    <3> SUFFICES ASSUME NEW i \in DOMAIN columns
                 PROVE  ReadsAs(Reading(columns[i]), columns[i].value)
      OBVIOUS
    <3>1. IsColumn(columns[i])
      BY <2>2 DEF IsColumns
    <3>2. ColumnReads(columns[i])
      BY <3>1, ColumnIsRead
    <3> QED
      BY <3>2 DEF ColumnReads
  <2> QED
    BY <2>1, <2>7, <2>8 DEF columns
<1>2. ASSUME Returned, Over("truncated")
      PROVE  result = {}
  <2> DEFINE columns == call.columns
             record == SqliteRecord(columns)
             part(n) == SubSeq(record, 1, n)
  <2>1. /\ call \in Calls /\ call.op = "truncated"
        /\ result = UNION {DecodeRecord(part(n)) : n \in 0 .. Len(record) - 1}
    BY <1>2 DEF Returned, Over
  <2>2. IsColumns(columns)
    BY <2>1, CallsAssumption
  <2>3. record \in Seq(Octets)
    BY <2>2, RecordBytes
  <2> HIDE DEF columns
  <2>4. ASSUME NEW n \in 0 .. Len(record) - 1
        PROVE  DecodeRecord(part(n)) = {}
    <3> DEFINE payload == part(n)
    <3> HIDE DEF record
    <3>1. /\ Len(record) \in Nat /\ 1 \in 1 .. Len(record) + 1 /\ n \in 1 - 1 .. Len(record)
          /\ 1 \in Int /\ n \in Int
          /\ \A k \in 1 .. n : record[k] \in Octets /\ k \in 1 .. n - 1 + 1 /\ 1 + k - 1 = k
      <4>1. Len(record) \in Nat
        BY <2>3
      <4> QED
        BY <2>3, <4>1
    <3>2. payload \in Seq(Octets) /\ Len(payload) = n - 1 + 1
      BY <2>3, <3>1, Slice
    <3>3. \A k \in 1 .. n - 1 + 1 : payload[k] = record[1 + k - 1]
      BY <3>1, SubSeqProperties
    <3> HIDE DEF payload
    <3>4. Len(payload) = n
      BY <3>1, <3>2
    <3>5. Agrees(payload, record)
      <4> SUFFICES ASSUME NEW i \in 1 .. Len(record), i <= Len(payload)
                   PROVE  payload[i] = record[i]
        BY DEF Agrees
      <4>1. i \in 1 .. n
        BY <3>1, <3>4
      <4> QED
        BY <3>1, <3>3, <4>1
    <3>6. ~ (Len(record) <= Len(payload))
      BY <3>1, <3>4
    <3>7. DecodeRecord(payload) = {}
      BY <2>2, <3>2, <3>5, <3>6, DecodesRecord DEF record
    <3> QED
      BY <3>7 DEF payload
  <2> HIDE DEF record, part
  <2>5. UNION {DecodeRecord(part(n)) : n \in 0 .. Len(record) - 1} = {}
    BY <2>4
  <2> QED
    BY <2>1, <2>5
<1> QED
  BY <1>1, <1>2 DEF RecordRoundTrip

(* decode_record on every record SQLite writes, of any columns, with any    *)
(* header length a varint can tell: it is decoded to its columns whatever   *)
(* follows it, but for a text that is not UTF-8, which is read as another   *)
(* that is; and each of its prefixes is refused.                            *)
THEOREM RecordsReadBack == Spec => []RecordRoundTrip
BY ReturnedAlways, ReturnedDecodes, PTL


---------------------------------------------------------------------------
(* Sums.                                                                    *)

Chosen(s) == CHOOSE x \in s : TRUE

(* What the sum over a set unfolds to. *)
Unfolds(h, L, f) ==
    h = [s \in SUBSET L |-> IF s = {} THEN 0 ELSE f[Chosen(s)] + h[s \ {Chosen(s)}]]

LEMMA TotalIs ==
    ASSUME NEW f, NEW w, Unfolds(w, DOMAIN f, f)
    PROVE  \E h : Unfolds(h, DOMAIN f, f) /\ Total(f) = h[DOMAIN f]
<1> DEFINE h == CHOOSE h : Unfolds(h, DOMAIN f, f)
<1>1. Unfolds(h, DOMAIN f, f)
  OBVIOUS
<1>2. Total(f) = h[DOMAIN f]
  BY DEF Total, MapThenSumSet, MapThenFoldSet, Unfolds, Chosen
<1> QED
  BY <1>1, <1>2

(* Sums that unfold to numbers are alike. *)
LEMMA SumsAgree ==
    ASSUME NEW L, IsFiniteSet(L), NEW f, NEW g, NEW h, Unfolds(g, L, f), Unfolds(h, L, f)
    PROVE  g[L] = h[L]
<1> DEFINE A == {n \in Nat : \A s \in SUBSET L : Cardinality(s) = n => g[s] = h[s]}
<1>1. \A s \in SUBSET L : IsFiniteSet(s) /\ Cardinality(s) \in Nat
  BY FS_Subset, FS_CardinalityType
<1>2. 0 \in A
  <2>1. ASSUME NEW s \in SUBSET L, Cardinality(s) = 0 PROVE g[s] = h[s]
    <3>1. s = {}
      BY <1>1, <2>1, FS_EmptySet
    <3> QED
      BY <3>1 DEF Unfolds
  <2> QED
    BY <2>1
<1>3. ASSUME NEW n \in Nat, n \in A PROVE n + 1 \in A
  <2>1. ASSUME NEW s \in SUBSET L, Cardinality(s) = n + 1 PROVE g[s] = h[s]
    <3>1. s # {}
      BY <1>1, <2>1, FS_EmptySet
    <3>2. PICK x : x = Chosen(s)
      OBVIOUS
    <3>3. x \in s
      BY <3>1, <3>2 DEF Chosen
    <3>4. s \ {x} \in SUBSET L /\ Cardinality(s \ {x}) = n
      <4>1. IsFiniteSet(s) /\ s \ {x} \in SUBSET L
        BY <1>1
      <4>2. Cardinality(s \ {x}) = Cardinality(s) - 1
        BY <3>3, <4>1, FS_RemoveElement
      <4> QED
        BY <2>1, <4>1, <4>2
    <3>5. g[s \ {x}] = h[s \ {x}]
      BY <1>3, <3>4
    <3>6. g[s] = f[x] + g[s \ {x}] /\ h[s] = f[x] + h[s \ {x}]
      BY <3>1, <3>2 DEF Unfolds
    <3> QED
      BY <3>5, <3>6
  <2> QED
    BY <2>1
<1>4. Nat \subseteq A
  <2> HIDE DEF A
  <2> QED
    BY <1>2, <1>3, NatInd
<1> QED
  BY <1>1, <1>4

(* Elements counted by their value, and summed up, are all elements with a  *)
(* value that is counted.                                                   *)
LEMMA SumOfFibers ==
    ASSUME NEW S, IsFiniteSet(S), NEW L, IsFiniteSet(L), NEW g, NEW f,
           f = [l \in L |-> Cardinality({x \in S : g[x] = l})]
    PROVE  Total(f) = Cardinality({x \in S : g[x] \in L})
<1> DEFINE of(s) == {x \in S : g[x] \in s}
           w == [s \in SUBSET L |-> Cardinality(of(s))]
<1>0. DOMAIN f = L /\ \A l \in L : f[l] = Cardinality({x \in S : g[x] = l})
  OBVIOUS
<1>1. \A s : IsFiniteSet(of(s)) /\ Cardinality(of(s)) \in Nat
  BY FS_Subset, FS_CardinalityType
<1>2. ASSUME NEW s \in SUBSET L, NEW a \in s
      PROVE  Cardinality(of(s)) = f[a] + Cardinality(of(s \ {a}))
  <2> DEFINE U == {x \in S : g[x] = a}
             V == of(s \ {a})
  <2>1. f[a] = Cardinality(U) /\ IsFiniteSet(U)
    BY <1>0, FS_Subset
  <2>2. of(s) = U \cup V /\ U \cap V = {}
    OBVIOUS
  <2>3. IsFiniteSet(V) /\ Cardinality(V) \in Nat /\ Cardinality(U) \in Nat
    BY <1>1, <2>1, FS_CardinalityType
  <2> HIDE DEF U, V, of
  <2>4. Cardinality(U \cup V) = Cardinality(U) + Cardinality(V) - Cardinality(U \cap V)
    BY <2>1, <2>3, FS_Union
  <2>5. Cardinality(U \cap V) = 0
    BY <2>2, FS_EmptySet
  <2>6. Cardinality(of(s)) = f[a] + Cardinality(V)
    BY <2>1, <2>2, <2>3, <2>4, <2>5
  <2> QED
    BY <2>6 DEF V
<1>3. Unfolds(w, L, f)
  <2>1. ASSUME NEW s \in SUBSET L
        PROVE  w[s] = IF s = {} THEN 0 ELSE f[Chosen(s)] + w[s \ {Chosen(s)}]
    <3>1. CASE s = {}
      <4>1. of(s) = {}
        BY <3>1
      <4> QED
        BY <3>1, <4>1, FS_EmptySet
    <3>2. CASE s # {}
      <4>1. PICK a : a = Chosen(s)
        OBVIOUS
      <4>2. a \in s /\ s \ {a} \in SUBSET L
        BY <3>2, <4>1 DEF Chosen
      <4>3. w[s] = Cardinality(of(s)) /\ w[s \ {a}] = Cardinality(of(s \ {a}))
        BY <4>2
      <4> HIDE DEF w, of
      <4>4. Cardinality(of(s)) = f[a] + Cardinality(of(s \ {a}))
        BY <1>2, <4>2
      <4> QED
        BY <3>2, <4>1, <4>3, <4>4
    <3> QED
      BY <3>1, <3>2
  <2>2. w = [s \in SUBSET L |-> w[s]]
    OBVIOUS
  <2> HIDE DEF w
  <2> QED
    BY <2>1, <2>2 DEF Unfolds
<1>4. PICK h : Unfolds(h, L, f) /\ Total(f) = h[L]
  BY <1>0, <1>3, TotalIs
<1>5. h[L] = w[L]
  <2> HIDE DEF w
  <2> QED
    BY <1>3, <1>4, SumsAgree
<1>6. w[L] = Cardinality(of(L))
  OBVIOUS
<1> QED
  BY <1>4, <1>5, <1>6

(* The values of a function on a finite set are finitely many.              *)
LEMMA FewValues ==
    ASSUME NEW S, IsFiniteSet(S), NEW g
    PROVE  IsFiniteSet({g[x] : x \in S})
<1> DEFINE L == {g[x] : x \in S}
           f == [x \in S |-> g[x]]
<1>1. f \in Surjection(S, L)
  BY DEF Surjection
<1> QED
  BY <1>1, FS_Surjection

(* Counted by two values and summed up by both, all elements are counted.   *)
CountsBy(S, g, K, k) ==
    [l \in {g[x] : x \in S} |->
       [c \in K |-> Cardinality({x \in S : g[x] = l /\ k[x] = c})]]

LEMMA CountedTwice ==
    ASSUME NEW S, IsFiniteSet(S), NEW g, NEW K, IsFiniteSet(K), NEW k,
           \A x \in S : k[x] \in K
    PROVE  /\ Totals(CountsBy(S, g, K, k)) = Cardinality(S)
           /\ \A l \in DOMAIN CountsBy(S, g, K, k) : Total(CountsBy(S, g, K, k)[l]) > 0
<1> DEFINE rows == CountsBy(S, g, K, k)
           L == {g[x] : x \in S}
           of(l) == {x \in S : g[x] = l}
           sums == [l \in L |-> Total(rows[l])]
<1>a. rows = [l \in L |-> [c \in K |-> Cardinality({x \in S : g[x] = l /\ k[x] = c})]]
  BY DEF CountsBy
<1> HIDE DEF rows
<1>0. DOMAIN rows = L
  BY <1>a
<1>1. ASSUME NEW l \in L
      PROVE  /\ Total(rows[l]) = Cardinality(of(l))
             /\ Cardinality(of(l)) > 0
  <2>1. IsFiniteSet(of(l))
    BY FS_Subset
  <2>2. rows[l] = [c \in K |-> Cardinality({x \in of(l) : k[x] = c})]
    <3>1. rows[l] = [c \in K |-> Cardinality({x \in S : g[x] = l /\ k[x] = c})]
      BY <1>a
    <3>2. \A c : {x \in S : g[x] = l /\ k[x] = c} = {x \in of(l) : k[x] = c}
      OBVIOUS
    <3> QED
      BY <3>1, <3>2
  <2>3. {x \in of(l) : k[x] \in K} = of(l)
    OBVIOUS
  <2>4. of(l) # {}
    OBVIOUS
  <2> HIDE DEF of
  <2>5. Total(rows[l]) = Cardinality({x \in of(l) : k[x] \in K})
    BY <2>1, <2>2, SumOfFibers
  <2>6. Cardinality(of(l)) \in Nat /\ Cardinality(of(l)) # 0
    BY <2>1, <2>4, FS_EmptySet, FS_CardinalityType
  <2>7. Total(rows[l]) = Cardinality(of(l))
    BY <2>3, <2>5, Zenon
  <2>8. Cardinality(of(l)) > 0
    BY <2>6
  <2> QED
    BY <2>7, <2>8, Zenon
<1>2. Totals(rows) = Total(sums)
  BY <1>0 DEF Totals
<1>3. sums = [l \in L |-> Cardinality(of(l))]
  BY <1>1
<1>4. IsFiniteSet(L)
  BY FewValues
<1>5. {x \in S : g[x] \in L} = S
  OBVIOUS
<1>6. Total(sums) = Cardinality({x \in S : g[x] \in L})
  <2> HIDE DEF L, sums
  <2> QED
    BY <1>3, <1>4, SumOfFibers
<1> HIDE DEF L, of, sums
<1>7. Totals(rows) = Cardinality(S)
  BY <1>2, <1>5, <1>6, Zenon
<1>8. \A l \in DOMAIN rows : Total(rows[l]) > 0
  BY <1>0, <1>1
<1> QED
  BY <1>7, <1>8 DEF rows

(* Numbers that grow are counted by their places.                           *)
LEMMA CountedByPlace ==
    ASSUME NEW I, IsFiniteSet(I), NEW f,
           \A i, j \in I : i # j => f[i] # f[j]
    PROVE  Cardinality(I) = Cardinality({f[i] : i \in I})
<1> DEFINE R == {f[i] : i \in I}
           h == [i \in I |-> f[i]]
<1>1. h \in [I -> R] /\ h \in Surjection(I, R)
  BY DEF Surjection
<1>2. h \in Injection(I, R)
  BY <1>1 DEF Injection, IsInjective
<1> HIDE DEF h
<1>3. h \in Bijection(I, R)
  BY <1>1, <1>2 DEF Bijection
<1> QED
  BY <1>3, FS_Bijection DEF ExistsBijection

(* What a rollup counts are the pages of the deltas, under their owners.    *)
LEMMA RollupIs ==
    ASSUME NEW deltas, NEW old, NEW new, NEW l, NEW c \in Changes,
           l \in DOMAIN Rollup(deltas, old, new)
    PROVE  Rollup(deltas, old, new)[l][c] = Count(deltas, l, c, old, new)
BY DEF Rollup

LEMMA FewChanges == \A a, b, c : IsFiniteSet({a, b, c})
<1>1. SUFFICES ASSUME NEW a, NEW b, NEW c PROVE IsFiniteSet({a, b, c})
  OBVIOUS
<1>2. IsFiniteSet({a}) /\ IsFiniteSet({a} \cup {b})
  BY FS_Singleton, FS_AddElement
<1>3. IsFiniteSet(({a} \cup {b}) \cup {c})
  BY <1>2, FS_AddElement
<1>4. {a, b, c} = ({a} \cup {b}) \cup {c}
  OBVIOUS
<1> QED
  BY <1>3, <1>4

LEMMA RollupCounts ==
    ASSUME NEW D, NEW deltas \in Seq(D), NEW old, NEW new,
           \A i \in DOMAIN deltas : deltas[i].change \in Changes
    PROVE  /\ Totals(Rollup(deltas, old, new)) = Len(deltas)
           /\ \A l \in DOMAIN Rollup(deltas, old, new) : Total(Rollup(deltas, old, new)[l]) > 0
<1> DEFINE S == DOMAIN deltas
           g == [i \in S |-> OwnerOf(deltas[i], old, new)]
           k == [i \in S |-> deltas[i].change]
           n == Len(deltas)
           rows == Rollup(deltas, old, new)
<1>1. S = 1 .. n /\ n \in Nat
  OBVIOUS
<1>2. IsFiniteSet(S) /\ Cardinality(S) = n
  <2> HIDE DEF S, n
  <2> QED
    BY <1>1, FS_Interval
<1>3. IsFiniteSet(Changes)
  BY FewChanges DEF Changes
<1>4. {OwnerOf(deltas[i], old, new) : i \in S} = {g[i] : i \in S}
  OBVIOUS
<1>5. \A l, c : Count(deltas, l, c, old, new) = Cardinality({i \in S : g[i] = l /\ k[i] = c})
  <2>1. SUFFICES ASSUME NEW l, NEW c
                 PROVE  Count(deltas, l, c, old, new)
                        = Cardinality({i \in S : g[i] = l /\ k[i] = c})
    OBVIOUS
  <2>2. {i \in S : OwnerOf(deltas[i], old, new) = l /\ deltas[i].change = c}
        = {i \in S : g[i] = l /\ k[i] = c}
    OBVIOUS
  <2> QED
    BY <2>2, Zenon DEF Count
<1>6. \A i \in S : k[i] \in Changes
  OBVIOUS
<1> HIDE DEF g, k, S
<1>7. rows = CountsBy(S, g, Changes, k)
  <2>1. rows = [l \in {OwnerOf(deltas[i], old, new) : i \in S} |->
                  [c \in Changes |-> Count(deltas, l, c, old, new)]]
    BY DEF Rollup, S
  <2>2. rows = [l \in {g[i] : i \in S} |->
                  [c \in Changes |-> Count(deltas, l, c, old, new)]]
    BY <1>4, <2>1, Zenon
  <2> DEFINE cell(l, c) == Count(deltas, l, c, old, new)
  <2>3. \A l, c : cell(l, c) = Cardinality({i \in S : g[i] = l /\ k[i] = c})
    BY <1>5
  <2>4. rows = [l \in {g[i] : i \in S} |-> [c \in Changes |-> cell(l, c)]]
    BY <2>2
  <2> HIDE DEF rows, cell
  <2> QED
    BY <2>3, <2>4, Zenon DEF CountsBy
<1>8. /\ Totals(CountsBy(S, g, Changes, k)) = Cardinality(S)
      /\ \A l \in DOMAIN CountsBy(S, g, Changes, k) : Total(CountsBy(S, g, Changes, k)[l]) > 0
  BY <1>2, <1>3, <1>6, CountedTwice, Zenon
<1> HIDE DEF rows, n
<1>9. Totals(rows) = n /\ \A l \in DOMAIN rows : Total(rows[l]) > 0
  BY <1>2, <1>7, <1>8, Zenon
<1> QED
  BY <1>9 DEF rows, n

(* The pages with a change, of which that state tells the owner, and those  *)
(* a rollup counts under a label.                                           *)
InOrder(deltas) ==
    /\ \A i \in DOMAIN deltas : deltas[i].pgno \in Nat
    /\ \A i, j \in DOMAIN deltas : i < j => deltas[i].pgno < deltas[j].pgno

OwnedIn(deltas, s, c, old, new) ==
    \A i \in DOMAIN deltas : deltas[i].change = c =>
       /\ deltas[i].pgno \in DOMAIN s.owners
       /\ OwnerOf(deltas[i], old, new) = OwnerLabel(s.owners[deltas[i].pgno])

LEMMA CountIsOfPages ==
    ASSUME NEW D, NEW deltas \in Seq(D), InOrder(deltas), NEW old, NEW new,
           NEW s, NEW l, NEW c, OwnedIn(deltas, s, c, old, new)
    PROVE  Count(deltas, l, c, old, new)
           = Cardinality(PagesWith(deltas, c) \cap PagesOf(s, l))
<1> DEFINE I == {i \in DOMAIN deltas : /\ OwnerOf(deltas[i], old, new) = l
                                       /\ deltas[i].change = c}
           J == {i \in DOMAIN deltas : deltas[i].change = c}
           f == [i \in I |-> deltas[i].pgno]
           P == {p \in DOMAIN s.owners : OwnerLabel(s.owners[p]) = l}
<1>1. IsFiniteSet(I)
  <2>1. DOMAIN deltas = 1 .. Len(deltas) /\ Len(deltas) \in Nat
    OBVIOUS
  <2>2. IsFiniteSet(DOMAIN deltas)
    BY <2>1, FS_Interval
  <2> QED
    BY <2>2, FS_Subset
<1>2. \A i, j \in I : i # j => f[i] # f[j]
  <2>1. SUFFICES ASSUME NEW i \in I, NEW j \in I, i # j
                 PROVE  deltas[i].pgno # deltas[j].pgno
    OBVIOUS
  <2>2. i \in DOMAIN deltas /\ j \in DOMAIN deltas /\ i \in Nat /\ j \in Nat
    OBVIOUS
  <2>3. i < j \/ j < i
    BY <2>1, <2>2
  <2> QED
    BY <2>2, <2>3 DEF InOrder
<1>3. Cardinality(I) = Cardinality({f[i] : i \in I})
  <2> HIDE DEF I, f
  <2> QED
    BY <1>1, <1>2, CountedByPlace
<1>4. {f[i] : i \in I} = {deltas[i].pgno : i \in J} \cap P
  <2>1. ASSUME NEW i \in I
        PROVE  f[i] \in {deltas[j].pgno : j \in J} /\ f[i] \in P
    BY DEF OwnedIn
  <2>2. ASSUME NEW p \in P, NEW i \in J, p = deltas[i].pgno
        PROVE  i \in I /\ f[i] = p
    BY <2>2 DEF OwnedIn
  <2> HIDE DEF I, P, f
  <2>3. ASSUME NEW p \in {deltas[j].pgno : j \in J} \cap P
        PROVE  p \in {f[i] : i \in I}
    <3>1. PICK i \in J : p = deltas[i].pgno
      OBVIOUS
    <3> HIDE DEF J
    <3> QED
      BY <2>2, <3>1
  <2> QED
    BY <2>1, <2>3
<1>5. Count(deltas, l, c, old, new) = Cardinality(I)
  BY DEF Count
<1> HIDE DEF I, J, f, P
<1>6. Cardinality(I) = Cardinality({deltas[i].pgno : i \in J} \cap P)
  BY <1>3, <1>4, Zenon
<1>7. {deltas[i].pgno : i \in J} = PagesWith(deltas, c) /\ P = PagesOf(s, l)
  BY Zenon DEF J, P, PagesWith, PagesOf
<1> QED
  BY <1>5, <1>6, <1>7, Zenon

(* tables counts a page under one label and one role.                       *)
Role(owner) == IF owner.kind \in {"btree", "overflow"} THEN owner.kind ELSE "other"

LEMMA TablesCount ==
    ASSUME NEW s, NEW n \in Nat, DOMAIN s.owners = 1 .. n
    PROVE  Totals(TableRows(s)) = n
<1> DEFINE S == 1 .. n
           R == {"btree", "overflow", "other"}
           g == [p \in S |-> OwnerLabel(s.owners[p])]
           k == [p \in S |-> Role(s.owners[p])]
           rows == TableRows(s)
           cell(l, r) == Cardinality({p \in S : OwnerLabel(s.owners[p]) = l
                                                /\ Role(s.owners[p]) = r})
<1>1. IsFiniteSet(S) /\ Cardinality(S) = n
  BY FS_Interval
<1>2. IsFiniteSet(R)
  BY FewChanges
<1>3. \A p \in S : k[p] \in R
  BY DEF Role
<1>4. rows = [l \in {OwnerLabel(s.owners[p]) : p \in S} |-> [r \in R |-> cell(l, r)]]
  BY DEF TableRows, Role
<1>5. \A l, r : cell(l, r) = Cardinality({p \in S : g[p] = l /\ k[p] = r})
  <2>1. SUFFICES ASSUME NEW l, NEW r
                 PROVE  cell(l, r) = Cardinality({p \in S : g[p] = l /\ k[p] = r})
    OBVIOUS
  <2>2. {p \in S : OwnerLabel(s.owners[p]) = l /\ Role(s.owners[p]) = r}
        = {p \in S : g[p] = l /\ k[p] = r}
    OBVIOUS
  <2> QED
    BY <2>2, Zenon
<1>6. {OwnerLabel(s.owners[p]) : p \in S} = {g[p] : p \in S}
  OBVIOUS
<1> HIDE DEF g, k, S, R, rows, cell
<1>7. rows = CountsBy(S, g, R, k)
  BY <1>4, <1>5, <1>6, Zenon DEF CountsBy
<1>8. Totals(CountsBy(S, g, R, k)) = Cardinality(S)
  BY <1>1, <1>2, <1>3, CountedTwice, Zenon
<1>9. Totals(rows) = n
  BY <1>1, <1>7, <1>8, Zenon
<1> QED
  BY <1>9 DEF rows

StateWith(c, old, new) == IF c = "removed" THEN old ELSE new

LEMMA DiffCounts ==
    ASSUME NEW old, IsState(old), NEW new, IsState(new), NEW l, NEW c \in Changes
    PROVE  Count(DiffHashes(old.hashes, new.hashes), l, c, old, new)
           = Cardinality(PagesWith(DiffHashes(old.hashes, new.hashes), c)
                         \cap PagesOf(StateWith(c, old, new), l))
<1> DEFINE D == Deltas(old.hashes, new.hashes)
           deltas == DiffHashes(old.hashes, new.hashes)
           s == StateWith(c, old, new)
<1>0. /\ old.hashes \in Seq(Range(old.hashes)) /\ DOMAIN old.owners = DOMAIN old.hashes
      /\ new.hashes \in Seq(Range(new.hashes)) /\ DOMAIN new.owners = DOMAIN new.hashes
  BY DEF IsState
<1>1. /\ deltas \in Seq(D)
      /\ \A i, j \in DOMAIN deltas : i < j => deltas[i].pgno < deltas[j].pgno
      /\ \A p, d : Told(deltas, p, d) <=> HasDelta(old.hashes, new.hashes, p, d)
  BY <1>0, DiffTells, Zenon
<1>2. IsDeltas(D)
  BY <1>0, DeltasSortable, Zenon
<1> HIDE DEF D, deltas
<1>3. InOrder(deltas)
  BY <1>1, <1>2 DEF IsDeltas, InOrder
<1>4. ASSUME NEW i \in DOMAIN deltas, deltas[i].change = c
      PROVE  /\ deltas[i].pgno \in DOMAIN s.owners
             /\ OwnerOf(deltas[i], old, new) = OwnerLabel(s.owners[deltas[i].pgno])
  <2>1. Told(deltas, deltas[i].pgno, c)
    BY <1>4 DEF Told
  <2>2. HasDelta(old.hashes, new.hashes, deltas[i].pgno, c)
    BY <1>1, <2>1, Zenon
  <2>3. deltas[i].pgno \in DOMAIN s.owners
    BY <1>0, <2>2 DEF HasDelta, StateWith
  <2> QED
    BY <1>4, <2>3 DEF OwnerOf, StateWith
<1>5. Count(deltas, l, c, old, new) = Cardinality(PagesWith(deltas, c) \cap PagesOf(s, l))
  <2>1. OwnedIn(deltas, s, c, old, new)
    BY <1>4 DEF OwnedIn
  <2>2. deltas \in Seq(D)
    BY <1>1
  <2> QED
    BY <2>1, <2>2, <1>3, CountIsOfPages
<1> QED
  BY <1>5, Zenon DEF deltas, s

LEMMA ReturnedAddsUp == Returned => RollupAddsUp
<1>1. ASSUME Returned, Over("diff"), NEW report \in result
      PROVE  /\ Totals(report.byOwner) = Len(report.deltas)
             /\ \A l \in DOMAIN report.byOwner :
                  /\ Total(report.byOwner[l]) > 0
                  /\ report.byOwner[l]["removed"] = Reported(report, "removed", call.old, l)
                  /\ report.byOwner[l]["added"]   = Reported(report, "added", call.new, l)
                  /\ report.byOwner[l]["changed"] = Reported(report, "changed", call.new, l)
  <2> DEFINE old    == call.old
             new    == call.new
             deltas == DiffHashes(old.hashes, new.hashes)
             rows   == Rollup(deltas, old, new)
  <2>1. call \in Calls /\ call.op = "diff" /\ result = DiffSources(old, new)
    BY <1>1 DEF Returned, Over
  <2>2. IsState(old) /\ IsState(new)
    BY <2>1, CallsAssumption
  <2>3. report.deltas = deltas /\ report.byOwner = rows
    BY <1>1, <2>1 DEF DiffSources
  <2> HIDE DEF old, new
  <2>4. /\ old.hashes \in Seq(Range(old.hashes)) /\ DOMAIN old.owners = DOMAIN old.hashes
        /\ new.hashes \in Seq(Range(new.hashes)) /\ DOMAIN new.owners = DOMAIN new.hashes
    BY <2>2 DEF IsState
  <2>5. deltas \in Seq(Deltas(old.hashes, new.hashes))
    BY <2>4, DiffTells, Zenon
  <2>6. \A i \in DOMAIN deltas : deltas[i].change \in Changes
    <3>1. SUFFICES ASSUME NEW i \in DOMAIN deltas
                   PROVE  deltas[i].change \in Changes
      OBVIOUS
    <3>2. Told(deltas, deltas[i].pgno, deltas[i].change)
      BY DEF Told
    <3>3. HasDelta(old.hashes, new.hashes, deltas[i].pgno, deltas[i].change)
      BY <2>4, <3>2, DiffTells, Zenon
    <3> QED
      BY <3>3 DEF HasDelta, Changes
  <2>7. ASSUME NEW l, NEW c \in Changes
        PROVE  Count(deltas, l, c, old, new) = Reported(report, c, StateWith(c, old, new), l)
    <3>1. Count(deltas, l, c, old, new)
          = Cardinality(PagesWith(deltas, c) \cap PagesOf(StateWith(c, old, new), l))
      BY <2>2, DiffCounts, Zenon
    <3> HIDE DEF deltas
    <3> QED
      BY <2>3, <3>1 DEF Reported
  <2> HIDE DEF deltas
  <2>8. Totals(rows) = Len(deltas) /\ \A l \in DOMAIN rows : Total(rows[l]) > 0
    BY <2>5, <2>6, RollupCounts
  <2>9. \A l \in DOMAIN rows : \A c \in Changes : rows[l][c] = Count(deltas, l, c, old, new)
    BY RollupIs
  <2> HIDE DEF rows
  <2>10. ASSUME NEW l \in DOMAIN rows
         PROVE  /\ rows[l]["removed"] = Reported(report, "removed", old, l)
                /\ rows[l]["added"]   = Reported(report, "added", new, l)
                /\ rows[l]["changed"] = Reported(report, "changed", new, l)
    <3>1. "removed" \in Changes /\ "added" \in Changes /\ "changed" \in Changes
      BY DEF Changes
    <3> QED
      BY <2>7, <2>9, <3>1 DEF StateWith
  <2> QED
    BY <2>3, <2>8, <2>10 DEF old, new
<1>2. ASSUME Returned, Over("tables"), NEW rows \in result
      PROVE  Totals(rows) = Len(call.file.hashes)
  <2>1. call \in Calls /\ call.op = "tables" /\ rows = TableRows(call.file)
    BY <1>2 DEF Returned, Over, PrintTables
  <2>2. IsState(call.file)
    BY <2>1, CallsAssumption
  <2>3. /\ DOMAIN call.file.owners = 1 .. Len(call.file.hashes)
        /\ Len(call.file.hashes) \in Nat
    BY <2>2 DEF IsState
  <2> QED
    BY <2>1, <2>3, TablesCount
<1> QED
  BY <1>1, <1>2, Zenon DEF RollupAddsUp

(* Every page a diff reports is counted once, under the owner it has in the *)
(* state it is in, and tables counts every page of a state once, whatever   *)
(* the states are and whoever owns their pages.                             *)
THEOREM CountsEveryPage == Spec => []RollupAddsUp
BY ReturnedAlways, ReturnedAddsUp, PTL

---------------------------------------------------------------------------
(* Lines.                                                                   *)

(* The k-th line ends at b[k], where its newline is the only one of it.     *)
LinesEndAt(text, ls, b) ==
    /\ b \in [0 .. Len(ls) -> 0 .. Len(text)] /\ b[0] = 0
    /\ \A k \in 0 .. Len(ls) : k + 1 <= Len(ls) =>
         /\ b[k + 1] = b[k] + Len(ls[k + 1]) + 1
         /\ text[b[k + 1]] = NL
         /\ \A j \in 1 .. Len(ls[k + 1]) : /\ text[b[k] + j] = ls[k + 1][j]
                                           /\ text[b[k] + j] # NL

IsText(text, T, ls) ==
    /\ text \in Seq(T) /\ Len(text) \in Nat /\ Len(ls) \in Nat
    /\ \A k \in 1 .. Len(ls) : ls[k] \in Seq(T) /\ Len(ls[k]) \in Nat

LEMMA NewlinesFinite ==
    ASSUME NEW T, NEW text \in Seq(T)
    PROVE  /\ IsFiniteSet(Newlines(text)) /\ Newlines(text) \subseteq 1 .. Len(text)
           /\ \A i : IsFiniteSet(Newlines(text) \cap 1 .. i)
<1>1. Len(text) \in Nat /\ Newlines(text) \subseteq 1 .. Len(text)
  BY DEF Newlines
<1>2. IsFiniteSet(1 .. Len(text))
  BY <1>1, FS_Interval
<1> QED
  BY <1>1, <1>2, FS_Subset

(* The k-th line is the one that ends with the k-th newline.                *)
LEMMA NewlinesBefore ==
    ASSUME NEW T, NEW text, NEW ls, IsText(text, T, ls), NEW b, LinesEndAt(text, ls, b)
    PROVE  \A k \in 0 .. Len(ls) : Cardinality(Newlines(text) \cap 1 .. b[k]) = k
<1> DEFINE n == Len(ls)
           N == Newlines(text)
           S == {k \in Nat : k <= n => Cardinality(N \cap 1 .. b[k]) = k}
<1>1. n \in Nat /\ b \in [0 .. n -> 0 .. Len(text)] /\ b[0] = 0 /\ Len(text) \in Nat
      /\ text \in Seq(T)
  BY DEF LinesEndAt, IsText
<1>2. 0 \in S
  <2>1. N \cap 1 .. b[0] = {}
    BY <1>1
  <2> HIDE DEF N
  <2> QED
    BY <2>1, FS_EmptySet
<1>3. ASSUME NEW k \in Nat, k \in S, k + 1 <= n
      PROVE  Cardinality(N \cap 1 .. b[k + 1]) = k + 1
  <2> DEFINE l == ls[k + 1]
             m == Len(l)
  <2>1. k \in 0 .. n /\ k + 1 \in 0 .. n /\ k + 1 \in 1 .. n
    BY <1>1, <1>3
  <2>2. m \in Nat
    BY <2>1 DEF IsText
  <2>3. b[k + 1] = b[k] + m + 1 /\ text[b[k + 1]] = NL
    BY <1>3, <2>1 DEF LinesEndAt
  <2>4. \A j \in 1 .. m : text[b[k] + j] # NL
    BY <1>3, <2>1 DEF LinesEndAt
  <2>5. b[k] \in Nat /\ b[k + 1] \in Nat /\ b[k + 1] <= Len(text)
    BY <1>1, <2>1
  <2> HIDE DEF n, m
  <2>6. b[k + 1] \in N /\ b[k + 1] \notin 1 .. b[k]
    BY <1>1, <2>2, <2>3, <2>5 DEF Newlines
  <2>7. ASSUME NEW i \in N, i \in 1 .. b[k + 1], i # b[k + 1]
        PROVE  i \in 1 .. b[k]
    <3>1. SUFFICES ASSUME ~(i <= b[k]) PROVE FALSE
      BY <2>5, <2>7
    <3>2. i - b[k] \in 1 .. m /\ b[k] + (i - b[k]) = i
      BY <2>2, <2>3, <2>5, <2>7, <3>1
    <3> QED
      BY <2>4, <3>2 DEF Newlines
  <2>8. N \cap 1 .. b[k + 1] = (N \cap 1 .. b[k]) \cup {b[k + 1]}
    <3>1. 1 .. b[k] \subseteq 1 .. b[k + 1] /\ b[k + 1] \in 1 .. b[k + 1]
      BY <2>2, <2>3, <2>5
    <3> HIDE DEF N
    <3> QED
      BY <2>6, <2>7, <3>1
  <2>9. IsFiniteSet(N \cap 1 .. b[k])
    BY <1>1, NewlinesFinite
  <2>10. Cardinality(N \cap 1 .. b[k]) = k
    BY <1>3, <2>1 DEF n
  <2> HIDE DEF N
  <2>11. b[k + 1] \notin N \cap 1 .. b[k]
    BY <2>6
  <2>12. Cardinality((N \cap 1 .. b[k]) \cup {b[k + 1]}) = Cardinality(N \cap 1 .. b[k]) + 1
    BY <2>9, <2>11, FS_AddElement
  <2> QED
    BY <2>8, <2>10, <2>12
<1>4. ASSUME NEW k \in Nat, k \in S
      PROVE  k + 1 \in S
  <2>1. k + 1 <= n => Cardinality(N \cap 1 .. b[k + 1]) = k + 1
    <3> HIDE DEF n, N, S
    <3> QED BY <1>3, <1>4
  <2> QED
    BY <2>1
<1>5. Nat \subseteq S
  <2> HIDE DEF S
  <2> QED BY <1>2, <1>4, NatInd
<1> QED
  BY <1>1, <1>5

LEMMA LineEnds ==
    ASSUME NEW T, NEW text, NEW ls, IsText(text, T, ls), NEW b, LinesEndAt(text, ls, b)
    PROVE  /\ \A k \in 1 .. Len(ls) : LineEnd(text, k) = b[k]
           /\ \A k \in 1 .. Len(ls) + 1 : LineStart(text, k) = b[k - 1] + 1
<1> DEFINE n == Len(ls)
           N == Newlines(text)
<1>1. n \in Nat /\ b \in [0 .. n -> 0 .. Len(text)] /\ b[0] = 0 /\ Len(text) \in Nat
      /\ text \in Seq(T)
  BY DEF LinesEndAt, IsText
<1>2. ASSUME NEW k \in 1 .. n
      PROVE  LineEnd(text, k) = b[k]
  <2>1. PICK j : j = k - 1
    OBVIOUS
  <2>2. j \in 0 .. n /\ j + 1 = k /\ j + 1 <= n /\ k \in 0 .. n
    BY <1>1, <2>1
  <2>3. text[b[j + 1]] = NL /\ b[j + 1] = b[j] + Len(ls[j + 1]) + 1
    BY <2>2 DEF LinesEndAt
  <2>4. Len(ls[k]) \in Nat /\ b[j] \in Nat /\ b[k] \in Nat /\ b[k] <= Len(text)
    BY <1>1, <2>2 DEF IsText
  <2>5. b[k] \in N
    BY <1>1, <2>2, <2>3, <2>4 DEF Newlines
  <2>6. Cardinality(N \cap 1 .. b[k]) = k
    BY <2>2, NewlinesBefore
  <2>7. ASSUME NEW x \in N, NEW y \in N, x < y
        PROVE  Cardinality(N \cap 1 .. x) < Cardinality(N \cap 1 .. y)
    <3>1. N \subseteq 1 .. Len(text) /\ IsFiniteSet(N \cap 1 .. y)
      BY <1>1, NewlinesFinite
    <3>2. x \in Nat /\ y \in Nat /\ y # 0
      BY <1>1, <3>1
    <3>3. N \cap 1 .. x \subseteq N \cap 1 .. y
      BY <2>7, <3>2
    <3>4. y \in N \cap 1 .. y /\ y \notin N \cap 1 .. x
      BY <2>7, <3>2
    <3> DEFINE A == N \cap 1 .. x
               B == N \cap 1 .. y
    <3> HIDE DEF A, B
    <3>5. A \subseteq B /\ A # B /\ IsFiniteSet(B)
      BY <3>1, <3>3, <3>4 DEF A, B
    <3>6. Cardinality(A) <= Cardinality(B) /\ Cardinality(A) # Cardinality(B) /\ IsFiniteSet(A)
      BY <3>5, FS_Subset
    <3>7. Cardinality(A) \in Nat /\ Cardinality(B) \in Nat
      BY <3>5, <3>6, FS_CardinalityType
    <3>8. Cardinality(A) < Cardinality(B)
      BY <3>6, <3>7
    <3> QED
      BY <3>8 DEF A, B
  <2>8. \A i \in N : i \in Nat
    BY <1>1 DEF Newlines
  <2> HIDE DEF N
  <2>9. \A i \in N : Cardinality(N \cap 1 .. i) = k => i = b[k]
    <3>1. SUFFICES ASSUME NEW i \in N, Cardinality(N \cap 1 .. i) = k, i # b[k]
                   PROVE  FALSE
      OBVIOUS
    <3>2. i < b[k] \/ b[k] < i
      BY <2>4, <2>8, <3>1
    <3>3. k \in Nat
      OBVIOUS
    <3>4. CASE i < b[k]
      BY <2>5, <2>6, <2>7, <3>1, <3>3, <3>4
    <3>5. CASE b[k] < i
      BY <2>5, <2>6, <2>7, <3>1, <3>3, <3>5
    <3> QED
      BY <3>2, <3>4, <3>5
  <2>10. LineEnd(text, k) = CHOOSE i \in N : Cardinality(N \cap 1 .. i) = k
    BY DEF LineEnd, N
  <2> QED
    BY <2>5, <2>6, <2>9, <2>10
<1>3. ASSUME NEW k \in 1 .. n + 1
      PROVE  LineStart(text, k) = b[k - 1] + 1
  <2>1. CASE k = 1
    BY <1>1, <2>1 DEF LineStart
  <2>2. CASE k # 1
    <3>1. k - 1 \in 1 .. n
      BY <1>1, <2>2
    <3> QED
      BY <1>2, <2>2, <3>1 DEF LineStart
  <2> QED
    BY <2>1, <2>2
<1> QED
  BY <1>2, <1>3

LEMMA LineIs ==
    ASSUME NEW T, NEW text, NEW ls, IsText(text, T, ls), NEW b, LinesEndAt(text, ls, b)
    PROVE  \A k \in 1 .. Len(ls) :
              SubSeq(text, LineStart(text, k), LineEnd(text, k) - 1) = ls[k]
<1> SUFFICES ASSUME NEW k \in 1 .. Len(ls)
             PROVE  SubSeq(text, LineStart(text, k), LineEnd(text, k) - 1) = ls[k]
  OBVIOUS
<1> DEFINE n == Len(ls)
<1>1. n \in Nat /\ b \in [0 .. n -> 0 .. Len(text)] /\ b[0] = 0 /\ Len(text) \in Nat
      /\ text \in Seq(T)
  BY DEF LinesEndAt, IsText
<1>2. PICK j : j = k - 1
  OBVIOUS
<1>3. j \in 0 .. n /\ j + 1 = k /\ j + 1 <= n /\ k \in 0 .. n
  BY <1>1, <1>2
<1> DEFINE l == ls[k]
           m == Len(l)
           i == b[j] + 1
           e == b[j] + m
<1>4. /\ b[k] = b[j] + m + 1
      /\ \A x \in 1 .. m : text[b[j] + x] = l[x]
  BY <1>3 DEF LinesEndAt
<1>5. l \in Seq(T) /\ m \in Nat
  BY DEF IsText
<1>6. b[j] \in Nat /\ b[k] \in Nat /\ b[k] <= Len(text)
  BY <1>1, <1>3
<1>7. LineStart(text, k) = i /\ LineEnd(text, k) - 1 = e
  <2>1. LineStart(text, k) = b[k - 1] + 1 /\ LineEnd(text, k) = b[k]
    BY <1>1, LineEnds
  <2> QED
    BY <1>2, <1>4, <1>5, <1>6, <2>1, SMTT(30)
<1> DEFINE t == SubSeq(text, i, e)
<1> HIDE DEF l, m
<1>8. i \in 1 .. Len(text) + 1 /\ e \in i - 1 .. Len(text) /\ e - i + 1 = m
  <2> DEFINE L == Len(text)
             x == b[j]
             y == b[k]
  <2>1. L \in Nat /\ x \in Nat /\ y \in Nat /\ y <= L /\ y = x + m + 1 /\ m \in Nat
    BY <1>1, <1>4, <1>5, <1>6 DEF l, m
  <2> HIDE DEF L, x, y
  <2>2. x + 1 \in 1 .. L + 1 /\ x + m \in (x + 1) - 1 .. L /\ (x + m) - (x + 1) + 1 = m
    BY <2>1
  <2> QED
    BY <2>2 DEF L, x
<1>9. t \in Seq(T) /\ Len(t) = m
  <2>1. t \in Seq(T) /\ Len(t) = e - i + 1
    <3> HIDE DEF i, e
    <3> QED BY <1>1, <1>8, Slice
  <2> QED
    BY <1>8, <2>1
<1>10. \A x \in 1 .. m : t[x] = l[x]
  <2> SUFFICES ASSUME NEW x \in 1 .. m PROVE t[x] = l[x]
    OBVIOUS
  <2>1. \A y \in 1 .. e - i + 1 : t[y] = text[i + y - 1]
    <3> HIDE DEF i, e
    <3>1. i \in Int /\ e \in Int /\ \A y \in i .. e : y \in 1 .. Len(text)
      BY <1>1, <1>8
    <3>2. \A y \in i .. e : text[y] \in T
      BY <1>1, <3>1
    <3> QED BY <3>1, <3>2, SubSeqProperties
  <2>2. t[x] = text[i + x - 1]
    <3> HIDE DEF i, e, t
    <3> QED
      BY <1>8, <2>1
  <2>3. i + x - 1 = b[j] + x
    BY <1>6
  <2> QED
    BY <1>4, <2>2, <2>3 DEF l, m
<1> HIDE DEF t, i, e
<1>11. t = l
  BY <1>5, <1>9, <1>10, SeqEqual DEF m
<1> QED
  BY <1>7, <1>11 DEF t, l

(* What str::lines makes of a text that begins with these lines.            *)
LEMMA LinesAre ==
    ASSUME NEW T, NEW text, NEW ls, IsText(text, T, ls), NEW b, LinesEndAt(text, ls, b)
    PROVE  /\ \E V : Lines(text) \in Seq(V)
           /\ Len(Lines(text)) \in Nat /\ Len(ls) <= Len(Lines(text))
           /\ Len(Lines(text)) = Len(ls) <=> Len(text) = b[Len(ls)]
           /\ \A k \in 1 .. Len(ls) : Lines(text)[k] = SansReturn(ls[k])
<1> DEFINE n    == Len(ls)
           N    == Newlines(text)
           c    == Cardinality(N)
           line(k) == SansReturn(SubSeq(text, LineStart(text, k), LineEnd(text, k) - 1))
           head == [k \in 1 .. c |-> line(k)]
           tail == SubSeq(text, LineStart(text, c + 1), Len(text))
           rest == IF tail = << >> THEN << >> ELSE <<tail>>
           V    == {line(k) : k \in 1 .. c} \cup {tail}
<1>1. n \in Nat /\ b \in [0 .. n -> 0 .. Len(text)] /\ Len(text) \in Nat /\ text \in Seq(T)
  BY DEF LinesEndAt, IsText
<1>2. c \in Nat /\ IsFiniteSet(N) /\ N \subseteq 1 .. Len(text)
  BY <1>1, NewlinesFinite, FS_CardinalityType
<1>3. b[n] \in 0 .. Len(text) /\ Cardinality(N \cap 1 .. b[n]) = n
  BY <1>1, NewlinesBefore
<1>4. n <= c
  <2>1. N \cap 1 .. b[n] \subseteq N
    OBVIOUS
  <2> HIDE DEF N, n
  <2> QED
    BY <1>2, <1>3, <2>1, FS_Subset
<1>5. Lines(text) = head \o rest
  BY DEF Lines
<1> HIDE DEF line, tail
<1>6. /\ head \in Seq(V) /\ Len(head) = c
      /\ rest \in Seq(V) /\ Len(rest) \in {0, 1}
      /\ Len(rest) = 0 <=> tail = << >>
  <2> HIDE DEF c
  <2>1. head \in [1 .. c -> V]
    OBVIOUS
  <2>2. head \in Seq(V) /\ Len(head) = c
    <3> HIDE DEF head, V
    <3> QED BY <1>2, <2>1
  <2>3. tail \in V
    OBVIOUS
  <2> HIDE DEF V
  <2>4. rest \in Seq(V) /\ Len(rest) \in {0, 1} /\ (Len(rest) = 0 <=> tail = << >>)
    BY <2>3
  <2> QED
    BY <2>2, <2>4
<1> HIDE DEF head, rest, V, c
<1>7. Lines(text) \in Seq(V) /\ Len(Lines(text)) = c + Len(rest)
  BY <1>5, <1>6, Concat, SMTT(30)
<1> USE DEF c
<1>8. ASSUME NEW k \in 1 .. n
      PROVE  Lines(text)[k] = SansReturn(ls[k])
  <2>1. k \in 1 .. c
    BY <1>1, <1>2, <1>4
  <2>2. Lines(text)[k] = head[k]
    BY <1>5, <1>6, <2>1, Concat
  <2>3. head[k] = line(k)
    BY <2>1 DEF head
  <2>4. SubSeq(text, LineStart(text, k), LineEnd(text, k) - 1) = ls[k]
    BY LineIs
  <2> QED
    BY <2>2, <2>3, <2>4 DEF line
<1>9. c = n => tail = SubSeq(text, b[n] + 1, Len(text))
  <2>1. n + 1 \in 1 .. n + 1 /\ (n + 1) - 1 = n
    BY <1>1
  <2>2. LineStart(text, n + 1) = b[n] + 1
    <3>1. LineStart(text, n + 1) = b[(n + 1) - 1] + 1
      BY <2>1, LineEnds
    <3> QED
      BY <2>1, <3>1
  <2> HIDE DEF n, c
  <2> QED
    BY <2>2 DEF tail
<1>10. c = n => Len(tail) = Len(text) - b[n]
  <2> DEFINE i == b[n] + 1
             j == Len(text)
  <2>1. i \in 1 .. j + 1 /\ j \in i - 1 .. j /\ j - i + 1 = j - b[n]
    BY <1>1, <1>3
  <2>2. Len(SubSeq(text, i, j)) = j - i + 1
    <3> HIDE DEF i
    <3> QED BY <1>1, <2>1, Slice
  <2> QED
    BY <1>9, <2>1, <2>2
<1>11. c = n => (tail = << >> <=> Len(text) = b[n])
  <2>1. ASSUME c = n PROVE tail = << >> <=> Len(tail) = 0
    <3>1. PICK i, j : tail = SubSeq(text, i, j) /\ i = b[n] + 1 /\ j = Len(text)
      BY <1>9, <2>1
    <3>2. tail \in Seq(T)
      BY <1>1, <1>3, <3>1, Slice
    <3> QED
      BY <3>2
  <2> HIDE DEF c, n
  <2> QED
    BY <1>1, <1>3, <1>10, <2>1 DEF n
<1>12. c # n => Len(text) # b[n]
  <2>1. ASSUME Len(text) = b[n] PROVE c = n
    <3>1. N \cap 1 .. b[n] = N
      BY <1>2, <2>1
    <3> QED
      BY <1>3, <3>1
  <2> QED
    BY <2>1
<1>13. Len(Lines(text)) = n <=> Len(text) = b[n]
  <2> HIDE DEF c, n
  <2>1. CASE c = n
    BY <1>1, <1>2, <1>6, <1>7, <1>11, <2>1 DEF n
  <2>2. CASE c # n
    BY <1>1, <1>2, <1>4, <1>6, <1>7, <1>12, <2>2 DEF n
  <2> QED
    BY <2>1, <2>2
<1>14. Len(Lines(text)) \in Nat /\ n <= Len(Lines(text))
  <2> HIDE DEF c, n
  <2> QED BY <1>1, <1>2, <1>4, <1>6, <1>7 DEF n
<1> QED
  BY <1>7, <1>8, <1>13, <1>14

(* A line with its newline.                                                 *)
LEMMA LineEnded ==
    ASSUME NEW U, NEW l \in Seq(U), NL \in U
    PROVE  /\ l \o <<NL>> \in Seq(U) /\ Len(l \o <<NL>>) = Len(l) + 1 /\ Len(l) \in Nat
           /\ (l \o <<NL>>)[Len(l) + 1] = NL
           /\ \A j \in 1 .. Len(l) : (l \o <<NL>>)[j] = l[j]
<1> PICK w : w = <<NL>>
  OBVIOUS
<1>1. w \in Seq(U) /\ Len(w) = 1 /\ w[1] = NL /\ Len(l) \in Nat
  OBVIOUS
<1>2. /\ l \o w \in Seq(U) /\ Len(l \o w) = Len(l) + Len(w)
      /\ \A i \in 1 .. Len(l) : (l \o w)[i] = l[i]
      /\ \A i \in 1 .. Len(w) : (l \o w)[Len(l) + i] = w[i]
  BY <1>1, Concat
<1>3. 1 \in 1 .. Len(w)
  BY <1>1
<1>4. (l \o w)[Len(l) + 1] = NL
  BY <1>1, <1>2, <1>3
<1> QED
  BY <1>1, <1>2, <1>4

LEMMA UnlinesEnds ==
    ASSUME NEW T, NL \notin T, NEW ls \in Seq(Seq(T)), NEW U, T \subseteq U, NL \in U,
           NEW rest \in Seq(U)
    PROVE  /\ IsText(Unlines(ls) \o rest, U, ls)
           /\ \E b : LinesEndAt(Unlines(ls) \o rest, ls, b) /\ b[Len(ls)] = Len(Unlines(ls))
           /\ Unlines(ls) \in Seq(U)
<1> DEFINE n == Len(ls)
           e == [i \in DOMAIN ls |-> ls[i] \o <<NL>>]
           text == Unlines(ls) \o rest
<1>1. n \in Nat /\ DOMAIN ls = 1 .. n /\ \A k \in 1 .. n : ls[k] \in Seq(T) /\ ls[k] \in Seq(U)
  <2>1. \A k \in 1 .. n : ls[k] \in Seq(T)
    BY ElementOfSeq
  <2>2. Seq(T) \subseteq Seq(U)
    OBVIOUS
  <2> QED
    BY <2>1, <2>2
<1>2. ASSUME NEW k \in 1 .. n
      PROVE  /\ e[k] \in Seq(U) /\ Len(e[k]) = Len(ls[k]) + 1 /\ Len(ls[k]) \in Nat
             /\ e[k][Len(ls[k]) + 1] = NL
             /\ \A j \in 1 .. Len(ls[k]) : e[k][j] = ls[k][j] /\ e[k][j] # NL
  <2>1. e[k] = ls[k] \o <<NL>>
    BY <1>1
  <2>2. ls[k] \in Seq(U) /\ \A j \in 1 .. Len(ls[k]) : ls[k][j] \in T
    <3>1. ls[k] \in Seq(T) /\ ls[k] \in Seq(U)
      BY <1>1
    <3> QED
      BY <3>1, ElementOfSeq
  <2> HIDE DEF e
  <2> QED
    BY <2>1, <2>2, LineEnded
<1>3. e \in Seq(Seq(U)) /\ Len(e) = n
  <2>1. e \in [1 .. n -> Seq(U)]
    <3>1. e = [k \in 1 .. n |-> e[k]]
      BY <1>1
    <3> HIDE DEF e
    <3> QED
      BY <1>2, <3>1
  <2> HIDE DEF e, n
  <2> QED
    BY <1>1, <2>1
<1>4. Unlines(ls) = FlattenSeq(e)
  BY DEF Unlines
<1> HIDE DEF e
<1>5. PICK f : Joins(f, e, U)
  BY <1>3, JoinExists
<1>6. FlattenSeq(e) = f[n]
  <2> HIDE DEF n
  <2> QED BY <1>3, <1>5, FlattenJoins
<1>7. /\ Len(f[0]) = 0 /\ f[n] \in Seq(U)
      /\ \A k \in 0 .. n : Len(f[k]) \in 0 .. Len(f[n])
      /\ \A k \in 0 .. n : k + 1 <= n =>
           /\ Len(f[k + 1]) = Len(f[k]) + Len(e[k + 1])
           /\ Stands(e[k + 1], f[n], Len(f[k]))
  <2>1. Len(e) = n
    BY <1>3
  <2> HIDE DEF n
  <2>2. e \in Seq(Seq(U)) /\ Joins(f, e, U)
    BY <1>3, <1>5
  <2> QED
    BY <2>1, <2>2, Ends, ZenonT(60)
<1>8. /\ text \in Seq(U) /\ Len(text) = Len(f[n]) + Len(rest) /\ Len(rest) \in Nat
      /\ Len(f[n]) \in Nat /\ \A i \in 1 .. Len(f[n]) : text[i] = f[n][i]
  <2>1. text = f[n] \o rest
    BY <1>4, <1>6
  <2> HIDE DEF text, n
  <2>2. PICK x : x = f[n]
    OBVIOUS
  <2>3. x \in Seq(U)
    BY <1>7, <2>2
  <2>4. /\ x \o rest \in Seq(U) /\ Len(x \o rest) = Len(x) + Len(rest)
        /\ \A i \in 1 .. Len(x) : (x \o rest)[i] = x[i]
    BY <2>3, Concat
  <2> QED
    BY <2>1, <2>2, <2>3, <2>4
<1> HIDE DEF text, n
<1> DEFINE b == [k \in 0 .. n |-> Len(f[k])]
<1>9. b \in [0 .. n -> 0 .. Len(text)] /\ b[0] = 0 /\ b[n] = Len(f[n])
  <2>1. \A k \in 0 .. n : Len(f[k]) \in 0 .. Len(text)
    <3>1. \A i \in 0 .. Len(f[n]) : i \in 0 .. Len(text)
      BY <1>8
    <3> QED
      BY <1>7, <3>1
  <2> QED
    BY <1>1, <1>7, <2>1
<1>10. ASSUME NEW k \in 0 .. n, k + 1 <= n
       PROVE  /\ b[k + 1] = b[k] + Len(ls[k + 1]) + 1
              /\ text[b[k + 1]] = NL
              /\ \A j \in 1 .. Len(ls[k + 1]) : /\ text[b[k] + j] = ls[k + 1][j]
                                                /\ text[b[k] + j] # NL
  <2> DEFINE l == ls[k + 1]
             m == Len(l)
             x == Len(f[k])
             L == Len(f[n])
             w == e[k + 1]
  <2>1. k + 1 \in 1 .. n /\ k + 1 \in 0 .. n
    BY <1>1, <1>10
  <2>2. /\ Len(w) = m + 1 /\ m \in Nat /\ w[m + 1] = NL
        /\ \A j \in 1 .. m : w[j] = l[j] /\ w[j] # NL
    BY <1>2, <2>1
  <2>3. Len(f[k + 1]) = x + Len(w) /\ Stands(w, f[n], x) /\ x \in Nat
    <3> HIDE DEF w
    <3>1. x \in 0 .. Len(f[n])
      BY <1>7
    <3>2. Len(f[k + 1]) = x + Len(e[k + 1]) /\ Stands(e[k + 1], f[n], x)
      BY <1>7, <1>10, Zenon
    <3> QED
      BY <3>1, <3>2 DEF w
  <2>4. b[k] = x /\ b[k + 1] = x + m + 1
    <3>1. b[k] = Len(f[k]) /\ b[k + 1] = Len(f[k + 1])
      BY <2>1
    <3>2. PICK y, z : y = Len(f[k + 1]) /\ z = Len(w)
      OBVIOUS
    <3> HIDE DEF b, m, w, x
    <3>3. y = x + z /\ z = m + 1 /\ x \in Nat /\ m \in Nat
      BY <2>2, <2>3, <3>2
    <3>4. y = x + m + 1
      BY <3>3
    <3> QED
      BY <3>1, <3>2, <3>4 DEF x
  <2> HIDE DEF b, l, x, m, L, w
  <2>5. \A j \in 1 .. m + 1 : text[x + j] = w[j]
    <3> SUFFICES ASSUME NEW j \in 1 .. m + 1 PROVE text[x + j] = w[j]
      OBVIOUS
    <3>1. x + Len(w) <= L /\ \A i \in 1 .. Len(w) : f[n][x + i] = w[i]
      BY <2>3 DEF Stands, L
    <3>2. x + j \in 1 .. L /\ j \in 1 .. Len(w)
      BY <1>8, <2>2, <2>3, <3>1 DEF L
    <3> QED
      BY <1>8, <3>1, <3>2 DEF L
  <2>6. m + 1 \in 1 .. m + 1 /\ \A j \in 1 .. m : j \in 1 .. m + 1
    BY <2>2
  <2>7. text[x + (m + 1)] = NL /\ x + (m + 1) = x + m + 1
    BY <2>2, <2>3, <2>5, <2>6
  <2>8. \A j \in 1 .. m : text[x + j] = l[j] /\ text[x + j] # NL
    BY <2>2, <2>5, <2>6
  <2>9. text[x + m + 1] = NL
    BY <2>7
  <2>10. b[k + 1] = b[k] + m + 1 /\ text[b[k + 1]] = NL
    BY <2>4, <2>9
  <2>11. \A j \in 1 .. m : text[b[k] + j] = l[j] /\ text[b[k] + j] # NL
    BY <2>4, <2>8
  <2> QED
    BY <2>10, <2>11 DEF l, m
<1> HIDE DEF b
<1>11. LinesEndAt(text, ls, b)
  BY <1>9, <1>10 DEF LinesEndAt, n
<1>12. IsText(text, U, ls)
  BY <1>1, <1>2, <1>8 DEF IsText, n
<1>13. b[n] = Len(Unlines(ls))
  BY <1>4, <1>6, <1>9
<1> QED
  BY <1>4, <1>6, <1>7, <1>11, <1>12, <1>13 DEF text, n

(* Lines that are written are read, and what is behind them is more lines.  *)
LEMMA UnlinesRead ==
    ASSUME NEW T, NL \notin T, NEW ls \in Seq(Seq(T)), NEW R, NEW rest \in Seq(R)
    PROVE  /\ \E V : Lines(Unlines(ls) \o rest) \in Seq(V)
           /\ Len(Lines(Unlines(ls) \o rest)) \in Nat
           /\ Len(ls) <= Len(Lines(Unlines(ls) \o rest))
           /\ Len(Lines(Unlines(ls) \o rest)) = Len(ls) <=> rest = << >>
           /\ \A k \in 1 .. Len(ls) : Lines(Unlines(ls) \o rest)[k] = SansReturn(ls[k])
<1> DEFINE U == T \cup {NL} \cup R
           text == Unlines(ls) \o rest
<1>1. T \subseteq U /\ NL \in U /\ rest \in Seq(U)
  OBVIOUS
<1> HIDE DEF U
<1>2. Unlines(ls) \in Seq(U) /\ IsText(text, U, ls)
  BY <1>1, UnlinesEnds
<1>3. PICK b : LinesEndAt(text, ls, b) /\ b[Len(ls)] = Len(Unlines(ls))
  BY <1>1, UnlinesEnds, Zenon
<1>4. Len(text) = Len(Unlines(ls)) + Len(rest) /\ Len(Unlines(ls)) \in Nat /\ Len(rest) \in Nat
  BY <1>1, <1>2, Concat
<1>5. Len(text) = b[Len(ls)] <=> rest = << >>
  <2>1. Len(text) = b[Len(ls)] <=> Len(rest) = 0
    <3> DEFINE x == Len(text)
               y == Len(Unlines(ls))
               z == Len(rest)
    <3>1. x = y + z /\ y \in Nat /\ z \in Nat /\ b[Len(ls)] = y
      BY <1>3, <1>4
    <3> HIDE DEF x, y, z
    <3>2. x = b[Len(ls)] <=> z = 0
      BY <3>1
    <3> QED
      BY <3>2 DEF x, z
  <2> QED
    BY <2>1
<1> HIDE DEF text
<1>6. /\ \E V : Lines(text) \in Seq(V)
      /\ Len(Lines(text)) \in Nat /\ Len(ls) <= Len(Lines(text))
      /\ Len(Lines(text)) = Len(ls) <=> Len(text) = b[Len(ls)]
      /\ \A k \in 1 .. Len(ls) : Lines(text)[k] = SansReturn(ls[k])
  BY <1>2, <1>3, LinesAre
<1> QED
  BY <1>5, <1>6 DEF text

---------------------------------------------------------------------------
(* Messages.                                                                *)

UnescapeFrom(w, s, i) ==
    IF i >= Len(s) THEN SubSeq(s, i, Len(s))
    ELSE IF s[i] # BS THEN <<s[i]>> \o w[i + 1]
    ELSE Unescaped(s[i + 1]) \o w[i + 2]

Unescapes(w, s) == w = [i \in 1 .. Len(s) + 1 |-> UnescapeFrom(w, s, i)]

LEMMA UnescapeCases ==
    ASSUME NEW w, NEW s, NEW i
    PROVE  /\ i >= Len(s) => UnescapeFrom(w, s, i) = SubSeq(s, i, Len(s))
           /\ ~(i >= Len(s)) /\ s[i] # BS => UnescapeFrom(w, s, i) = <<s[i]>> \o w[i + 1]
           /\ ~(i >= Len(s)) /\ s[i] = BS =>
                UnescapeFrom(w, s, i) = Unescaped(s[i + 1]) \o w[i + 2]
BY Zenon DEF UnescapeFrom

(* The recursion ends: it only goes on behind where it is.                  *)
LEMMA UnescapeExists ==
    ASSUME NEW T, NEW s \in Seq(T)
    PROVE  \E w : Unescapes(w, s)
<1> DEFINE n == Len(s)
           I == 1 .. n + 1
           Good(w, k) == DOMAIN w = I /\ \A i \in I : i + k > n => w[i] = UnescapeFrom(w, s, i)
           S == {k \in Nat : \E w : w = [i \in I |-> w[i]] /\ Good(w, k)}
<1>1. n \in Nat
  OBVIOUS
<1>2. 0 \in S
  <2> DEFINE w == [i \in I |-> SubSeq(s, i, n)]
  <2>1. ASSUME NEW i \in I, i + 0 > n
        PROVE  w[i] = UnescapeFrom(w, s, i)
    <3>1. i >= n
      BY <1>1, <2>1
    <3>2. w[i] = SubSeq(s, i, n)
      OBVIOUS
    <3> HIDE DEF w
    <3> QED
      BY <3>1, <3>2, UnescapeCases, Zenon
  <2> QED
    BY <2>1
<1>3. ASSUME NEW k \in Nat, NEW w, w = [i \in I |-> w[i]], Good(w, k)
      PROVE  \E v : v = [i \in I |-> v[i]] /\ Good(v, k + 1)
  <2> DEFINE j == n - k
             v == [i \in I |-> IF i = j THEN UnescapeFrom(w, s, i) ELSE w[i]]
  <2>1. ASSUME NEW i \in I, i + (k + 1) > n
        PROVE  v[i] = UnescapeFrom(v, s, i)
    <3>1. i \in Nat /\ j \in Int /\ j <= i
      BY <1>1, <2>1
    <3>2. i < n => i + 1 \in I /\ i + 2 \in I /\ v[i + 1] = w[i + 1] /\ v[i + 2] = w[i + 2]
      BY <1>1, <3>1
    <3>3. UnescapeFrom(v, s, i) = UnescapeFrom(w, s, i)
      <4> HIDE DEF v, j, I
      <4> QED BY <1>1, <3>1, <3>2 DEF UnescapeFrom
    <3>4. v[i] = UnescapeFrom(w, s, i)
      <4>1. CASE i = j
        BY <4>1
      <4>2. CASE i # j
        <5>1. i + k > n /\ v[i] = w[i]
          BY <1>1, <3>1, <4>2
        <5> HIDE DEF v
        <5> QED
          BY <1>3, <5>1
      <4> QED
        BY <4>1, <4>2
    <3> QED
      BY <3>3, <3>4
  <2>2. v = [i \in I |-> v[i]] /\ DOMAIN v = I
    OBVIOUS
  <2> HIDE DEF v
  <2> QED
    BY <2>1, <2>2
<1>4. \A k \in Nat : k \in S => k + 1 \in S
  <2> SUFFICES ASSUME NEW k \in Nat, k \in S PROVE k + 1 \in S
    OBVIOUS
  <2> HIDE DEF Good
  <2> QED
    BY <1>3
<1>5. Nat \subseteq S
  <2> HIDE DEF S
  <2> QED BY <1>2, <1>4, NatInd
<1>6. n \in S
  BY <1>1, <1>5
<1>7. PICK w : w = [i \in I |-> w[i]] /\ Good(w, n)
  <2> HIDE DEF Good, n, I
  <2> QED BY <1>6
<1>8. \A i \in I : w[i] = UnescapeFrom(w, s, i)
  BY <1>1, <1>7
<1>9. w = [i \in I |-> UnescapeFrom(w, s, i)]
  BY <1>7, <1>8
<1> QED
  BY <1>9, Zenon DEF Unescapes

LEMMA UnescapeIs ==
    ASSUME NEW T, NEW s \in Seq(T)
    PROVE  \E w : Unescapes(w, s) /\ UnescapeLine(s) = w[1]
<1> DEFINE w == CHOOSE w : Unescapes(w, s)
<1>1. Unescapes(w, s)
  BY UnescapeExists, Zenon
<1>2. UnescapeLine(s) = w[1]
  BY DEF UnescapeLine, Unescapes, UnescapeFrom
<1> QED
  BY <1>1, <1>2

(* Token by token, or two by two. *)
Steps(w, s) ==
    /\ w[Len(s) + 1] = << >>
    /\ \A i \in 1 .. Len(s) : s[i] # BS => w[i] = <<s[i]>> \o w[i + 1]
    /\ \A i \in 1 .. Len(s) : i + 1 <= Len(s) /\ s[i] = BS =>
          w[i] = Unescaped(s[i + 1]) \o w[i + 2]

LEMMA UnescapeSteps ==
    ASSUME NEW T, NEW s \in Seq(T), NEW w, Unescapes(w, s)
    PROVE  Steps(w, s)
<1> DEFINE n == Len(s)
<1>1. n \in Nat /\ \A i \in 1 .. n + 1 : w[i] = UnescapeFrom(w, s, i)
  <2>1. w = [i \in 1 .. n + 1 |-> UnescapeFrom(w, s, i)]
    BY DEF Unescapes
  <2>2. \A i \in 1 .. n + 1 : w[i] = UnescapeFrom(w, s, i)
    BY <2>1, Zenon
  <2> QED
    BY <2>2
<1>2. w[n + 1] = << >>
  <2>1. n + 1 \in 1 .. n + 1 /\ n + 1 >= n
    <3> HIDE DEF n
    <3> QED BY <1>1
  <2>2. w[n + 1] = SubSeq(s, n + 1, n)
    BY <1>1, <2>1, UnescapeCases, Zenon
  <2> QED
    BY <1>1, <2>2, SubSeqEmpty
<1>3. ASSUME NEW i \in 1 .. n, s[i] # BS
      PROVE  w[i] = <<s[i]>> \o w[i + 1]
  <2>1. CASE i = n
    <3>0. i >= n /\ i \in 1 .. n + 1
      <4> HIDE DEF n
      <4> QED BY <1>1, <2>1
    <3>1. w[i] = SubSeq(s, i, n)
      BY <1>1, <3>0, UnescapeCases, Zenon
    <3>2. SubSeq(s, i, n) = <<s[i]>>
      <4>1. /\ SubSeq(s, i, n) \in Seq(T) /\ Len(SubSeq(s, i, n)) = n - i + 1
            /\ \A k \in 1 .. n - i + 1 : SubSeq(s, i, n)[k] = s[i + k - 1]
        <5>1. i \in Int /\ n \in Int /\ \A k \in i .. n : s[k] \in T
          BY <1>1
        <5> HIDE DEF n
        <5> QED BY <5>1, SubSeqProperties
      <4>2. n - i + 1 = 1 /\ i + 1 - 1 = i
        <5> HIDE DEF n
        <5> QED BY <1>1, <2>1
      <4>3. PICK t : t = SubSeq(s, i, n)
        OBVIOUS
      <4>4. t \in Seq(T) /\ Len(t) = 1 /\ t[1] = s[i]
        BY <4>1, <4>2, <4>3
      <4>5. t = <<t[1]>>
        BY <4>4
      <4> QED
        BY <4>3, <4>4, <4>5
    <3>3. <<s[i]>> \o << >> = <<s[i]>>
      OBVIOUS
    <3>4. w[i + 1] = << >>
      BY <1>2, <2>1
    <3> QED
      BY <3>1, <3>2, <3>3, <3>4
  <2>2. CASE i # n
    <3>1. ~(i >= n) /\ i \in 1 .. n + 1
      <4> HIDE DEF n
      <4> QED BY <1>1, <2>2
    <3> QED
      BY <1>1, <1>3, <3>1, UnescapeCases, Zenon
  <2> QED
    BY <2>1, <2>2
<1>4. ASSUME NEW i \in 1 .. n, i + 1 <= n, s[i] = BS
      PROVE  w[i] = Unescaped(s[i + 1]) \o w[i + 2]
  <2>1. ~(i >= n) /\ i \in 1 .. n + 1
    <3> HIDE DEF n
    <3> QED BY <1>1, <1>4
  <2> QED
    BY <1>1, <1>4, <2>1, UnescapeCases, ZenonT(60)
<1> QED
  BY <1>2, <1>3, <1>4 DEF Steps

LEMMA EscapedIs ==
    ASSUME NEW c
    PROVE  /\ c \notin {BS, NL} => Escaped(c) = <<c>>
           /\ c = BS => Escaped(c) = <<BS, BS>> /\ Unescaped(BS) = <<c>>
           /\ c = NL => Escaped(c) = <<BS, "n">> /\ Unescaped("n") = <<c>>
BY DEF Escaped, Unescaped, BS, NL

LEMMA FirstAndRest ==
    ASSUME NEW T, NEW s \in Seq(T), NEW q \in 0 .. Len(s), q + 1 <= Len(s)
    PROVE  SubSeq(s, q + 1, Len(s)) = <<s[q + 1]>> \o SubSeq(s, (q + 1) + 1, Len(s))
<1> DEFINE i == q + 1
           n == Len(s)
           t == SubSeq(s, i, i)
<1>1. i \in 1 .. n /\ n \in Nat
  OBVIOUS
<1> HIDE DEF i, n
<1>2. i \in 1 .. n + 1 /\ i \in i - 1 .. n /\ n \in i .. n
  BY <1>1
<1>3. t \o SubSeq(s, i + 1, n) = SubSeq(s, i, n)
  BY <1>2, SlicesMeet DEF n
<1>4. /\ t \in Seq(T) /\ Len(t) = i - i + 1
      /\ \A k \in 1 .. i - i + 1 : t[k] = s[i + k - 1]
  <2>1. i \in Int /\ \A k \in i .. i : s[k] \in T
    BY <1>1 DEF n
  <2> QED
    BY <2>1, SubSeqProperties
<1>5. i - i + 1 = 1 /\ i + 1 - 1 = i
  BY <1>1
<1> HIDE DEF t
<1>6. t \in Seq(T) /\ Len(t) = 1 /\ t[1] = s[i]
  BY <1>4, <1>5
<1>7. t = <<t[1]>>
  BY <1>6
<1>8. <<s[i]>> \o SubSeq(s, i + 1, n) = SubSeq(s, i, n)
  BY <1>3, <1>6, <1>7
<1> QED
  BY <1>8 DEF i, n

(* The pieces of an escaped message, joined.                                *)
Pieces(s) == [i \in DOMAIN s |-> Escaped(s[i])]

PieceTokens(T) == (T \ {NL}) \cup {BS, "n"}

LEMMA PiecesAre ==
    ASSUME NEW T, NEW s \in Seq(T)
    PROVE  /\ Pieces(s) \in Seq(Seq(PieceTokens(T))) /\ Len(Pieces(s)) = Len(s)
           /\ \E f : /\ Joins(f, Pieces(s), PieceTokens(T)) /\ EscapeLine(s) = f[Len(s)]
                     /\ EscapeLine(s) \in Seq(PieceTokens(T))
<1> DEFINE U == PieceTokens(T)
           p == Pieces(s)
           n == Len(s)
<1> USE DEF PieceTokens
<1>1. n \in Nat /\ DOMAIN s = 1 .. n
  OBVIOUS
<1>2. ASSUME NEW k \in 1 .. n PROVE p[k] \in Seq(U)
  <2>1. p[k] = Escaped(s[k]) /\ s[k] \in T
    BY <1>1 DEF Pieces
  <2>2. CASE s[k] = BS
    <3>1. p[k] = <<BS, BS>> /\ BS \in U
      BY <2>1, <2>2, EscapedIs
    <3> HIDE DEF U, p
    <3> QED BY <3>1
  <2>3. CASE s[k] = NL
    <3>1. p[k] = <<BS, "n">> /\ BS \in U /\ "n" \in U
      BY <2>1, <2>3, EscapedIs
    <3> HIDE DEF U, p
    <3> QED BY <3>1
  <2>4. CASE s[k] \notin {BS, NL}
    <3>1. p[k] = <<s[k]>> /\ s[k] \in U
      BY <2>1, <2>4, EscapedIs
    <3> HIDE DEF U, p
    <3> QED BY <3>1
  <2> QED
    BY <2>2, <2>3, <2>4
<1>3. p \in Seq(Seq(U)) /\ Len(p) = n
  <2>1. p = [k \in 1 .. n |-> p[k]]
    BY <1>1 DEF Pieces
  <2> HIDE DEF p, U, n
  <2>2. p \in [1 .. n -> Seq(U)]
    BY <1>2, <2>1
  <2> QED
    BY <1>1, <2>2
<1> HIDE DEF p, U, PieceTokens
<1>4. PICK f : Joins(f, p, U)
  BY <1>3, JoinExists
<1>5. EscapeLine(s) = f[n]
  <2>1. EscapeLine(s) = FlattenSeq(p)
    BY DEF EscapeLine, p, Pieces
  <2> QED
    BY <1>3, <1>4, <2>1, FlattenJoins
<1>6. f[n] \in Seq(U)
  BY <1>1, <1>3, <1>4 DEF Joins, JoinsTo
<1>7. \E g : Joins(g, p, U) /\ EscapeLine(s) = g[n] /\ EscapeLine(s) \in Seq(U)
  BY <1>4, <1>5, <1>6
<1> QED
  BY <1>3, <1>7 DEF p, U

(* A message is escaped and unescaped to what it was.                       *)
LEMMA UnescapesEscaped ==
    ASSUME NEW T, NEW s \in Seq(T)
    PROVE  UnescapeLine(EscapeLine(s)) = s
<1> DEFINE U == PieceTokens(T)
           p == Pieces(s)
           e == EscapeLine(s)
           n == Len(s)
<1>1. p \in Seq(Seq(U)) /\ Len(p) = n /\ n \in Nat
  BY PiecesAre
<1>2. PICK f : Joins(f, p, U) /\ e = f[n] /\ e \in Seq(U)
  BY PiecesAre
<1>3. PICK w : Unescapes(w, e) /\ UnescapeLine(e) = w[1]
  BY <1>2, UnescapeIs
<1>4. \A k \in 1 .. n : p[k] = Escaped(s[k])
  BY DEF Pieces
<1> HIDE DEF U, p, e
<1>5. /\ w[Len(e) + 1] = << >>
      /\ \A i \in 1 .. Len(e) : e[i] # BS => w[i] = <<e[i]>> \o w[i + 1]
      /\ \A i \in 1 .. Len(e) : i + 1 <= Len(e) /\ e[i] = BS =>
            w[i] = Unescaped(e[i + 1]) \o w[i + 2]
  <2>1. Steps(w, e)
    BY <1>2, <1>3, UnescapeSteps, Zenon
  <2> QED
    BY <2>1 DEF Steps
<1>6. /\ Len(f[0]) = 0
      /\ \A k \in 0 .. n : Len(f[k]) \in 0 .. Len(f[n])
      /\ \A k \in 0 .. n : k + 1 <= n =>
           /\ Len(f[k + 1]) = Len(f[k]) + Len(p[k + 1])
           /\ Stands(p[k + 1], f[n], Len(f[k]))
  <2> HIDE DEF n
  <2>1. Len(p) = n
    BY <1>1
  <2> QED
    BY <1>1, <1>2, <2>1, Ends, ZenonT(60)
<1>7. Len(e) \in Nat
  BY <1>2
<1> DEFINE Good(q) == w[Len(f[q]) + 1] = SubSeq(s, q + 1, n)
<1>8. Good(n)
  <2>1. w[Len(f[n]) + 1] = << >>
    BY <1>2, <1>5
  <2>2. SubSeq(s, n + 1, n) = << >>
    BY <1>1, SubSeqEmpty
  <2> QED
    BY <2>1, <2>2
<1>9. ASSUME NEW q \in 0 .. n, q + 1 <= n, Good(q + 1)
      PROVE  Good(q)
  <2> DEFINE c == s[q + 1]
             x == Len(f[q])
             t == SubSeq(s, (q + 1) + 1, n)
  <2>1. q + 1 \in 1 .. n /\ x \in Nat
    <3>1. x \in 0 .. Len(e)
      BY <1>2, <1>6
    <3> HIDE DEF x, n
    <3> QED BY <1>1, <1>7, <1>9, <3>1
  <2>2. p[q + 1] = Escaped(c)
    BY <1>4, <2>1
  <2>3. /\ Len(f[q + 1]) = x + Len(Escaped(c))
        /\ x + Len(Escaped(c)) <= Len(e)
        /\ \A k \in 1 .. Len(Escaped(c)) : e[x + k] = Escaped(c)[k]
    <3>1. Len(f[q + 1]) = x + Len(p[q + 1]) /\ Stands(p[q + 1], f[n], x)
      BY <1>6, <1>9
    <3>2. Stands(p[q + 1], e, x)
      BY <1>2, <3>1
    <3> HIDE DEF x, c
    <3> QED
      BY <2>2, <3>1, <3>2 DEF Stands
  <2>4. w[Len(f[q + 1]) + 1] = t
    BY <1>9
  <2>5. SubSeq(s, q + 1, n) = <<c>> \o t
    BY <1>9, FirstAndRest
  <2> HIDE DEF c, x, t, n
  <2>6. w[x + 1] = <<c>> \o t
    <3>1. CASE c \notin {BS, NL}
      <4>1. Escaped(c) = <<c>>
        BY <3>1, EscapedIs
      <4>2. Len(Escaped(c)) = 1 /\ Escaped(c)[1] = c
        BY <4>1
      <4>3. x + 1 <= Len(e) /\ Len(f[q + 1]) = x + 1 /\ e[x + 1] = c
        BY <2>3, <4>2
      <4>4. x + 1 \in 1 .. Len(e) /\ e[x + 1] # BS
        BY <1>7, <2>1, <3>1, <4>3
      <4>5. w[x + 1] = <<e[x + 1]>> \o w[(x + 1) + 1]
        BY <1>5, <4>4, Zenon
      <4> QED
        BY <2>4, <4>3, <4>5
    <3>2. ASSUME NEW d, Escaped(c) = <<BS, d>>, Unescaped(d) = <<c>>
          PROVE  w[x + 1] = <<c>> \o t
      <4>1. Len(Escaped(c)) = 2 /\ Escaped(c)[1] = BS /\ Escaped(c)[2] = d
        BY <3>2
      <4>2. x + 2 <= Len(e) /\ Len(f[q + 1]) = x + 2 /\ e[x + 1] = BS /\ e[x + 2] = d
        BY <2>3, <4>1
      <4>3. x + 1 \in 1 .. Len(e) /\ (x + 1) + 1 <= Len(e) /\ (x + 1) + 1 = x + 2
            /\ (x + 1) + 2 = (x + 2) + 1
        BY <1>7, <2>1, <4>2
      <4>4. w[x + 1] = Unescaped(e[(x + 1) + 1]) \o w[(x + 1) + 2]
        BY <1>5, <4>2, <4>3
      <4> QED
        BY <2>4, <3>2, <4>2, <4>3, <4>4
    <3>3. CASE c = BS
      BY <3>2, <3>3, EscapedIs
    <3>4. CASE c = NL
      BY <3>2, <3>4, EscapedIs
    <3> QED
      BY <3>1, <3>3, <3>4
  <2> QED
    BY <2>5, <2>6 DEF x, n
<1> DEFINE S == {k \in Nat : k <= n => Good(n - k)}
<1>10. 0 \in S
  <2>1. n - 0 = n
    BY <1>1
  <2> HIDE DEF Good
  <2> QED
    BY <1>8, <2>1
<1>11. ASSUME NEW k \in Nat, k \in S
       PROVE  k + 1 \in S
  <2>1. ASSUME k + 1 <= n PROVE Good(n - (k + 1))
    <3> DEFINE q == n - (k + 1)
    <3>1. q \in 0 .. n /\ q + 1 = n - k /\ q + 1 <= n /\ k <= n
      <4> HIDE DEF n
      <4> QED BY <1>1, <2>1
    <3> HIDE DEF q, Good, n
    <3>2. Good(q + 1)
      BY <1>11, <3>1
    <3>3. Good(q)
      BY <1>9, <3>1, <3>2
    <3> QED
      BY <3>3 DEF q
  <2> HIDE DEF Good
  <2> QED
    BY <2>1
<1>12. Nat \subseteq S
  <2> HIDE DEF S
  <2> QED BY <1>10, <1>11, NatInd
<1>13. Good(0)
  <2>1. n \in S /\ n - n = 0 /\ n <= n
    <3> HIDE DEF S, n
    <3> QED BY <1>1, <1>12
  <2> HIDE DEF Good
  <2>2. Good(n - n)
    BY <2>1
  <2> QED
    BY <2>1, <2>2
<1>14. w[1] = SubSeq(s, 1, n)
  BY <1>6, <1>13
<1>15. SubSeq(s, 1, n) = s
  OBVIOUS
<1> QED
  BY <1>3, <1>14, <1>15 DEF e

LEMMA FrontIs ==
    ASSUME NEW T, NEW s \in Seq(T), s # << >>
    PROVE  /\ Front(s) \in Seq(T) /\ Len(Front(s)) = Len(s) - 1 /\ Len(s) - 1 \in Nat
           /\ \A k \in 1 .. Len(s) - 1 : Front(s)[k] = s[k]
<1> DEFINE n == Len(s) - 1
           t == SubSeq(s, 1, n)
<1>1. n \in Nat /\ n \in 0 .. Len(s)
  OBVIOUS
<1>2. /\ t \in Seq(T) /\ Len(t) = n - 1 + 1
      /\ \A k \in 1 .. n - 1 + 1 : t[k] = s[1 + k - 1]
  <2>1. n \in Int /\ 1 \in Int /\ \A k \in 1 .. n : s[k] \in T
    BY <1>1
  <2> HIDE DEF n
  <2> QED
    BY <2>1, <1>1, SubSeqProperties
<1>3. n - 1 + 1 = n /\ \A k \in 1 .. n : 1 + k - 1 = k
  <2> HIDE DEF n
  <2> QED BY <1>1
<1>4. t = Front(s)
  BY DEF Front
<1> HIDE DEF t, n
<1>5. t \in Seq(T) /\ Len(t) = n /\ \A k \in 1 .. n : t[k] = s[k]
  BY <1>2, <1>3
<1> QED
  BY <1>1, <1>4, <1>5 DEF n

LEMMA SansReturnIs ==
    ASSUME NEW T, NEW s \in Seq(T)
    PROVE  /\ SansReturn(s) \in Seq(T)
           /\ CR \notin T => SansReturn(s) = s
<1>1. s # << >> => Front(s) \in Seq(T) /\ Last(s) \in T
  BY FrontIs DEF Last
<1> QED
  BY <1>1 DEF SansReturn

(* An escaped message ends in a carriage return when the message does.      *)
LEMMA SansReturnEscapes ==
    ASSUME NEW T, NEW s \in Seq(T)
    PROVE  SansReturn(EscapeLine(s)) = EscapeLine(SansReturn(s))
<1> DEFINE U == PieceTokens(T)
           p == Pieces(s)
           e == EscapeLine(s)
           n == Len(s)
           c == s[n]
<1>1. p \in Seq(Seq(U)) /\ Len(p) = n /\ n \in Nat
  BY PiecesAre
<1>2. PICK f : Joins(f, p, U) /\ e = f[n] /\ e \in Seq(U)
  BY PiecesAre
<1>3. \A k \in 1 .. n : p[k] = Escaped(s[k])
  BY DEF Pieces
<1> HIDE DEF U, p, e
<1>4. CASE n = 0
  <2>1. s = << >>
    BY <1>4
  <2>2. e = << >>
    BY <1>2, <1>4 DEF Joins, JoinsTo
  <2> QED
    BY <2>1, <2>2 DEF SansReturn, e
<1>5. CASE n # 0
  <2>1. n \in 1 .. n /\ n - 1 \in 0 .. n /\ (n - 1) + 1 = n /\ s # << >>
    BY <1>1, <1>5
  <2>2. p[n] = Escaped(c)
    BY <1>3, <2>1
  <2>3. IsConcat(f[n - 1], p[n], e)
    <3> HIDE DEF n
    <3>1. Len(p) = n
      BY <1>1
    <3>2. \A i \in 1 .. Len(p) : IsConcat(f[i - 1], p[i], f[i])
      BY <1>1, <1>2, Joined, Zenon
    <3> QED
      BY <1>2, <2>1, <3>1, <3>2
  <2> DEFINE x == f[n - 1]
             w == Escaped(c)
  <2>4. /\ Len(x) \in Nat /\ Len(w) \in Nat /\ Len(e) = Len(x) + Len(w)
        /\ \A k \in 1 .. Len(x) : e[k] = x[k]
        /\ \A k \in 1 .. Len(w) : e[Len(x) + k] = w[k]
    <3> HIDE DEF x, w
    <3> QED BY <2>2, <2>3 DEF IsConcat, x, w
  <2>5. x \in Seq(U)
    BY <1>1, <1>2, <2>1 DEF Joins, JoinsTo
  <2>6. CASE c = CR
    <3>1. w = <<CR>>
      BY <2>6 DEF Escaped, BS, NL, CR
    <3>2. Len(w) = 1 /\ w[1] = CR
      BY <3>1
    <3> HIDE DEF w, x, c, n
    <3>3. Len(e) = Len(x) + 1 /\ e[Len(e)] = CR /\ e # << >>
      BY <2>4, <3>2
    <3>4. SansReturn(e) = Front(e)
      BY <3>3 DEF SansReturn, Last
    <3>5. Front(e) = x
      <4>1. Front(e) \in Seq(U) /\ Len(Front(e)) = Len(e) - 1
            /\ \A k \in 1 .. Len(e) - 1 : Front(e)[k] = e[k]
        BY <1>2, <3>3, FrontIs
      <4>2. Len(e) - 1 = Len(x)
        BY <2>4, <3>3
      <4>3. PICK y : y = Front(e)
        OBVIOUS
      <4>4. y \in Seq(U) /\ Len(y) = Len(x) /\ \A k \in 1 .. Len(y) : y[k] = x[k]
        BY <2>4, <4>1, <4>2, <4>3
      <4> QED
        BY <2>5, <4>3, <4>4, SeqEqual
    <3>6. PICK t : t = Front(s)
      OBVIOUS
    <3>7. t \in Seq(T) /\ Len(t) = n - 1 /\ n - 1 \in Nat /\ \A k \in 1 .. n - 1 : t[k] = s[k]
      BY <2>1, <3>6, FrontIs DEF n
    <3>8. SansReturn(s) = t
      BY <2>1, <2>6, <3>6 DEF SansReturn, Last, c, n
    <3>9. Pieces(t) \in Seq(Seq(U)) /\ Len(Pieces(t)) = n - 1
      BY <3>7, PiecesAre DEF U
    <3>10. \A k \in 1 .. n - 1 : Pieces(t)[k] = p[k]
      <4>1. DOMAIN t = 1 .. n - 1 /\ \A k \in 1 .. n - 1 : k \in 1 .. n
        BY <1>1, <3>7
      <4>2. \A k \in 1 .. n - 1 : Pieces(t)[k] = Escaped(t[k])
        BY <4>1 DEF Pieces
      <4> QED
        BY <1>3, <3>7, <4>1, <4>2
    <3> DEFINE g == [k \in 0 .. n - 1 |-> f[k]]
    <3>11. JoinsTo(g, Pieces(t), n - 1, U)
      <4>1. f \in [0 .. n -> Seq(U)] /\ f[0] = << >> /\ \A i \in 1 .. n : f[i] = f[i - 1] \o p[i]
        BY <1>1, <1>2 DEF Joins, JoinsTo
      <4>2. g \in [0 .. n - 1 -> Seq(U)] /\ g[0] = << >>
        BY <1>1, <3>7, <4>1
      <4>3. ASSUME NEW i \in 1 .. n - 1 PROVE g[i] = g[i - 1] \o Pieces(t)[i]
        <5>1. i \in 1 .. n /\ g[i] = f[i] /\ g[i - 1] = f[i - 1] /\ Pieces(t)[i] = p[i]
          BY <1>1, <3>7, <3>10
        <5>2. f[i] = f[i - 1] \o p[i]
          BY <4>1, <5>1, Zenon
        <5> QED
          BY <5>1, <5>2, Zenon
      <4> HIDE DEF g
      <4> QED
        BY <4>2, <4>3, Zenon DEF JoinsTo
    <3>12. Joins(g, Pieces(t), U)
      BY <3>9, <3>11 DEF Joins
    <3>13. g[n - 1] = x
      BY <3>7 DEF x
    <3> HIDE DEF g
    <3>14. FlattenSeq(Pieces(t)) = g[Len(Pieces(t))]
      BY <3>9, <3>12, FlattenJoins, Zenon
    <3>15. EscapeLine(t) = FlattenSeq(Pieces(t))
      BY DEF EscapeLine, Pieces
    <3>16. EscapeLine(t) = x
      BY <3>9, <3>13, <3>14, <3>15
    <3> QED
      BY <3>4, <3>5, <3>8, <3>16 DEF e
  <2>7. CASE c # CR
    <3>1. Len(w) # 0 /\ w[Len(w)] # CR
      <4>1. CASE c = BS
        BY <4>1, EscapedIs DEF BS, CR
      <4>2. CASE c = NL
        <5>1. w = <<BS, "n">>
          BY <4>2, EscapedIs
        <5> HIDE DEF w
        <5> QED BY <5>1 DEF CR
      <4>3. CASE c \notin {BS, NL}
        <5>1. w = <<c>>
          BY <4>3, EscapedIs
        <5> HIDE DEF w, c
        <5> QED BY <2>7, <5>1
      <4> QED
        BY <4>1, <4>2, <4>3
    <3> HIDE DEF w, x, c, n
    <3>2. Len(w) \in 1 .. Len(w)
      BY <2>4, <3>1
    <3>3. e[Len(e)] # CR
      BY <2>4, <3>1, <3>2
    <3>4. SansReturn(e) = e
      BY <3>3 DEF SansReturn, Last
    <3>5. SansReturn(s) = s
      BY <2>7 DEF SansReturn, Last, c, n
    <3> QED
      BY <3>4, <3>5 DEF e
  <2> QED
    BY <2>6, <2>7
<1> QED
  BY <1>4, <1>5

---------------------------------------------------------------------------
(* Fields.                                                                  *)

IsField(l, key, v, T) ==
    /\ l \in Seq(T) /\ Len(l) = Len(v) + 2 /\ Len(v) \in Nat /\ l[1] = key /\ l[2] = SP
    /\ \A k \in 1 .. Len(v) : l[2 + k] = v[k]

LEMMA FieldIs ==
    ASSUME NEW T, NEW key \in T, SP \in T, NEW v \in Seq(T)
    PROVE  IsField(Field(key, v), key, v, T)
<1> PICK w : w = <<key, SP>>
  OBVIOUS
<1>1. w \in Seq(T) /\ Len(w) = 2 /\ w[1] = key /\ w[2] = SP /\ Len(v) \in Nat
  OBVIOUS
<1>2. /\ w \o v \in Seq(T) /\ Len(w \o v) = Len(w) + Len(v)
      /\ \A i \in 1 .. Len(w) : (w \o v)[i] = w[i]
      /\ \A i \in 1 .. Len(v) : (w \o v)[Len(w) + i] = v[i]
  BY <1>1, Concat
<1>3. Field(key, v) = w \o v
  BY DEF Field
<1>4. 1 \in 1 .. Len(w) /\ 2 \in 1 .. Len(w)
  BY <1>1
<1>5. /\ w \o v \in Seq(T) /\ Len(w \o v) = Len(v) + 2 /\ (w \o v)[1] = key /\ (w \o v)[2] = SP
      /\ \A k \in 1 .. Len(v) : (w \o v)[2 + k] = v[k]
  BY <1>1, <1>2, <1>4
<1> QED
  BY <1>1, <1>3, <1>5 DEF IsField

LEMMA OneToken ==
    ASSUME NEW T, NEW t \in Seq(T), Len(t) = 1
    PROVE  t = <<t[1]>>
OBVIOUS

(* split_once finds the key and the value.                                  *)
LEMMA FieldRead ==
    ASSUME NEW T, NEW key \in T, key # SP, SP \in T, NEW v \in Seq(T)
    PROVE  /\ Key(Field(key, v)) = <<key>> /\ ValueOf(Field(key, v)) = v
           /\ SP \in Range(Field(key, v)) /\ Field(key, v) # <<"--">>
<1> PICK l : l = Field(key, v)
  OBVIOUS
<1>1. /\ l \in Seq(T) /\ Len(l) = Len(v) + 2 /\ Len(v) \in Nat /\ l[1] = key /\ l[2] = SP
      /\ \A k \in 1 .. Len(v) : l[2 + k] = v[k]
  <2>1. IsField(l, key, v, T)
    BY FieldIs, Zenon
  <2> QED
    BY <2>1 DEF IsField
<1>2. DOMAIN l = 1 .. Len(l) /\ 2 \in DOMAIN l /\ Len(l) # 1 /\ Len(l) \in Nat
  BY <1>1
<1>3. KeyEnd(l) = 2
  <2> DEFINE S == {i \in DOMAIN l : l[i] = SP}
  <2>1. 2 \in S /\ \A i \in S : 2 <= i
    BY <1>1, <1>2
  <2>2. KeyEnd(l) = CHOOSE x \in S : \A y \in S : x <= y
    BY DEF KeyEnd, Min
  <2>3. S \subseteq Nat
    BY <1>2
  <2> HIDE DEF S
  <2>4. \A x \in S : (\A y \in S : x <= y) => x = 2
    BY <2>1, <2>3
  <2> QED
    BY <2>1, <2>2, <2>4
<1>4. Key(l) = <<key>>
  <2> PICK t : t = SubSeq(l, 1, 1)
    OBVIOUS
  <2>1. t \in Seq(T) /\ Len(t) = 1
    BY <1>1, <1>2, Slice
  <2>2. t[1] = key
    <3>1. \A i \in 1 .. 1 : t[i] = l[1 + i - 1]
      <4>1. \A k \in 1 .. 1 : l[k] \in T
        BY <1>1
      <4> QED BY <4>1, SubSeqProperties
    <3> QED
      BY <1>1, <3>1
  <2>3. t = <<t[1]>>
    BY <2>1, OneToken, Zenon
  <2>4. Key(l) = t
    BY <1>3 DEF Key
  <2> QED
    BY <2>2, <2>3, <2>4
<1>5. ValueOf(l) = v
  <2> PICK n : n = Len(l)
    OBVIOUS
  <2> PICK t : t = SubSeq(l, 3, n)
    OBVIOUS
  <2>1. n = Len(v) + 2 /\ n \in Nat
    BY <1>1, <1>2
  <2>2. 3 \in 1 .. n + 1 /\ n \in 3 - 1 .. n /\ n - 3 + 1 = Len(v)
    BY <1>1, <2>1
  <2>3. t \in Seq(T) /\ Len(t) = n - 3 + 1
    BY <1>1, <2>2, Slice
  <2>4. \A i \in 1 .. n - 3 + 1 : t[i] = l[3 + i - 1]
    <3>1. 3 \in Int /\ n \in Int /\ \A k \in 3 .. n : l[k] \in T
      BY <1>1, <1>2, <2>1
    <3> QED BY <3>1, SubSeqProperties
  <2>5. \A i \in 1 .. Len(v) : t[i] = v[i]
    <3> SUFFICES ASSUME NEW i \in 1 .. Len(v) PROVE t[i] = v[i]
      OBVIOUS
    <3>1. 3 + i - 1 = 2 + i
      OBVIOUS
    <3>2. t[i] = l[2 + i]
      BY <2>2, <2>4, <3>1
    <3> QED
      BY <1>1, <3>2
  <2>6. t = v
    BY <2>2, <2>3, <2>5, SeqEqual
  <2>7. ValueOf(l) = SubSeq(l, 2 + 1, n)
    BY <1>3 DEF ValueOf
  <2> QED
    BY <2>6, <2>7
<1>6. SP \in Range(l)
  BY <1>1, <1>2 DEF Range
<1>7. l # <<"--">>
  BY <1>2
<1> QED
  BY <1>4, <1>5, <1>6, <1>7

(* A carriage return at the end of a field is one at the end of its value.  *)
LEMMA FieldReturn ==
    ASSUME NEW T, NEW key \in T, SP \in T, NEW v \in Seq(T)
    PROVE  SansReturn(Field(key, v)) = Field(key, SansReturn(v))
<1> PICK l : l = Field(key, v)
  OBVIOUS
<1>1. /\ l \in Seq(T) /\ Len(l) = Len(v) + 2 /\ Len(v) \in Nat /\ l[1] = key /\ l[2] = SP
      /\ \A k \in 1 .. Len(v) : l[2 + k] = v[k]
  <2>1. IsField(l, key, v, T)
    BY FieldIs, Zenon
  <2> QED
    BY <2>1 DEF IsField
<1>2. SP # CR
  BY DEF SP, CR
<1>3. CASE v = << >>
  <2>1. Len(v) = 0
    BY <1>3
  <2>2. l[Len(l)] = SP
    BY <1>1, <2>1
  <2> QED
    BY <1>2, <1>3, <2>2 DEF SansReturn, Last
<1>4. CASE v # << >> /\ Last(v) # CR
  <2>1. Len(v) \in 1 .. Len(v)
    BY <1>1, <1>4
  <2>2. l[2 + Len(v)] = v[Len(v)] /\ 2 + Len(v) = Len(l)
    BY <1>1, <2>1
  <2> QED
    BY <1>4, <2>2 DEF SansReturn, Last
<1>5. CASE v # << >> /\ Last(v) = CR
  <2>1. Len(v) \in 1 .. Len(v)
    BY <1>1, <1>5
  <2>2. l[2 + Len(v)] = v[Len(v)] /\ 2 + Len(v) = Len(l) /\ l # << >>
    BY <1>1, <2>1
  <2>3. SansReturn(l) = Front(l) /\ SansReturn(v) = Front(v)
    BY <1>5, <2>2 DEF SansReturn, Last
  <2> PICK x, y : x = Front(l) /\ y = Front(v)
    OBVIOUS
  <2>4. /\ y \in Seq(T) /\ Len(y) = Len(v) - 1 /\ Len(v) - 1 \in Nat
        /\ \A k \in 1 .. Len(v) - 1 : y[k] = v[k]
    BY <1>5, FrontIs
  <2>5. /\ x \in Seq(T) /\ Len(x) = Len(l) - 1
        /\ \A k \in 1 .. Len(l) - 1 : x[k] = l[k]
    BY <1>1, <2>2, FrontIs
  <2> PICK z : z = Field(key, y)
    OBVIOUS
  <2>6. /\ z \in Seq(T) /\ Len(z) = Len(y) + 2 /\ z[1] = key /\ z[2] = SP
        /\ \A k \in 1 .. Len(y) : z[2 + k] = y[k]
    <3>1. IsField(z, key, y, T)
      BY <2>4, FieldIs, Zenon
    <3> QED
      BY <3>1 DEF IsField
  <2>7. Len(x) = Len(z) /\ Len(z) = Len(y) + 2 /\ Len(y) \in Nat /\ Len(l) - 1 = Len(z)
    BY <1>1, <2>4, <2>5, <2>6
  <2>8. \A k \in 1 .. Len(x) : x[k] = z[k]
    <3> SUFFICES ASSUME NEW k \in 1 .. Len(x) PROVE x[k] = z[k]
      OBVIOUS
    <3>1. x[k] = l[k]
      BY <2>5, <2>7
    <3>2. CASE k = 1 \/ k = 2
      BY <1>1, <2>6, <3>1, <3>2
    <3>3. CASE k # 1 /\ k # 2
      <4>1. PICK j : j = k - 2
        OBVIOUS
      <4>2. j \in 1 .. Len(y) /\ j \in 1 .. Len(v) /\ j \in 1 .. Len(v) - 1 /\ k = 2 + j
        BY <2>4, <2>7, <3>3, <4>1
      <4>3. z[2 + j] = y[j] /\ y[j] = v[j] /\ l[2 + j] = v[j]
        BY <1>1, <2>4, <2>6, <4>2
      <4> QED
        BY <3>1, <4>2, <4>3
    <3> QED
      BY <3>2, <3>3
  <2>9. x = z
    BY <2>5, <2>6, <2>7, <2>8, SeqEqual
  <2> QED
    BY <2>3, <2>9
<1> QED
  BY <1>3, <1>4, <1>5

(* Fields of different keys.                                                *)
AreFields(fields, keys, vals, T) ==
    /\ SP \in T /\ DOMAIN fields \subseteq Nat
    /\ \A i \in DOMAIN fields : /\ fields[i] = Field(keys[i], vals[i])
                                /\ keys[i] \in T /\ keys[i] # SP /\ vals[i] \in Seq(T)
    /\ \A i, j \in DOMAIN fields : keys[i] = keys[j] => i = j

LEMMA GetIs ==
    ASSUME NEW fields, NEW keys, NEW vals, NEW T, AreFields(fields, keys, vals, T),
           NEW k \in DOMAIN fields
    PROVE  Get(fields, keys[k]) = {vals[k]}
<1> DEFINE key == keys[k]
           I == {i \in DOMAIN fields : /\ Key(fields[i]) = <<key>>
                                       /\ \A j \in DOMAIN fields :
                                             j > i => Key(fields[j]) # <<key>>}
<1>1. \A i \in DOMAIN fields : Key(fields[i]) = <<keys[i]>> /\ ValueOf(fields[i]) = vals[i]
  <2> SUFFICES ASSUME NEW i \in DOMAIN fields
               PROVE  Key(fields[i]) = <<keys[i]>> /\ ValueOf(fields[i]) = vals[i]
    OBVIOUS
  <2>1. SP \in T /\ fields[i] = Field(keys[i], vals[i]) /\ keys[i] \in T /\ keys[i] # SP
        /\ vals[i] \in Seq(T)
    BY DEF AreFields
  <2> QED
    BY <2>1, FieldRead
<1>2. \A i \in DOMAIN fields : Key(fields[i]) = <<key>> <=> i = k
  <2>1. \A a, b : <<a>> = <<b>> <=> a = b
    OBVIOUS
  <2> QED
    BY <1>1, <2>1 DEF AreFields
<1>3. I = {k}
  <2>1. DOMAIN fields \subseteq Nat
    BY DEF AreFields
  <2>2. \A j \in DOMAIN fields : j > k => j # k
    BY <2>1
  <2> QED
    BY <1>2, <2>2
<1>4. Get(fields, key) = {ValueOf(fields[i]) : i \in I}
  BY DEF Get
<1> HIDE DEF I
<1> QED
  BY <1>1, <1>3, <1>4

LEMMA NumberIs ==
    ASSUME NEW fields, NEW key, NEW n \in Numbers, Get(fields, key) = {<<Decimal[n]>>}
    PROVE  Number(fields, key) = {n}
<1>1. Number(fields, key) = UNION {Parsed(v) : v \in {<<Decimal[n]>>}}
  BY DEF Number
<1>2. Number(fields, key) = Parsed(<<Decimal[n]>>)
  BY <1>1
<1>3. \A k \in Numbers : <<Decimal[n]>> = <<Decimal[k]>> <=> k = n
  BY WordsAssumption
<1> QED
  BY <1>2, <1>3 DEF Parsed

---------------------------------------------------------------------------
(* Manifests.                                                               *)

Keys == <<"id", "parent", "branch", "created", "message", "pagesize", "pages">>

(* What is written for them, with the message as it is given. *)
Values(m, msg) ==
    <<m.id, m.parent, m.branch, <<Decimal[m.created]>>, msg,
      <<Decimal[m.pagesize]>>, <<Decimal[Len(m.pages)]>> >>

HeadLines(m) ==
    << <<"litegraft snapshot 1">>,
       Field("id", m.id),
       Field("parent", m.parent),
       Field("branch", m.branch),
       Field("created", <<Decimal[m.created]>>),
       Field("message", EscapeLine(m.message)),
       Field("pagesize", <<Decimal[m.pagesize]>>),
       Field("pages", <<Decimal[Len(m.pages)]>>),
       <<"--">> >>

Decimals   == {Decimal[n] : n \in Numbers}
KeyTokens  == {"id", "parent", "branch", "created", "message", "pagesize", "pages"}
Tokens(m)  == Range(m.parent) \cup Range(m.branch) \cup PieceTokens(Range(m.message))
              \cup HexDigits \cup Decimals \cup KeyTokens
              \cup {SP, "--", "litegraft snapshot 1"}

LEMMA NoNewline ==
    ASSUME NEW m, IsManifest(m)
    PROVE  NL \notin Tokens(m)
<1>1. NL \notin Range(m.parent) /\ NL \notin Range(m.branch)
  BY DEF IsManifest, IsWord
<1>2. NL \notin PieceTokens(Range(m.message))
  BY DEF PieceTokens, NL, BS
<1>3. NL \notin HexDigits /\ NL \notin Decimals
  BY WordsAssumption DEF Decimals
<1>4. NL \notin KeyTokens /\ NL \notin {SP, "--", "litegraft snapshot 1"}
  BY DEF NL, SP, KeyTokens
<1> QED
  BY <1>1, <1>2, <1>3, <1>4 DEF Tokens

LEMMA IdIs ==
    ASSUME NEW m, IsManifest(m)
    PROVE  m.id = StateId(m.pagesize, m.pages) /\ m.id \in Seq(HexDigits \cup Decimals)
<1> DEFINE U == HexDigits \cup Decimals
<1>1. /\ m.id = StateId(m.pagesize, m.pages) /\ m.pagesize \in Numbers
      /\ m.pages \in Seq(Range(m.pages)) /\ \A p \in Range(m.pages) : p \in Seq(HexDigits)
  <2>1. m = [id |-> StateId(m.pagesize, m.pages), parent |-> m.parent, branch |-> m.branch,
             created |-> m.created, message |-> m.message, pagesize |-> m.pagesize,
             pages |-> m.pages]
    BY Zenon DEF IsManifest
  <2>2. m.id = StateId(m.pagesize, m.pages)
    BY <2>1
  <2> QED
    BY <2>2 DEF IsManifest
<1>2. m.pages \in Seq(Seq(U))
  <2>1. DOMAIN m.pages = 1 .. Len(m.pages) /\ Len(m.pages) \in Nat
        /\ \A i \in 1 .. Len(m.pages) : m.pages[i] \in Seq(HexDigits)
    BY <1>1
  <2>2. Seq(HexDigits) \subseteq Seq(U)
    OBVIOUS
  <2> HIDE DEF U
  <2> PICK pages : pages = m.pages
    OBVIOUS
  <2>3. /\ pages \in Seq(Range(m.pages)) /\ Len(pages) \in Nat
        /\ \A i \in 1 .. Len(pages) : pages[i] \in Seq(U)
    BY <1>1, <2>1, <2>2
  <2> PICK V : V = Seq(U)
    OBVIOUS
  <2>4. pages \in Seq(V)
    BY <2>3
  <2> QED
    BY <2>4
<1> HIDE DEF U
<1>3. FlattenSeq(m.pages) \in Seq(U)
  <2>1. PICK f : Joins(f, m.pages, U)
    BY <1>2, JoinExists
  <2>2. FlattenSeq(m.pages) = f[Len(m.pages)]
    BY <1>2, <2>1, FlattenJoins
  <2>3. Len(m.pages) \in Nat
    BY <1>2
  <2>4. f[Len(m.pages)] \in Seq(U)
    BY <2>1, <2>3 DEF Joins, JoinsTo
  <2> QED
    BY <2>2, <2>4
<1>4. <<Decimal[m.pagesize]>> \in Seq(U)
  <2>1. Decimal[m.pagesize] \in U
    BY <1>1 DEF U, Decimals
  <2> QED
    BY <2>1
<1>5. StateId(m.pagesize, m.pages) \in Seq(U)
  BY <1>3, <1>4, ConcatProperties DEF StateId
<1> QED
  BY <1>1, <1>5 DEF U

(* Every value is made of tokens, and none but the message ends in CR.      *)
LEMMA ValuesTyped ==
    ASSUME NEW m, IsManifest(m), NEW msg \in Seq(Tokens(m))
    PROVE  /\ Len(Values(m, msg)) = 7 /\ Values(m, msg)[5] = msg
           /\ \A i \in 1 .. 7 : /\ Values(m, msg)[i] \in Seq(Tokens(m))
                                /\ i # 5 => SansReturn(Values(m, msg)[i]) = Values(m, msg)[i]
<1> DEFINE T == Tokens(m)
           Fine(v) == v \in Seq(T) /\ SansReturn(v) = v
<1>1. ASSUME NEW U, U \subseteq T, CR \notin U, NEW v \in Seq(U)
      PROVE  Fine(v)
  <2>1. Seq(U) \subseteq Seq(T)
    BY <1>1
  <2>2. SansReturn(v) = v
    BY <1>1, SansReturnIs
  <2> QED
    BY <2>1, <2>2
<1>2. CR \notin HexDigits /\ CR \notin Decimals
  BY WordsAssumption DEF Decimals
<1>3. Fine(m.id)
  <2>1. HexDigits \cup Decimals \subseteq T /\ m.id \in Seq(HexDigits \cup Decimals)
    BY IdIs DEF Tokens
  <2> HIDE DEF Fine, T
  <2> QED
    BY <1>1, <1>2, <2>1
<1>4. Fine(m.parent) /\ Fine(m.branch)
  <2>1. /\ m.parent \in Seq(Range(m.parent)) /\ CR \notin Range(m.parent)
        /\ m.branch \in Seq(Range(m.branch)) /\ CR \notin Range(m.branch)
    BY DEF IsManifest, IsWord
  <2>2. Range(m.parent) \subseteq T /\ Range(m.branch) \subseteq T
    BY DEF Tokens
  <2> HIDE DEF Fine, T
  <2> QED
    BY <1>1, <2>1, <2>2
<1>5. ASSUME NEW n \in Numbers
      PROVE  Fine(<<Decimal[n]>>)
  <2>1. Decimal[n] \in Decimals /\ Decimals \subseteq T
    BY DEF Decimals, Tokens
  <2>2. <<Decimal[n]>> \in Seq(Decimals)
    BY <2>1
  <2> HIDE DEF Fine, T
  <2> QED
    BY <1>1, <1>2, <2>1, <2>2
<1>6. Fine(<<Decimal[m.created]>>) /\ Fine(<<Decimal[m.pagesize]>>) /\ Fine(<<Decimal[Len(m.pages)]>>)
  <2>1. m.created \in Numbers /\ m.pagesize \in Numbers /\ Len(m.pages) \in Numbers
    BY DEF IsManifest
  <2> HIDE DEF Fine
  <2> QED
    BY <1>5, <2>1
<1> HIDE DEF Fine
<1>7. \A i \in 1 .. 7 : i # 5 => Fine(Values(m, msg)[i])
  BY <1>3, <1>4, <1>6 DEF Values
<1>8. Len(Values(m, msg)) = 7 /\ Values(m, msg)[5] = msg
  BY DEF Values
<1> QED
  BY <1>7, <1>8 DEF Fine

LEMMA HeadIs ==
    ASSUME NEW m
    PROVE  /\ Len(HeadLines(m)) = 9 /\ DOMAIN HeadLines(m) = 1 .. 9
           /\ HeadLines(m)[1] = <<"litegraft snapshot 1">> /\ HeadLines(m)[9] = <<"--">>
           /\ \A i \in 1 .. 7 :
                 HeadLines(m)[i + 1] = Field(Keys[i], Values(m, EscapeLine(m.message))[i])
<1>1. /\ Len(HeadLines(m)) = 9 /\ DOMAIN HeadLines(m) = 1 .. 9
      /\ HeadLines(m)[1] = <<"litegraft snapshot 1">> /\ HeadLines(m)[9] = <<"--">>
  <2>1. \A a, b, c, d, e, f, g, h, k : LET s == <<a, b, c, d, e, f, g, h, k>>
                                      IN  Len(s) = 9 /\ DOMAIN s = 1 .. 9 /\ s[1] = a /\ s[9] = k
    OBVIOUS
  <2> QED
    BY <2>1 DEF HeadLines
<1>2. \A i \in 1 .. 7 : HeadLines(m)[i + 1] = Field(Keys[i], Values(m, EscapeLine(m.message))[i])
  <2> PICK e : e = EscapeLine(m.message)
    OBVIOUS
  <2> DEFINE At(i) == HeadLines(m)[i + 1] = Field(Keys[i], Values(m, e)[i])
  <2>1. At(1) /\ At(2) /\ At(3)
    BY DEF HeadLines, Keys, Values
  <2>2. At(4) /\ At(5)
    BY DEF HeadLines, Keys, Values
  <2>3. At(6) /\ At(7)
    BY DEF HeadLines, Keys, Values
  <2> HIDE DEF At
  <2>4. \A i \in 1 .. 7 : At(i)
    BY <2>1, <2>2, <2>3
  <2> QED
    BY <2>4 DEF At
<1> QED
  BY <1>1, <1>2

LEMMA KeysAre ==
    /\ \A i \in 1 .. 7 : Keys[i] \in KeyTokens /\ Keys[i] # SP
    /\ \A i, j \in 1 .. 7 : Keys[i] = Keys[j] => i = j
<1>1. \A i \in 1 .. 7 : Keys[i] \in KeyTokens
  BY DEF Keys, KeyTokens
<1>2. SP \notin KeyTokens
  BY DEF SP, KeyTokens
<1>3. \A i, j \in 1 .. 7 : Keys[i] = Keys[j] => i = j
  BY DEF Keys
<1> QED
  BY <1>1, <1>2, <1>3

LEMMA KeyIs ==
    ASSUME NEW m, NEW i \in 1 .. 7
    PROVE  Keys[i] \in Tokens(m) /\ Keys[i] # SP /\ SP \in Tokens(m)
<1>1. Keys[i] \in KeyTokens /\ Keys[i] # SP
  BY KeysAre
<1>2. KeyTokens \subseteq Tokens(m) /\ SP \in Tokens(m)
  BY DEF Tokens
<1> QED
  BY <1>1, <1>2

LEMMA PagesTyped ==
    ASSUME NEW m, IsManifest(m)
    PROVE  /\ Len(m.pages) \in Nat /\ DOMAIN m.pages = 1 .. Len(m.pages)
           /\ m.pages \in Seq(Seq(Tokens(m)))
           /\ \A k \in 1 .. Len(m.pages) :
                 m.pages[k] \in Seq(HexDigits) /\ Len(m.pages[k]) = HashLen
<1> PICK pages : pages = m.pages
  OBVIOUS
<1>1. /\ pages \in Seq(Range(pages)) /\ Len(pages) \in Nat /\ DOMAIN pages = 1 .. Len(pages)
      /\ \A k \in 1 .. Len(pages) : pages[k] \in Seq(HexDigits) /\ Len(pages[k]) = HashLen
  BY DEF IsManifest, Range
<1> PICK V : V = Seq(Tokens(m))
  OBVIOUS
<1>2. Seq(HexDigits) \subseteq V
  <2>1. HexDigits \subseteq Tokens(m)
    BY DEF Tokens
  <2> PICK T : T = Tokens(m)
    OBVIOUS
  <2>2. Seq(HexDigits) \subseteq Seq(T)
    BY <2>1
  <2> QED
    BY <2>2
<1>3. pages \in Seq(V)
  BY <1>1, <1>2
<1> QED
  BY <1>1, <1>3

LEMMA MessageTyped ==
    ASSUME NEW m, IsManifest(m)
    PROVE  /\ m.message \in Seq(Range(m.message))
           /\ EscapeLine(m.message) \in Seq(Tokens(m))
           /\ SansReturn(EscapeLine(m.message)) \in Seq(Tokens(m))
<1>1. m.message \in Seq(Range(m.message))
  BY DEF IsManifest
<1> PICK U, T, e : /\ U = PieceTokens(Range(m.message)) /\ T = Tokens(m)
                   /\ e = EscapeLine(m.message)
  OBVIOUS
<1>2. e \in Seq(U)
  BY <1>1, PiecesAre
<1>3. U \subseteq T
  BY DEF Tokens
<1>4. e \in Seq(T)
  BY <1>2, <1>3
<1>5. SansReturn(e) \in Seq(T)
  BY <1>4, SansReturnIs
<1> QED
  BY <1>1, <1>4, <1>5

LEMMA NineLines ==
    ASSUME NEW V, NEW a, NEW b, NEW c, NEW d, NEW e, NEW f, NEW g, NEW x, NEW y, NEW h,
           h = <<a, b, c, d, e, f, g, x, y>>, \A i \in 1 .. 9 : h[i] \in V
    PROVE  h \in Seq(V)
<1>1. h[1] = a /\ h[2] = b /\ h[3] = c /\ h[4] = d /\ h[5] = e /\ h[6] = f /\ h[7] = g
      /\ h[8] = x /\ h[9] = y
  OBVIOUS
<1>2. {a, b, c, d, e, f, g, x, y} \subseteq V
  BY <1>1
<1> QED
  BY <1>2

LEMMA LinesTyped ==
    ASSUME NEW m, IsManifest(m)
    PROVE  /\ ManifestLines(m) \in Seq(Seq(Tokens(m)))
           /\ Len(ManifestLines(m)) = 9 + Len(m.pages)
           /\ \A i \in 1 .. 9 : ManifestLines(m)[i] = HeadLines(m)[i]
           /\ \A k \in 1 .. Len(m.pages) : ManifestLines(m)[9 + k] = m.pages[k]
<1> PICK T, V, h, pages : /\ T = Tokens(m) /\ V = Seq(T) /\ h = HeadLines(m)
                          /\ pages = m.pages
  OBVIOUS
<1>1. pages \in Seq(V)
  BY PagesTyped
<1>2. ManifestLines(m) = h \o pages
  BY DEF ManifestLines, HeadLines
<1>3. Len(h) = 9 /\ DOMAIN h = 1 .. 9 /\ \A i \in 1 .. 9 : h[i] \in V
  <2>1. Len(h) = 9 /\ DOMAIN h = 1 .. 9
    BY HeadIs
  <2>2. h[1] \in V /\ h[9] \in V
    <3>1. {"litegraft snapshot 1", "--"} \subseteq T
      BY DEF Tokens
    <3>2. \A t \in T : <<t>> \in Seq(T)
      OBVIOUS
    <3> QED
      BY <3>1, <3>2, HeadIs
  <2>3. ASSUME NEW i \in 1 .. 7
        PROVE  h[i + 1] \in V
    <3> PICK key, v : key = Keys[i] /\ v = Values(m, EscapeLine(m.message))[i]
      OBVIOUS
    <3>1. key \in T /\ SP \in T
      BY KeyIs
    <3>2. v \in Seq(T)
      BY MessageTyped, ValuesTyped
    <3>3. IsField(Field(key, v), key, v, T)
      BY <3>1, <3>2, FieldIs, Zenon
    <3>4. h[i + 1] = Field(key, v)
      BY HeadIs
    <3> QED
      BY <3>3, <3>4 DEF IsField
  <2>4. \A i \in 1 .. 9 : i = 1 \/ i = 9 \/ \E k \in 1 .. 7 : i = k + 1
    <3> SUFFICES ASSUME NEW i \in 1 .. 9, i # 1, i # 9 PROVE i - 1 \in 1 .. 7 /\ i = (i - 1) + 1
      OBVIOUS
    <3> QED
      OBVIOUS
  <2> QED
    BY <2>1, <2>2, <2>3, <2>4
<1>4. h \in Seq(V)
  <2>1. \E a, b, c, d, e, f, g, x, y : h = <<a, b, c, d, e, f, g, x, y>>
    BY Zenon DEF HeadLines
  <2> QED
    BY <1>3, <2>1, NineLines, Zenon
<1>5. /\ h \o pages \in Seq(V) /\ Len(h \o pages) = Len(h) + Len(pages)
      /\ \A i \in 1 .. Len(h) : (h \o pages)[i] = h[i]
      /\ \A i \in 1 .. Len(pages) : (h \o pages)[Len(h) + i] = pages[i]
  BY <1>1, <1>4, Concat
<1> QED
  BY <1>2, <1>3, <1>5

(* What is read of a manifest's text, with something behind it or nothing.  *)
Received(m) == SansReturn(EscapeLine(m.message))

IsRead(lines, m) ==
    /\ \E V : lines \in Seq(V)
    /\ Len(lines) \in Nat /\ 9 + Len(m.pages) <= Len(lines)
    /\ lines[1] = <<"litegraft snapshot 1">> /\ lines[9] = <<"--">>
    /\ \A i \in 1 .. 7 : lines[i + 1] = Field(Keys[i], Values(m, Received(m))[i])
    /\ \A k \in 1 .. Len(m.pages) : lines[9 + k] = m.pages[k]

LEMMA ValueIs ==
    ASSUME NEW m, IsManifest(m), NEW e, NEW i \in 1 .. 7, e \in Seq(Tokens(m))
    PROVE  Values(m, e)[i] \in Seq(Tokens(m)) /\ (i # 5 => SansReturn(Values(m, e)[i]) = Values(m, e)[i])
BY ValuesTyped

LEMMA ManifestRead ==
    ASSUME NEW m, IsManifest(m), NEW R, NEW rest \in Seq(R)
    PROVE  /\ IsRead(Lines(ManifestText(m) \o rest), m)
           /\ Len(Lines(ManifestText(m) \o rest)) = 9 + Len(m.pages) <=> rest = << >>
<1> PICK T, ls, L, pages : /\ T = Tokens(m) /\ ls = ManifestLines(m) /\ pages = m.pages
                           /\ L = Lines(ManifestText(m) \o rest)
  OBVIOUS
<1>1. /\ ls \in Seq(Seq(T)) /\ Len(ls) = 9 + Len(pages)
      /\ \A i \in 1 .. 9 : ls[i] = HeadLines(m)[i]
      /\ \A k \in 1 .. Len(pages) : ls[9 + k] = pages[k]
  BY LinesTyped
<1>2. Len(pages) \in Nat /\ \A k \in 1 .. Len(pages) : pages[k] \in Seq(HexDigits)
  BY PagesTyped
<1>3. /\ \E V : L \in Seq(V)
      /\ Len(L) \in Nat /\ Len(ls) <= Len(L)
      /\ Len(L) = Len(ls) <=> rest = << >>
      /\ \A k \in 1 .. Len(ls) : L[k] = SansReturn(ls[k])
  <2>1. L = Lines(Unlines(ls) \o rest)
    BY DEF ManifestText
  <2>2. NL \notin T
    BY NoNewline
  <2>3. /\ \E V : Lines(Unlines(ls) \o rest) \in Seq(V)
        /\ Len(Lines(Unlines(ls) \o rest)) \in Nat
        /\ Len(ls) <= Len(Lines(Unlines(ls) \o rest))
        /\ Len(Lines(Unlines(ls) \o rest)) = Len(ls) <=> rest = << >>
        /\ \A k \in 1 .. Len(ls) : Lines(Unlines(ls) \o rest)[k] = SansReturn(ls[k])
    BY <1>1, <2>2, UnlinesRead, ZenonT(60)
  <2> QED
    BY <2>1, <2>3, Zenon
<1>4. /\ \A k \in 1 .. 9 : L[k] = SansReturn(HeadLines(m)[k])
      /\ \A k \in 1 .. Len(pages) : L[9 + k] = SansReturn(pages[k])
  <2> PICK n, q : n = Len(pages) /\ q = Len(ls)
    OBVIOUS
  <2>1. n \in Nat /\ q = 9 + n
    BY <1>1, <1>2
  <2>2. \A k \in 1 .. 9 : k \in 1 .. q
    BY <2>1
  <2>3. \A k \in 1 .. n : 9 + k \in 1 .. q
    BY <2>1
  <2> QED
    BY <1>1, <1>3, <2>2, <2>3
<1>5. L[1] = <<"litegraft snapshot 1">> /\ L[9] = <<"--">>
  <2>1. ASSUME NEW t, t # CR
        PROVE  SansReturn(<<t>>) = <<t>>
    <3>1. <<t>> \in Seq({t}) /\ CR \notin {t}
      BY <2>1
    <3> QED
      BY <3>1, SansReturnIs
  <2>2. "--" # CR /\ "litegraft snapshot 1" # CR
    BY DEF CR
  <2>3. L[1] = SansReturn(<<"litegraft snapshot 1">>) /\ L[9] = SansReturn(<<"--">>)
    <3>1. 1 \in 1 .. 9 /\ 9 \in 1 .. 9
      OBVIOUS
    <3>2. HeadLines(m)[1] = <<"litegraft snapshot 1">> /\ HeadLines(m)[9] = <<"--">>
      BY HeadIs
    <3>3. \A k \in 1 .. 9 : L[k] = SansReturn(HeadLines(m)[k])
      BY <1>4
    <3>4. L[1] = SansReturn(HeadLines(m)[1]) /\ L[9] = SansReturn(HeadLines(m)[9])
      BY <3>1, <3>3, Zenon
    <3> QED
      BY <3>2, <3>4, Zenon
  <2> QED
    BY <2>1, <2>2, <2>3
<1>6. ASSUME NEW i \in 1 .. 7
      PROVE  L[i + 1] = Field(Keys[i], Values(m, Received(m))[i])
  <2> PICK key, e, r : key = Keys[i] /\ e = EscapeLine(m.message) /\ r = Received(m)
    OBVIOUS
  <2> PICK v, w : v = Values(m, e)[i] /\ w = Values(m, r)[i]
    OBVIOUS
  <2>1. e \in Seq(T) /\ r \in Seq(T) /\ r = SansReturn(e)
    BY MessageTyped DEF Received
  <2>2. key \in T /\ SP \in T
    BY KeyIs
  <2>3. v \in Seq(T) /\ (i # 5 => SansReturn(v) = v)
    BY <2>1, ValueIs
  <2>4. L[i + 1] = SansReturn(Field(key, v))
    <3>1. i + 1 \in 1 .. 9
      OBVIOUS
    <3>2. HeadLines(m)[i + 1] = Field(key, v)
      BY HeadIs
    <3> QED
      BY <1>4, <3>1, <3>2
  <2>5. SansReturn(Field(key, v)) = Field(key, SansReturn(v))
    BY <2>2, <2>3, FieldReturn
  <2>6. SansReturn(v) = w
    <3>1. CASE i = 5
      BY <2>1, <3>1, ValuesTyped
    <3>2. CASE i # 5
      <4>1. SansReturn(v) = v
        BY <2>3, <3>2
      <4>2. v = w
        BY <3>2 DEF Values
      <4> QED
        BY <4>1, <4>2
    <3> QED
      BY <3>1, <3>2
  <2> QED
    BY <2>4, <2>5, <2>6
<1>7. \A k \in 1 .. Len(pages) : L[9 + k] = pages[k]
  <2>1. CR \notin HexDigits
    BY WordsAssumption
  <2> QED
    BY <1>2, <1>4, <2>1, SansReturnIs
<1>8. 9 + Len(pages) <= Len(L)
  BY <1>1, <1>3
<1>9. IsRead(L, m)
  BY <1>3, <1>5, <1>6, <1>7, <1>8 DEF IsRead
<1>10. Len(L) = 9 + Len(pages) <=> rest = << >>
  BY <1>1, <1>3
<1> QED
  BY <1>9, <1>10

(* The fields end at the line that write_manifest ends them with.           *)
LEMMA FieldIsNoDash ==
    ASSUME NEW m, IsManifest(m), NEW i \in 1 .. 7
    PROVE  /\ Field(Keys[i], Values(m, Received(m))[i]) # <<"--">>
           /\ SP \in Range(Field(Keys[i], Values(m, Received(m))[i]))
           /\ Values(m, Received(m))[i] \in Seq(Tokens(m))
<1> PICK T, key, r : T = Tokens(m) /\ key = Keys[i] /\ r = Received(m)
  OBVIOUS
<1>1. r \in Seq(Tokens(m))
  BY MessageTyped DEF Received
<1> PICK v : v = Values(m, r)[i]
  OBVIOUS
<1>2. v \in Seq(T)
  BY <1>1, ValueIs
<1>3. key \in T /\ SP \in T /\ key # SP
  BY KeyIs
<1>4. Field(key, v) # <<"--">> /\ SP \in Range(Field(key, v))
  BY <1>2, <1>3, FieldRead
<1> QED
  BY <1>2, <1>4

LEMMA FieldsEnd ==
    ASSUME NEW m, IsManifest(m), NEW L, IsRead(L, m)
    PROVE  Min(Dashes(L) \cup {Len(L) + 1}) = 9
<1>1. /\ Len(L) \in Nat /\ 9 <= Len(L) /\ L[9] = <<"--">>
      /\ \A i \in 1 .. 7 : L[i + 1] # <<"--">>
  <2>1. Len(L) \in Nat /\ L[9] = <<"--">> /\ 9 + Len(m.pages) <= Len(L)
    BY DEF IsRead
  <2>2. Len(m.pages) \in Nat
    BY PagesTyped
  <2>3. \A i \in 1 .. 7 : L[i + 1] # <<"--">>
    BY FieldIsNoDash DEF IsRead
  <2> QED
    BY <2>1, <2>2, <2>3, SMTT(30)
<1> DEFINE n == Len(L)
           S == Dashes(L) \cup {n + 1}
<1>2. n \in Nat /\ 9 <= n
  BY <1>1
<1>3. \A i \in Dashes(L) : i \in 2 .. n /\ L[i] = <<"--">>
  BY DEF Dashes
<1>4. 9 \in Dashes(L)
  BY <1>1 DEF Dashes
<1> HIDE DEF n
<1>5. \A i \in Dashes(L) : 9 <= i
  <2> SUFFICES ASSUME NEW i \in Dashes(L), ~(9 <= i) PROVE FALSE
    OBVIOUS
  <2>1. PICK j : j = i - 1
    OBVIOUS
  <2>2. j \in 1 .. 7 /\ i = j + 1
    BY <1>2, <1>3, <2>1
  <2> QED
    BY <1>1, <1>3, <2>2
<1>6. 9 \in S /\ (\A i \in S : 9 <= i) /\ S \subseteq Nat
  BY <1>2, <1>3, <1>4, <1>5
<1> HIDE DEF S
<1>7. \A x \in S : (\A y \in S : x <= y) => x = 9
  BY <1>6
<1>8. Min(S) = CHOOSE x \in S : \A y \in S : x <= y
  BY DEF Min
<1>9. Min(S) = 9
  BY <1>6, <1>7, <1>8
<1> QED
  BY <1>9 DEF S, n

(* The fields and the pages that are cut from the lines.                    *)
LEMMA FieldsCut ==
    ASSUME NEW m, IsManifest(m), NEW L, IsRead(L, m)
    PROVE  /\ DOMAIN SubSeq(L, 2, 8) = 1 .. 7
           /\ AreFields(SubSeq(L, 2, 8), Keys, Values(m, Received(m)), Tokens(m))
<1> PICK fields : fields = SubSeq(L, 2, 8)
  OBVIOUS
<1>1. PICK V : L \in Seq(V)
  BY DEF IsRead
<1>2. Len(L) \in Nat /\ 9 <= Len(L)
  <2>1. Len(L) \in Nat /\ 9 + Len(m.pages) <= Len(L)
    BY DEF IsRead
  <2>2. Len(m.pages) \in Nat
    BY PagesTyped
  <2> QED
    BY <2>1, <2>2
<1>3. DOMAIN fields = 1 .. 7 /\ \A i \in 1 .. 7 : fields[i] = L[i + 1]
  <2>1. \A i \in 2 .. 8 : L[i] \in V
    <3> PICK n : n = Len(L)
      OBVIOUS
    <3>1. \A i \in 2 .. 8 : i \in 1 .. n
      BY <1>2
    <3> QED
      BY <1>1, <3>1
  <2>2. /\ SubSeq(L, 2, 8) \in Seq(V)
        /\ Len(SubSeq(L, 2, 8)) = (IF 2 <= 8 THEN 8 - 2 + 1 ELSE 0)
        /\ \A i \in 1 .. 8 - 2 + 1 : SubSeq(L, 2, 8)[i] = L[2 + i - 1]
    BY <2>1, SubSeqProperties
  <2>3. fields \in Seq(V) /\ Len(fields) = 7 /\ \A i \in 1 .. 7 : fields[i] = L[2 + i - 1]
    BY <2>2
  <2>4. \A i \in 1 .. 7 : 2 + i - 1 = i + 1
    OBVIOUS
  <2> QED
    BY <2>3, <2>4
<1>4. ASSUME NEW i \in 1 .. 7
      PROVE  /\ fields[i] = Field(Keys[i], Values(m, Received(m))[i])
             /\ Keys[i] \in Tokens(m) /\ Keys[i] # SP
             /\ Values(m, Received(m))[i] \in Seq(Tokens(m))
  <2>1. fields[i] = Field(Keys[i], Values(m, Received(m))[i])
    BY <1>3 DEF IsRead
  <2>2. Keys[i] \in Tokens(m) /\ Keys[i] # SP
    BY KeyIs
  <2>3. Values(m, Received(m))[i] \in Seq(Tokens(m))
    BY FieldIsNoDash
  <2> QED
    BY <2>1, <2>2, <2>3
<1>5. SP \in Tokens(m) /\ \A i, j \in 1 .. 7 : Keys[i] = Keys[j] => i = j
  BY KeysAre DEF Tokens
<1>6. AreFields(fields, Keys, Values(m, Received(m)), Tokens(m))
  <2>1. 1 .. 7 \subseteq Nat
    OBVIOUS
  <2> QED
    BY <1>3, <1>4, <1>5, <2>1, Zenon DEF AreFields
<1> QED
  BY <1>3, <1>6

LEMMA PagesCut ==
    ASSUME NEW m, IsManifest(m), NEW L, IsRead(L, m)
    PROVE  /\ Len(SubSeq(L, 10, Len(L))) = Len(L) - 9
           /\ Len(L) = 9 + Len(m.pages) => SubSeq(L, 10, Len(L)) = m.pages
<1>1. PICK V : L \in Seq(V)
  BY DEF IsRead
<1> PICK n, k, pages, t : /\ n = Len(L) /\ pages = m.pages /\ k = Len(pages)
                          /\ t = SubSeq(L, 10, n)
  OBVIOUS
<1>2. n \in Nat /\ 9 + k <= n /\ k \in Nat /\ \A i \in 1 .. k : L[9 + i] = pages[i]
  <2>1. k \in Nat
    BY PagesTyped
  <2> QED
    BY <2>1 DEF IsRead
<1>3. /\ t \in Seq(V) /\ Len(t) = n - 9
      /\ \A i \in 1 .. n - 9 : t[i] = L[9 + i]
  <2>1. 10 \in 1 .. n + 1 /\ n \in 10 - 1 .. n /\ n - 10 + 1 = n - 9 /\ 10 \in Int /\ n \in Int
    BY <1>2
  <2>2. t \in Seq(V) /\ Len(t) = n - 9
    BY <1>1, <2>1, Slice
  <2>3. \A i \in 10 .. n : L[i] \in V
    <3>1. \A i \in 10 .. n : i \in 1 .. n
      BY <1>2
    <3> QED
      BY <1>1, <3>1
  <2>4. \A i \in 1 .. n - 10 + 1 : t[i] = L[10 + i - 1]
    BY <2>1, <2>3, SubSeqProperties
  <2>5. \A i \in 1 .. n - 9 : i \in 1 .. n - 10 + 1 /\ 10 + i - 1 = 9 + i
    BY <1>2
  <2> QED
    BY <2>2, <2>4, <2>5
<1>4. ASSUME n = 9 + k
      PROVE  t = pages
  <2>1. n - 9 = k
    BY <1>2, <1>4
  <2>2. \A i \in 1 .. k : t[i] = pages[i]
    BY <1>2, <1>3, <2>1
  <2>3. pages \in Seq(Seq(Tokens(m)))
    BY PagesTyped
  <2>4. Len(t) = Len(pages) /\ \A i \in 1 .. Len(t) : t[i] = pages[i]
    BY <1>3, <2>1, <2>2
  <2> QED
    BY <1>3, <2>3, <2>4, SeqEqual
<1> QED
  BY <1>3, <1>4

LEMMA GetsAre ==
    ASSUME NEW fields, NEW keys, NEW vals, NEW T, NEW I, DOMAIN fields = I,
           AreFields(fields, keys, vals, T)
    PROVE  \A k \in I : Get(fields, keys[k]) = {vals[k]}
BY GetIs

LEMMA KeysFound ==
    ASSUME NEW fields, NEW v, NEW T, DOMAIN fields = 1 .. 7, AreFields(fields, Keys, v, T)
    PROVE  /\ Get(fields, "id") = {v[1]} /\ Get(fields, "parent") = {v[2]}
           /\ Get(fields, "branch") = {v[3]} /\ Get(fields, "created") = {v[4]}
           /\ Get(fields, "message") = {v[5]} /\ Get(fields, "pagesize") = {v[6]}
           /\ Get(fields, "pages") = {v[7]}
<1>1. \A k \in 1 .. 7 : Get(fields, Keys[k]) = {v[k]}
  BY GetsAre
<1>2. /\ Keys[1] = "id" /\ Keys[2] = "parent" /\ Keys[3] = "branch" /\ Keys[4] = "created"
      /\ Keys[5] = "message" /\ Keys[6] = "pagesize" /\ Keys[7] = "pages"
  BY DEF Keys
<1>3. /\ Get(fields, Keys[1]) = {v[1]} /\ Get(fields, Keys[2]) = {v[2]}
      /\ Get(fields, Keys[3]) = {v[3]} /\ Get(fields, Keys[4]) = {v[4]}
      /\ Get(fields, Keys[5]) = {v[5]} /\ Get(fields, Keys[6]) = {v[6]}
      /\ Get(fields, Keys[7]) = {v[7]}
  <2>1. /\ 1 \in 1 .. 7 /\ 2 \in 1 .. 7 /\ 3 \in 1 .. 7 /\ 4 \in 1 .. 7 /\ 5 \in 1 .. 7
        /\ 6 \in 1 .. 7 /\ 7 \in 1 .. 7
    OBVIOUS
  <2> QED
    BY <1>1, <2>1, Zenon
<1> QED
  BY <1>2, <1>3, Zenon

(* Every field is found, and has one value.                                 *)
LEMMA FieldsFound ==
    ASSUME NEW m, IsManifest(m), NEW L, IsRead(L, m), NEW fields, fields = SubSeq(L, 2, 8)
    PROVE  /\ Get(fields, "id") = {m.id} /\ Get(fields, "parent") = {m.parent}
           /\ Get(fields, "branch") = {m.branch} /\ Number(fields, "created") = {m.created}
           /\ Get(fields, "message") = {Received(m)} /\ Number(fields, "pagesize") = {m.pagesize}
           /\ Number(fields, "pages") = {Len(m.pages)}
           /\ \A i \in DOMAIN fields : SP \in Range(fields[i])
<1> PICK r, v : r = Received(m) /\ v = Values(m, r)
  OBVIOUS
<1>1. DOMAIN fields = 1 .. 7 /\ AreFields(fields, Keys, v, Tokens(m))
  BY FieldsCut
<1>3. /\ v[1] = m.id /\ v[2] = m.parent /\ v[3] = m.branch /\ v[4] = <<Decimal[m.created]>>
      /\ v[5] = r /\ v[6] = <<Decimal[m.pagesize]>> /\ v[7] = <<Decimal[Len(m.pages)]>>
  BY DEF Values
<1>5. /\ Get(fields, "id") = {v[1]} /\ Get(fields, "parent") = {v[2]}
      /\ Get(fields, "branch") = {v[3]} /\ Get(fields, "created") = {v[4]}
      /\ Get(fields, "message") = {v[5]} /\ Get(fields, "pagesize") = {v[6]}
      /\ Get(fields, "pages") = {v[7]}
  BY <1>1, KeysFound, Zenon
<1>6. /\ Get(fields, "id") = {m.id} /\ Get(fields, "parent") = {m.parent}
      /\ Get(fields, "branch") = {m.branch} /\ Get(fields, "created") = {<<Decimal[m.created]>>}
      /\ Get(fields, "message") = {r} /\ Get(fields, "pagesize") = {<<Decimal[m.pagesize]>>}
      /\ Get(fields, "pages") = {<<Decimal[Len(m.pages)]>>}
  BY <1>3, <1>5, Zenon
<1>7. m.created \in Numbers /\ m.pagesize \in Numbers /\ Len(m.pages) \in Numbers
  BY DEF IsManifest
<1>8. /\ Number(fields, "created") = {m.created} /\ Number(fields, "pagesize") = {m.pagesize}
      /\ Number(fields, "pages") = {Len(m.pages)}
  <2>1. Number(fields, "created") = {m.created}
    BY <1>6, <1>7, NumberIs
  <2>2. Number(fields, "pagesize") = {m.pagesize}
    BY <1>6, <1>7, NumberIs
  <2>3. Number(fields, "pages") = {Len(m.pages)}
    BY <1>6, <1>7, NumberIs
  <2> QED
    BY <2>1, <2>2, <2>3
<1>9. \A i \in 1 .. 7 : SP \in Range(fields[i])
  <2> SUFFICES ASSUME NEW i \in 1 .. 7 PROVE SP \in Range(fields[i])
    OBVIOUS
  <2>1. fields[i] = Field(Keys[i], Values(m, r)[i])
    BY <1>1 DEF AreFields
  <2> QED
    BY <2>1, FieldIsNoDash
<1> QED
  BY <1>1, <1>6, <1>8, <1>9

ManifestOf(id, par, b, c, msg, size, pages) ==
    [id |-> id, parent |-> par, branch |-> b, created |-> c, message |-> msg,
     pagesize |-> size, pages |-> pages]

LEMMA ManifestsOne ==
    ASSUME NEW fields, NEW pages, NEW id, NEW par, NEW b, NEW c, NEW msg, NEW size,
           Get(fields, "id") = {id} /\ Get(fields, "parent") = {par},
           Get(fields, "branch") = {b} /\ Number(fields, "created") = {c},
           Get(fields, "message") = {msg} /\ Number(fields, "pagesize") = {size}
    PROVE  Manifests(fields, pages) = {ManifestOf(id, par, b, c, UnescapeLine(msg), size, pages)}
BY DEF Manifests, ManifestOf

LEMMA ManifestsAre ==
    ASSUME NEW m, IsManifest(m), NEW L, IsRead(L, m), NEW fields, fields = SubSeq(L, 2, 8),
           NEW pages
    PROVE  Manifests(fields, pages) =
             {ManifestOf(m.id, m.parent, m.branch, m.created, UnescapeLine(Received(m)),
                         m.pagesize, pages)}
<1>1. /\ Get(fields, "id") = {m.id} /\ Get(fields, "parent") = {m.parent}
      /\ Get(fields, "branch") = {m.branch} /\ Number(fields, "created") = {m.created}
      /\ Get(fields, "message") = {Received(m)} /\ Number(fields, "pagesize") = {m.pagesize}
  BY FieldsFound
<1> QED
  BY <1>1, ManifestsOne

(* What comes back of the message.                                          *)
LEMMA MessageIs ==
    ASSUME NEW m, IsManifest(m)
    PROVE  UnescapeLine(Received(m)) = SansReturn(m.message)
<1> PICK s, T : s = m.message /\ T = Range(s)
  OBVIOUS
<1>1. s \in Seq(T)
  BY MessageTyped
<1>2. SansReturn(EscapeLine(s)) = EscapeLine(SansReturn(s))
  BY <1>1, SansReturnEscapes
<1>3. SansReturn(s) \in Seq(T)
  BY <1>1, SansReturnIs
<1>4. UnescapeLine(EscapeLine(SansReturn(s))) = SansReturn(s)
  BY <1>3, UnescapesEscaped
<1> QED
  BY <1>2, <1>4 DEF Received

LEMMA WithMessage ==
    ASSUME NEW m, NEW a, NEW b, NEW c, NEW d, NEW e, NEW f, NEW g,
           m = [id |-> a, parent |-> b, branch |-> c, created |-> d, message |-> e,
                pagesize |-> f, pages |-> g],
           NEW w
    PROVE  [m EXCEPT !.message = w] = [id |-> a, parent |-> b, branch |-> c, created |-> d,
                                       message |-> w, pagesize |-> f, pages |-> g]
OBVIOUS

LEMMA ParseIs ==
    ASSUME NEW m, IsManifest(m), NEW text, NEW L, L = Lines(text), IsRead(L, m)
    PROVE  ParseManifest(text) =
             IF Len(L) = 9 + Len(m.pages) THEN {[m EXCEPT !.message = SansReturn(@)]} ELSE {}
<1> PICK fields, pages : fields = SubSeq(L, 2, 8) /\ pages = SubSeq(L, 10, Len(L))
  OBVIOUS
<1>0. Manifests(fields, pages) =
        {ManifestOf(m.id, m.parent, m.branch, m.created, UnescapeLine(Received(m)),
                    m.pagesize, pages)}
  BY ManifestsAre, ZenonT(60)
<1> DEFINE r == [id |-> m.id, parent |-> m.parent, branch |-> m.branch, created |-> m.created,
                 message |-> SansReturn(m.message), pagesize |-> m.pagesize, pages |-> pages]
           Good(x) == /\ L[1] = <<"litegraft snapshot 1">>
                      /\ \A i \in DOMAIN fields : SP \in Range(fields[i])
                      /\ \A i \in DOMAIN pages : IsHash(pages[i])
                      /\ Number(fields, "pages") = {Len(pages)}
                      /\ x.id = StateId(x.pagesize, x.pages)
<1>1. ParseManifest(text) = {x \in Manifests(fields, pages) : Good(x)}
  <2>1. Min(Dashes(L) \cup {Len(L) + 1}) = 9
    BY FieldsEnd
  <2>2. ParseManifest(text) =
          LET fs == SubSeq(L, 2, 9 - 1)
              ps == SubSeq(L, 9 + 1, Len(L))
          IN  {x \in Manifests(fs, ps) :
                 /\ L[1] = <<"litegraft snapshot 1">>
                 /\ \A i \in DOMAIN fs : SP \in Range(fs[i])
                 /\ \A i \in DOMAIN ps : IsHash(ps[i])
                 /\ Number(fs, "pages") = {Len(ps)}
                 /\ x.id = StateId(x.pagesize, x.pages)}
    BY <2>1, Zenon DEF ParseManifest
  <2>3. 9 - 1 = 8 /\ 9 + 1 = 10
    OBVIOUS
  <2>4. fields = SubSeq(L, 2, 9 - 1) /\ pages = SubSeq(L, 9 + 1, Len(L))
    BY <2>3
  <2> QED
    BY <2>2, <2>4, Zenon
<1>2. Manifests(fields, pages) = {r}
  <2>2. UnescapeLine(Received(m)) = SansReturn(m.message)
    BY MessageIs
  <2> QED
    BY <1>0, <2>2, Zenon DEF ManifestOf
<1>3. /\ L[1] = <<"litegraft snapshot 1">>
      /\ \A i \in DOMAIN fields : SP \in Range(fields[i])
      /\ Number(fields, "pages") = {Len(m.pages)}
      /\ Len(L) \in Nat /\ Len(m.pages) \in Nat
  <2>1. L[1] = <<"litegraft snapshot 1">> /\ Len(L) \in Nat
    BY DEF IsRead
  <2>2. /\ \A i \in DOMAIN fields : SP \in Range(fields[i])
        /\ Number(fields, "pages") = {Len(m.pages)}
    BY FieldsFound
  <2> QED
    BY <2>1, <2>2, PagesTyped
<1>4. CASE Len(L) = 9 + Len(m.pages)
  <2>1. pages = m.pages
    BY <1>4, PagesCut
  <2>2. \A i \in DOMAIN pages : IsHash(pages[i])
    <3> SUFFICES ASSUME NEW i \in DOMAIN pages PROVE IsHash(pages[i])
      OBVIOUS
    <3>1. pages[i] \in Seq(HexDigits) /\ Len(pages[i]) = HashLen
      BY <2>1, PagesTyped
    <3> QED
      BY <3>1 DEF IsHash
  <2>3. r.id = m.id /\ r.pagesize = m.pagesize /\ r.pages = m.pages
    BY <2>1
  <2>4. m.id = StateId(m.pagesize, m.pages)
    BY IdIs
  <2>5. Good(r)
    BY <1>3, <2>1, <2>2, <2>3, <2>4
  <2>6. [m EXCEPT !.message = SansReturn(@)] = r
    <3>1. m = [id |-> StateId(m.pagesize, m.pages), parent |-> m.parent, branch |-> m.branch,
               created |-> m.created, message |-> m.message, pagesize |-> m.pagesize,
               pages |-> m.pages]
      BY Zenon DEF IsManifest
    <3>2. [m EXCEPT !.message = SansReturn(m.message)] =
            [id |-> StateId(m.pagesize, m.pages), parent |-> m.parent, branch |-> m.branch,
             created |-> m.created, message |-> SansReturn(m.message), pagesize |-> m.pagesize,
             pages |-> m.pages]
      <4> PICK i, w : i = StateId(m.pagesize, m.pages) /\ w = SansReturn(m.message)
        OBVIOUS
      <4>1. m = [id |-> i, parent |-> m.parent, branch |-> m.branch,
                 created |-> m.created, message |-> m.message, pagesize |-> m.pagesize,
                 pages |-> m.pages]
        BY <3>1
      <4> QED
        BY <4>1, WithMessage
    <3> QED
      BY <2>1, <2>4, <3>2
  <2> HIDE DEF Good, r
  <2> QED
    BY <1>1, <1>2, <1>4, <2>5, <2>6, SMTT(30)
<1>5. CASE Len(L) # 9 + Len(m.pages)
  <2>1. Len(pages) = Len(L) - 9
    BY PagesCut
  <2>2. Len(pages) # Len(m.pages)
    <3>1. \A a, b \in Nat : a # 9 + b => a - 9 # b
      OBVIOUS
    <3> QED
      BY <1>3, <1>5, <2>1, <3>1, Zenon
  <2>3. \A x : ~Good(x)
    BY <1>3, <2>2
  <2> HIDE DEF Good, r
  <2> QED
    BY <1>1, <1>5, <2>3
<1> QED
  BY <1>4, <1>5

LEMMA TextParsed ==
    ASSUME NEW m, IsManifest(m), NEW R, NEW rest \in Seq(R)
    PROVE  ParseManifest(ManifestText(m) \o rest) =
             IF rest = << >> THEN {[m EXCEPT !.message = SansReturn(@)]} ELSE {}
<1> PICK text, L : text = ManifestText(m) \o rest /\ L = Lines(text)
  OBVIOUS
<1>1. IsRead(L, m) /\ (Len(L) = 9 + Len(m.pages) <=> rest = << >>)
  BY ManifestRead
<1>2. ParseManifest(text) =
        IF Len(L) = 9 + Len(m.pages) THEN {[m EXCEPT !.message = SansReturn(@)]} ELSE {}
  BY <1>1, ParseIs
<1> QED
  BY <1>1, <1>2

LEMMA TextTyped ==
    ASSUME NEW m, IsManifest(m)
    PROVE  ManifestText(m) \in Seq(Tokens(m) \cup {NL})
<1> PICK T, U, ls : T = Tokens(m) /\ U = T \cup {NL} /\ ls = ManifestLines(m)
  OBVIOUS
<1>1. NL \notin T /\ ls \in Seq(Seq(T)) /\ T \subseteq U /\ NL \in U
  BY NoNewline, LinesTyped
<1>2. << >> \in Seq(U)
  OBVIOUS
<1>3. Unlines(ls) \in Seq(U)
  BY <1>1, <1>2, UnlinesEnds
<1> QED
  BY <1>3 DEF ManifestText

LEMMA ReturnedRoundTrip == Returned => ManifestRoundTrip
<1> SUFFICES ASSUME Returned, Over("manifest")
             PROVE  result = {[call.manifest EXCEPT !.message = SansReturn(@)]}
  BY DEF ManifestRoundTrip
<1> PICK m, text : m = call.manifest /\ text = ManifestText(m)
  OBVIOUS
<1>1. IsManifest(m) /\ result = ParseManifest(text)
  BY CallsAssumption DEF Returned, Over
<1>2. text \in Seq(Tokens(m) \cup {NL})
  BY <1>1, TextTyped
<1>3. text \o << >> = text
  BY <1>2, ConcatEmptySeq
<1>4. << >> \in Seq({NL})
  OBVIOUS
<1>5. ParseManifest(text \o << >>) = {[m EXCEPT !.message = SansReturn(@)]}
  BY <1>1, <1>4, TextParsed
<1> QED
  BY <1>1, <1>3, <1>5

(* What is left of a text behind another one.                               *)
LEMMA Remnant ==
    ASSUME NEW R, NEW s \in Seq(R), NEW a \in Nat
    PROVE  /\ SubSeq(s, a + 1, Len(s)) \in Seq(R)
           /\ SubSeq(s, a + 1, Len(s)) = << >> <=> Len(s) <= a
<1> DEFINE b == Len(s)
<1>1. b \in Nat /\ a + 1 \in Int /\ b \in Int
  OBVIOUS
<1>2. CASE b <= a
  <2>1. b < a + 1
    BY <1>1, <1>2
  <2>2. SubSeq(s, a + 1, b) = << >>
    BY <1>1, <2>1, SubSeqEmpty
  <2> QED
    BY <1>2, <2>2
<1>3. CASE a < b
  <2>1. a + 1 \in 1 .. b + 1 /\ b \in (a + 1) - 1 .. b /\ b - (a + 1) + 1 # 0 /\ ~(b <= a)
    BY <1>1, <1>3
  <2>2. SubSeq(s, a + 1, b) \in Seq(R) /\ Len(SubSeq(s, a + 1, b)) = b - (a + 1) + 1
    BY <2>1, Slice
  <2>3. SubSeq(s, a + 1, b) # << >>
    <3>1. Len(SubSeq(s, a + 1, b)) # 0
      BY <2>1, <2>2
    <3>2. Len(<< >>) = 0
      OBVIOUS
    <3> QED
      BY <3>1, <3>2, Zenon
  <2> QED
    BY <2>1, <2>2, <2>3
<1> QED
  BY <1>1, <1>2, <1>3

LEMMA ReturnedRejects == Returned => MixtureRejected
<1> SUFFICES ASSUME Returned, Over("overlaid")
             PROVE  IF Len(ManifestText(call.first)) <= Len(ManifestText(call.last))
                    THEN result = {[call.last EXCEPT !.message = SansReturn(@)]}
                    ELSE result = {}
  BY DEF MixtureRejected
<1> PICK m, first, last : /\ m = call.last /\ last = ManifestText(m)
                          /\ first = ManifestText(call.first)
  OBVIOUS
<1> PICK rest : rest = SubSeq(first, Len(last) + 1, Len(first))
  OBVIOUS
<1>1. IsManifest(m) /\ IsManifest(call.first) /\ result = ParseManifest(last \o rest)
  BY CallsAssumption DEF Returned, Over, Overlaid
<1>2. PICK R : first \in Seq(R)
  BY <1>1, TextTyped
<1>3. Len(last) \in Nat
  <2>1. last \in Seq(Tokens(m) \cup {NL})
    BY <1>1, TextTyped
  <2> QED
    BY <2>1
<1>4. rest \in Seq(R) /\ (rest = << >> <=> Len(first) <= Len(last))
  BY <1>2, <1>3, Remnant
<1>5. ParseManifest(last \o rest) =
        IF rest = << >> THEN {[m EXCEPT !.message = SansReturn(@)]} ELSE {}
  BY <1>1, <1>4, TextParsed
<1> QED
  BY <1>1, <1>4, <1>5

(* Whatever a message is made of, and however long every value is, the text *)
(* that write_manifest writes is one that parse_manifest takes, and gives   *)
(* the manifest it was written of but for a carriage return that the        *)
(* message ends in.                                                         *)
THEOREM ManifestsReadBack == Spec => []ManifestRoundTrip
BY ReturnedAlways, ReturnedRoundTrip, PTL

(* Of two manifests written over each other in one file, the one written    *)
(* last is read when nothing of the other is behind it, and none at all     *)
(* otherwise: any rest is a line too many.                                  *)
THEOREM MixturesRejected == Spec => []MixtureRejected
BY ReturnedAlways, ReturnedRejects, PTL
=============================================================================
