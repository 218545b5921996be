------------------------------- MODULE Varint -------------------------------
(* Varints and records, src/record.rs.  A reader that may fail returns the  *)
(* set of what it read: one element, or none.                               *)
EXTENDS Integers, Sequences, SequencesExt

CONSTANTS
    Group,       \* the continuation bit, and the base: 128
    MaxBytes,    \* length of the longest varint: 9
    Chars,       \* the UTF-8 encodings of characters, sequences of bytes
    Replacement  \* that of U+FFFD

ByteBase == 2 * Group

ASSUME VarintAssumption == Group \in Nat \ {0, 1} /\ MaxBytes \in Nat \ {0, 1}

(* No encoding begins another. *)
ASSUME CharsAssumption ==
    /\ Chars \subseteq Seq(0 .. ByteBase - 1) \ {<< >>}
    /\ \A c, d \in Chars : IsPrefix(c, d) => c = d
    /\ Replacement \in Chars

(* Powers of b. *)
Power(b) ==
    LET power[n \in Nat] == IF n = 0 THEN 1 ELSE b * power[n - 1]
    IN  power

(* The n lowest digits of v, highest first. *)
Digits(b, v, n) == [i \in 1 .. n |-> (v \div Power(b)[n - i]) % b]

(* The value after so many bytes of buf, each shifted in by its digit. *)
Shifted(b, buf) ==
    LET value[n \in 0 .. Len(buf)] ==
          IF n = 0 THEN 0 ELSE b * value[n - 1] + (buf[n] % b)
    IN  value

(* The last byte of the longest form has no continuation bit. *)
VarintLimit == Power(Group)[MaxBytes - 1] * ByteBase

Drop(s, n) == SubSeq(s, n + 1, Len(s))

(* Lengths at which a varint ends. *)
VarintEnds(buf) ==
    {n \in 1 .. Len(buf) : /\ n <= MaxBytes
                           /\ n = MaxBytes \/ buf[n] < Group
                           /\ \A i \in 1 .. n - 1 : buf[i] >= Group}

(* Mutant: the ninth byte gives seven bits like the others. *)
BugReadVarint(buf) ==
    {[value |-> Shifted(Group, buf)[n], used |-> n] : n \in VarintEnds(buf)}

ReadVarint(buf) ==
    LET value == Shifted(Group, buf)
    IN  {[value |-> IF n = MaxBytes THEN ByteBase * value[n - 1] + buf[n] ELSE value[n],
          used  |-> n] : n \in VarintEnds(buf)}

(* Groups from the highest, all but the last with the continuation bit; the *)
(* long form takes a whole byte off the end first.                          *)
WriteVarint(v) ==
    IF v >= Power(Group)[MaxBytes - 1]
    THEN Append([i \in 1 .. MaxBytes - 1 |->
                   Digits(Group, v \div ByteBase, MaxBytes - 1)[i] + Group], v % ByteBase)
    ELSE LET n == CHOOSE n \in 1 .. MaxBytes - 1 :
                    /\ v < Power(Group)[n]
                    /\ \A k \in 1 .. n - 1 : v >= Power(Group)[k]
         IN  [i \in 1 .. n |-> Digits(Group, v, n)[i] + IF i < n THEN Group ELSE 0]

---------------------------------------------------------------------------
(* Records.                                                                 *)

ReservedSerials == {10, 11}

SerialTypeLen(serial) ==
    CASE serial \in {0, 8, 9} -> 0
      [] serial \in 1 .. 4    -> serial
      [] serial = 5           -> 6
      [] serial \in {6, 7}    -> 8
      [] serial >= 12         -> (serial - 12) \div 2

(* Big-endian two's complement. *)
ReadBeInt(raw) ==
    LET v == Shifted(ByteBase, raw)[Len(raw)]
    IN  IF raw[1] >= Group THEN v - Power(ByteBase)[Len(raw)] ELSE v

(* c stands in s behind the first a bytes. *)
StandsAt(c, s, a) == a + Len(c) <= Len(s) /\ \A i \in DOMAIN c : s[a + i] = c[i]

(* s can be cut into characters. *)
IsUtf8(s) ==
    \E cuts \in SUBSET (0 .. Len(s)) :
        /\ {0, Len(s)} \subseteq cuts
        /\ \A a \in cuts \ {Len(s)} :
              \E c \in Chars : StandsAt(c, s, a) /\ a + Len(c) \in cuts

(* Length of the longest beginning of a character behind the first a bytes: *)
(* where no character stands, it is replaced as one.                        *)
MaximalSubpart(s, a) ==
    Max({1} \cup {n \in 1 .. Len(s) - a : \E c \in Chars :
                    n <= Len(c) /\ \A i \in 1 .. n : s[a + i] = c[i]})

CharsAt(s, a) == {c \in Chars : StandsAt(c, s, a)}

UnitAt(s, a) == IF CharsAt(s, a) # {} THEN CHOOSE c \in CharsAt(s, a) : TRUE ELSE Replacement

UnitEnd(s, a) == a + IF CharsAt(s, a) # {} THEN Len(UnitAt(s, a)) ELSE MaximalSubpart(s, a)

UnitStarts(s) ==
    CHOOSE S \in SUBSET (0 .. Len(s)) :
        \A b \in 0 .. Len(s) : b \in S <=> b = 0 \/ \E a \in S \ {Len(s)} : b = UnitEnd(s, a)

(* String::from_utf8_lossy takes text that is UTF-8 as it is.               *)
FromUtf8Lossy(s) ==
    IF IsUtf8(s) THEN s
    ELSE FlattenSeq([i \in 1 .. Len(s) |->
                       IF i - 1 \in UnitStarts(s) THEN UnitAt(s, i - 1) ELSE << >>])

(* decode_value of a serial type and exactly its bytes. *)
Value(serial, raw) ==
    CASE serial = 0       -> [kind |-> "null", is |-> << >>]
      [] serial \in 1 .. 6 -> [kind |-> "int", is |-> <<ReadBeInt(raw)>>]
      [] serial = 7       -> [kind |-> "float", is |-> raw]
      [] serial = 8       -> [kind |-> "int", is |-> <<0>>]
      [] serial = 9       -> [kind |-> "int", is |-> <<1>>]
      [] serial >= 12     -> IF serial % 2 = 0 THEN [kind |-> "blob", is |-> raw]
                             ELSE [kind |-> "text", is |-> FromUtf8Lossy(raw)]

Decodable(serial, body) ==
    serial \notin ReservedSerials /\ SerialTypeLen(serial) <= Len(body)

(* One turn of the loop of decode_record: a serial type off the header, its *)
(* value off the body.                                                      *)
DecodeColumn(at) ==
    {[header |-> Drop(at.header, s.used),
      body   |-> Drop(at.body, SerialTypeLen(s.value)),
      values |-> Append(at.values, Value(s.value, SubSeq(at.body, 1, SerialTypeLen(s.value))))]
     : s \in {s \in ReadVarint(at.header) : Decodable(s.value, at.body)}}

(* Until the header is used up.                                             *)
Columns(header, body) ==
    LET after[n \in 0 .. Len(header)] ==
          IF n = 0 THEN {[header |-> header, body |-> body, values |-> << >>]}
          ELSE UNION {DecodeColumn(at) : at \in after[n - 1]}
    IN  {at.values : at \in {at \in UNION {after[n] : n \in 0 .. Len(header)} :
                               at.header = << >>}}

(* Mutant: the header length is taken not to count its own bytes. *)
BugDecodeRecord(payload) ==
    UNION {Columns(SubSeq(payload, h.used + 1, h.used + h.value),
                   Drop(payload, h.used + h.value))
           : h \in {h \in ReadVarint(payload) : h.used + h.value <= Len(payload)}}

DecodeRecord(payload) ==
    UNION {Columns(SubSeq(payload, h.used + 1, h.value), Drop(payload, h.value))
           : h \in {h \in ReadVarint(payload) :
                      h.used <= h.value /\ h.value <= Len(payload)}}

---------------------------------------------------------------------------
(* What SQLite writes: the record format, from the other side.              *)

(* The bytes of n in two's complement. *)
BeBytes(v, n) == Digits(ByteBase, v, n)

(* A column as SQLite stores it: a serial type with its value.  SQLite      *)
(* stores the bytes of a text unchecked.                                    *)
IsColumn(c) ==
    LET value == c.value
        bytes == value.is \in Seq(0 .. ByteBase - 1)
        n     == Len(value.is)
        half  == Group * Power(ByteBase)[SerialTypeLen(c.serial) - 1]
    IN  /\ c.serial \in (0 .. VarintLimit - 1) \ ReservedSerials
        /\ value = [kind |-> value.kind, is |-> value.is]
        /\ \/ c.serial = 0 /\ value.kind = "null" /\ value.is = << >>
           \/ c.serial = 8 /\ value.kind = "int" /\ value.is = <<0>>
           \/ c.serial = 9 /\ value.kind = "int" /\ value.is = <<1>>
           \/ /\ c.serial \in 1 .. 6
              /\ value.kind = "int" /\ value.is = <<value.is[1]>>
              /\ value.is[1] \in -half .. half - 1
           \/ c.serial = 7 /\ value.kind = "float" /\ bytes /\ n = 8
           \/ c.serial = 12 + 2 * n /\ value.kind = "blob" /\ bytes
           \/ c.serial = 13 + 2 * n /\ value.kind = "text" /\ bytes

(* Its bytes in the body of a record.                                       *)
ColumnBytes(c) ==
    CASE c.serial \in {0, 8, 9} -> << >>
      [] c.serial \in 1 .. 6    -> BeBytes(c.value.is[1], SerialTypeLen(c.serial))
      [] c.serial = 7 \/ c.serial >= 12 -> c.value.is

(* A record: the header counts its own length, which may take a varint of   *)
(* two bytes.                                                               *)
SqliteRecord(columns) ==
    LET serials == FlattenSeq([i \in DOMAIN columns |-> WriteVarint(columns[i].serial)])
        own     == CHOOSE n \in 1 .. MaxBytes : Len(WriteVarint(n + Len(serials))) = n
    IN  WriteVarint(own + Len(serials)) \o serials
        \o FlattenSeq([i \in DOMAIN columns |-> ColumnBytes(columns[i])])
=============================================================================
