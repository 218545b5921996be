---------------------------- MODULE ManifestText ----------------------------
(* The text of a manifest, src/store.rs: what write_manifest writes and     *)
(* parse_manifest accepts.  A text is a sequence of tokens: a character, a  *)
(* number or a word that nothing cuts in two.  Only the characters that the *)
(* code looks at matter: the newline, the carriage return that str::lines   *)
(* drops before it, the space that ends a key, the backslash and n.         *)
EXTENDS Naturals, Sequences, SequencesExt, FiniteSetsExt

CONSTANTS
    HexDigits,   \* characters of a hash
    HashLen,     \* length of a hash: 64
    Numbers,     \* numbers a manifest may hold
    Decimal      \* how a number is written: a word for each

NL == "\n"
CR == "\r"
SP == " "
BS == "\\"

ASSUME WordsAssumption ==
    /\ {NL, CR} \cap HexDigits = {}
    /\ \A n \in Numbers : Decimal[n] \notin {NL, CR}
    /\ \A k, n \in Numbers : Decimal[k] = Decimal[n] => k = n

(* SHA-256 taken injective: an id is written as what it hashes, and hashes  *)
(* have one length.                                                         *)
StateId(size, hashes) == <<Decimal[size]>> \o FlattenSeq(hashes)

---------------------------------------------------------------------------
(* Writing.                                                                 *)

(* Mutant: a backslash of the message stays as it is. *)
BugEscapeLine(s) ==
    FlattenSeq([i \in DOMAIN s |-> IF s[i] = NL THEN <<BS, "n">> ELSE <<s[i]>>])

Escaped(c) == CASE c = BS -> <<BS, BS>>
                [] c = NL -> <<BS, "n">>
                [] OTHER  -> <<c>>

EscapeLine(s) == FlattenSeq([i \in DOMAIN s |-> Escaped(s[i])])

Field(key, value) == <<key, SP>> \o value

ManifestLines(m) ==
    << <<"litegraft snapshot 1">>,
       Field("id", m.id),
       Field("parent", m.parent),
       Field("branch", m.branch),
       Field("created", <<Decimal[m.created]>>),
       Field("message", EscapeLine(m.message)),
       Field("pagesize", <<Decimal[m.pagesize]>>),
       Field("pages", <<Decimal[Len(m.pages)]>>),
       <<"--">> >> \o m.pages

Unlines(lines) == FlattenSeq([i \in DOMAIN lines |-> lines[i] \o <<NL>>])

ManifestText(m) == Unlines(ManifestLines(m))

(* fs::write of two texts to one temporary file, each from its beginning:   *)
(* what is left of the one written first is behind the one written last.    *)
Overlaid(first, last) == last \o SubSeq(first, Len(last) + 1, Len(first))

---------------------------------------------------------------------------
(* Reading.                                                                 *)

(* str::lines: the line ends are removed, "\r\n" as well as "\n". *)
SansReturn(s) == IF s # << >> /\ Last(s) = CR THEN Front(s) ELSE s

Newlines(text)     == {i \in DOMAIN text : text[i] = NL}
LineEnd(text, k)   == CHOOSE i \in Newlines(text) : Cardinality(Newlines(text) \cap 1 .. i) = k
LineStart(text, k) == IF k = 1 THEN 1 ELSE LineEnd(text, k - 1) + 1

Lines(text) ==
    LET n    == Cardinality(Newlines(text))
        tail == SubSeq(text, LineStart(text, n + 1), Len(text))
    IN  [k \in 1 .. n |-> SansReturn(SubSeq(text, LineStart(text, k), LineEnd(text, k) - 1))]
        \o IF tail = << >> THEN << >> ELSE <<tail>>

(* What a backslash and c stand for. *)
Unescaped(c) == CASE c = "n" -> <<NL>>
                  [] c = BS  -> <<BS>>
                  [] OTHER   -> <<BS, c>>

UnescapeLine(s) ==
    LET from[i \in 1 .. Len(s) + 1] ==
          IF i >= Len(s) THEN SubSeq(s, i, Len(s))
          ELSE IF s[i] # BS THEN <<s[i]>> \o from[i + 1]
          ELSE Unescaped(s[i + 1]) \o from[i + 2]
    IN  from[1]

(* str::split_once(' '), for a line that has a space. *)
KeyEnd(line)  == Min({i \in DOMAIN line : line[i] = SP})
Key(line)     == SubSeq(line, 1, KeyEnd(line) - 1)
ValueOf(line) == SubSeq(line, KeyEnd(line) + 1, Len(line))

(* The values of a key: the last line with it counts. *)
Get(fields, key) ==
    {ValueOf(fields[i]) : i \in {i \in DOMAIN fields :
        Key(fields[i]) = <<key>> /\ \A j \in DOMAIN fields : j > i => Key(fields[j]) # <<key>>}}

Parsed(value) == {n \in Numbers : value = <<Decimal[n]>>}
Number(fields, key) == UNION {Parsed(v) : v \in Get(fields, key)}

IsHash(line) == Len(line) = HashLen /\ \A i \in DOMAIN line : line[i] \in HexDigits

(* The manifests that a list of fields and pages can be read as: one, or    *)
(* none when a field is missing.                                            *)
Manifests(fields, pages) ==
    {[id |-> id, parent |-> par, branch |-> b, created |-> c,
      message |-> UnescapeLine(msg), pagesize |-> size, pages |-> pages]
     : id \in Get(fields, "id"), par \in Get(fields, "parent"),
       b \in Get(fields, "branch"), c \in Number(fields, "created"),
       msg \in Get(fields, "message"), size \in Number(fields, "pagesize")}

Dashes(lines) == {i \in 2 .. Len(lines) : lines[i] = <<"--">>}

(* Mutant: as many hash lines as are declared are read, and no further. *)
BugParseManifest(text) ==
    LET lines  == Lines(text)
        stop   == Min(Dashes(lines) \cup {Len(lines) + 1})
        fields == SubSeq(lines, 2, stop - 1)
    IN  UNION {Manifests(fields, SubSeq(lines, stop + 1, stop + n))
               : n \in Number(fields, "pages")}

(* parse_manifest: the fields up to "--", the pages after it, their number  *)
(* and the id that they must give.                                          *)
ParseManifest(text) ==
    LET lines  == Lines(text)
        stop   == Min(Dashes(lines) \cup {Len(lines) + 1})
        fields == SubSeq(lines, 2, stop - 1)
        pages  == SubSeq(lines, stop + 1, Len(lines))
    IN  {m \in Manifests(fields, pages) :
           /\ lines[1] = <<"litegraft snapshot 1">>
           /\ \A i \in DOMAIN fields : SP \in Range(fields[i])
           /\ \A i \in DOMAIN pages : IsHash(pages[i])
           /\ Number(fields, "pages") = {Len(pages)}
           /\ m.id = StateId(m.pagesize, m.pages)}
=============================================================================
