------------------------------ MODULE MCCodecs ------------------------------
(* Codecs with groups of 2 bits and varints of at most 4 bytes (integers of *)
(* 9 bits, all of them), hashes of 2 digits, and blocks of 6 bytes that end *)
(* in a length of 2.                                                        *)
EXTENDS Codecs

Seqs(S, n) == UNION {[1 .. k -> S] : k \in 0 .. n}

(* Every integer, and every way for bytes to go on, to the longest form. *)
VarintCalls ==
    [op : {"write_varint"}, value : 0 .. VarintLimit - 1, rest : {<< >>, <<0>>, <<7, 4>>}]
    \cup [op : {"read_varint"}, buf : Seqs({0, 3, 4, 7}, 5)]

(* Characters of one, two and three bytes; 4 and 5 go on with one. *)
MCChars == {<<b>> : b \in 0 .. 3} \cup {<<6, 4>>, <<6, 5>>, <<7, 4, 4>>, <<7, 4, 5>>}
MCReplacement == <<7, 4, 5>>

(* Columns of each serial type, the integers at their extremes; serial      *)
(* types from 4 on take two bytes of header.  Texts that are UTF-8, end     *)
(* within a character or have a byte out of place.                          *)
Column(s, kind, is) == [serial |-> s, value |-> [kind |-> kind, is |-> is]]

Half(s) == Power(ByteBase)[SerialTypeLen(s)] \div 2

MCColumns ==
    {Column(0, "null", << >>), Column(8, "int", <<0>>), Column(9, "int", <<1>>),
     Column(7, "float", <<1, 2, 3, 4, 5, 6, 7, 0>>), Column(12, "blob", << >>),
     Column(13, "text", << >>), Column(14, "blob", <<7>>), Column(17, "text", <<6, 5>>),
     Column(17, "text", <<1, 4>>), Column(17, "text", <<7, 4>>), Column(19, "text", <<7, 5, 2>>)}
    \cup UNION {{Column(s, "int", <<v>>) : v \in {-1, Half(s) - 1, -Half(s)}} : s \in 1 .. 6}

RecordCalls ==
    [op : {"record"}, columns : Seqs(MCColumns, 2), rest : {<< >>, <<5, 0>>}]
    \cup [op : {"truncated"}, columns : Seqs(MCColumns, 2)]

(* Messages of up to three of the characters that mean something, manifests *)
(* of up to two pages whose texts differ in length by up to a page line and *)
(* more.                                                                    *)
MCNumbers == {0, 1, 2, 7, 512}
MCDecimal == [n \in MCNumbers |-> ToString(n)]

MCManifest(par, msg, pages) ==
    [id |-> StateId(512, pages), parent |-> par, branch |-> <<"main">>,
     created |-> 7, message |-> msg, pagesize |-> 512, pages |-> pages]

Words == {BS, NL, CR, SP, "n", "--", "parent"}
SomePages == {<< >>, <<<<"a", "b">>>>, <<<<"a", "b">>, <<"b", "b">>>>}
SomeParents == {<<"-">>, StateId(512, <<<<"b", "a">>>>)}

ManifestCalls ==
    {[op |-> "manifest", manifest |-> MCManifest(par, m, ps)]
     : par \in SomeParents, m \in Seqs(Words, 3), ps \in SomePages}
    \cup {[op |-> "overlaid", first |-> MCManifest(p1, m1, ps), last |-> MCManifest(p2, m2, ps)]
          : p1 \in SomeParents, p2 \in SomeParents, ps \in SomePages,
            m1 \in Seqs({NL, CR, "n"}, 2) \cup {[i \in 1 .. k |-> "n"] : k \in 3 .. 8},
            m2 \in Seqs({NL, CR, "n"}, 2)}

(* States of up to three pages of one page size, and of up to one page of   *)
(* another (a page holds its size, so that its hash does).                  *)
MCOwners == {[kind |-> "btree", name |-> "users"], [kind |-> "freelist", name |-> Nobody],
             [kind |-> "overflow", name |-> "users"]}
MCState(size, n) ==
    [size : {size}, hashes : [1 .. n -> {<<size, "x">>, <<size, "y">>}],
     owners : [1 .. n -> MCOwners]]
MCStates == MCState(512, 0) \cup MCState(1024, 0)
            \cup MCState(512, 1) \cup MCState(512, 2) \cup MCState(1024, 1)
            \cup {s \in MCState(512, 3) : s.owners[1] # s.owners[3] /\ s.hashes[1] = s.hashes[3]}

DiffCalls ==
    [op : {"diff"}, old : MCStates, new : MCStates]
    \cup [op : {"status"}, head : {{}} \cup {{s} : s \in MCStates}, file : MCStates]
    \cup [op : {"tables"}, file : MCStates]

MCCalls == VarintCalls \cup RecordCalls \cup ManifestCalls \cup DiffCalls
           \cup {[op |-> "hash"]}

MCMessages == {[i \in 1 .. n |-> i] : n \in 0 .. 15}
=============================================================================
