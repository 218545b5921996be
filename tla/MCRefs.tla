------------------------------- MODULE MCRefs -------------------------------
(* Refs with ids of two digits, prefixes of one, and names that stand in    *)
(* each other's way, are prefixes of ids, look like one, or have several    *)
(* spellings.                                                               *)
EXTENDS Refs

MCIds == {<<"0", "0">>, <<"0", "1">>, <<"1", "1">>}

m == <<"m">>
zero == <<"0">>
one == <<"1">>
dot == <<".">>

MCMain == <<m>>

MCTyped ==
    {<<id>> : id \in MCIds} \cup
    {MCMain, <<m, zero>>, <<m, dot>>, <<zero>>, <<one>>, <<one, one>>,
     <<zero, one>>, <<zero, << >>, one>>, <<zero, dot, one>>, <<zero, dot>>}
=============================================================================
