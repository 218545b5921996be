------------------------------ MODULE MCBtree ------------------------------
(* Btree on every file of four pages that can be put together from a        *)
(* schema page and three pages of a few shapes, damaged ones included.      *)
EXTENDS Btree

(* The first four bytes of a b-tree page, read as a page number. *)
Far == PageCount + 1

NoRow == [name |-> NoName, root |-> 0]

RowCell(name, root) == [left |-> <<>>, chain |-> 0, need |-> 0,
                    row |-> [name |-> name, root |-> root]]

Spill(left, chain, need) ==
    [left |-> left, chain |-> chain, need |-> need, row |-> NoRow]

Node(type, right, nodeCells) ==
    [type |-> type, right |-> right, cells |-> nodeCells, next |-> Far, leaves |-> <<>>]

Link(next, leaves) ==
    [type |-> "other", right |-> <<>>, cells |-> <<>>, next |-> next, leaves |-> leaves]

Leaf == Node("table", <<>>, <<>>)

TrunkPages == {Link(n, <<l>>) : n \in {0, 2, 3}, l \in {4, Far}}

(* One, two and no objects; two on one root; a view; a schema of two or     *)
(* three pages; a record that cannot be decoded.                            *)
SchemaPages == {
    Node("table", <<>>, <<RowCell(1, 2)>>),
    Node("table", <<>>, <<RowCell(2, 2), RowCell(1, 3)>>),
    Node("table", <<>>, <<RowCell(1, 2), RowCell(2, 2)>>),
    Node("table", <<>>, <<RowCell(1, 0)>>),
    Node("table", <<2>>, <<>>),
    Node("table", <<2>>, <<Spill(<<3>>, 0, 0)>>),
    Node("table", <<>>, <<RowCell(NoName, 0)>>)}

(* Leaves with and without a chain, interior pages of tables and indexes.   *)
SecondPages ==
    {Leaf} \cup
    {Node("table", <<>>, <<Spill(<<>>, c, n)>>) : c \in {3, Far}, n \in 1 .. 2} \cup
    {Node("table", <<r>>, <<>>) : r \in 2 .. 4} \cup
    {Node("index", <<r>>, <<Spill(<<l>>, 0, 0)>>) : r, l \in 3 .. 4} \cup
    {Node("index", <<r>>, <<Spill(<<l>>, c, 1)>>) : r, l, c \in 3 .. 4}

OtherPages ==
    {Leaf} \cup
    {Node("table", <<>>, <<Spill(<<>>, c, 1)>>) : c \in 2 .. 4} \cup
    {Node("table", <<r>>, <<>>) : r \in {2, 4}} \cup
    {Link(n, <<>>) : n \in {0, 3, 4}}

FilesOf(first, second, others, trunks) ==
    {[pages |-> <<s, a, b, c>>, freelist |-> t] :
        s \in first, a \in second, b \in others, c \in others, t \in trunks}

(* Trees and chains, the freelist being empty. *)
TreeFiles == FilesOf(SchemaPages, SecondPages, OtherPages, {0})

(* Freelists, beside trees of one or two leaves. *)
MaybeFree == {Leaf, Node("table", <<2>>, <<>>), Node("table", <<3>>, <<>>),
              Link(0, <<>>), Link(4, <<>>), Link(Far, <<>>)} \cup TrunkPages

FreeFiles == FilesOf({Node("table", <<>>, <<RowCell(1, 2)>>), Node("table", <<>>, <<>>)},
                     MaybeFree, MaybeFree, {0, 2, 3, Far})

AllFiles == TreeFiles \cup FreeFiles

=============================================================================
