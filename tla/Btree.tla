------------------------------- MODULE Btree -------------------------------
(* Page attribution: which object of a database does each page belong to?   *)
(*                                                                          *)
(* attribute_pages of src/btree.rs lays owners over one another: first the  *)
(* lock-byte and pointer-map pages, then the freelist, then the pages of    *)
(* sqlite_schema, then those of each object it names.  It reads files that  *)
(* may be damaged, so a walk guards against pointers that leave the file    *)
(* and pointers that come round.                                            *)
(*                                                                          *)
(* A page is what the walk reads of it: the b-tree type byte, the right     *)
(* pointer and the cells if it is a b-tree page; the first four bytes as a  *)
(* page number, and the leaf numbers, if it is an overflow or trunk page.   *)
(* A cell has a left child (interior pages), the page numbers of its        *)
(* overflow chain start at "chain" and its payload needs "need" of them; a  *)
(* cell of the schema tree holds a row.  A cell outside its page or cut off *)
(* is one that needs a chain and has none.                                  *)
EXTENDS Naturals, Sequences, SequencesExt, FiniteSets

CONSTANTS
    PageCount,    \* number of pages
    Names,        \* names of objects: numbers, in the order names sort
    Schema,       \* the name sqlite_schema
    NoName,       \* a schema record that cannot be decoded
    Files,        \* the databases: the pages and the first trunk page
    LockByte,     \* the lock-byte page, if the file has one
    PtrMap        \* the pointer-map pages

Pgno == 1 .. PageCount

ASSUME SizeAssumption == PageCount \in Nat \ {0}
ASSUME NamesAssumption == Names \subseteq Nat /\ NoName \notin Names
(* A pointer of a page that has no place for one is the empty sequence. *)
Pointers == {pointer \in Seq(Nat) : Len(pointer) <= 1}

Row == [name : Names \cup {NoName}, root : Nat]

Cell == [left : Pointers, chain : Nat, need : Nat, row : Row]

Page == [type : {"table", "index", "other"}, right : Pointers, cells : Seq(Cell),
         next : Nat, leaves : Seq(Nat)]

(* Interior pages have a right pointer, leaves have no pointers to children. *)
ASSUME FilesAssumption ==
    \A f \in Files :
        /\ f.pages \in [Pgno -> Page]
        /\ f.freelist \in Nat
        /\ \A p \in Pgno : f.pages[p].right = <<>> =>
               \A i \in DOMAIN f.pages[p].cells : f.pages[p].cells[i].left = <<>>

ASSUME ReservedAssumption == LockByte \cup PtrMap \subseteq Pgno

VARIABLES
    file,       \* the database that is read
    phase,      \* "free", "schema", "read", "next", "object", "done" or "error"
    map,        \* the owner of each page so far
    trunk,      \* the next page of the trunk chain
    guard,      \* pages read by a loop that counts them
    owner,      \* the object whose b-tree is walked
    stack,      \* pages still to visit
    cells,      \* cells of the current page still to visit
    visited,    \* pages seen in this walk
    btree,      \* b-tree pages found in this walk
    overflow,   \* overflow pages found in this walk
    rows        \* objects still to walk

walk == <<owner, stack, cells, visited, btree, overflow>>
vars == <<file, phase, map, trunk, guard, walk, rows>>

pages == file.pages

Kinds == {"unattributed", "lockbyte", "ptrmap", "freelist"}

Owners == {<<kind>> : kind \in Kinds}
          \cup ({"btree", "overflow"} \X (Names \cup {Schema}))

TypeOK ==
    /\ file \in Files
    /\ phase \in {"free", "schema", "read", "next", "object", "done", "error"}
    /\ map \in [Pgno -> Owners]
    /\ guard \in 0 .. PageCount
    /\ owner \in Names \cup {Schema}
    /\ visited \subseteq Pgno /\ btree \subseteq Pgno /\ overflow \subseteq Pgno

Reserved(p) == IF p \in PtrMap THEN <<"ptrmap">>
               ELSE IF p \in LockByte THEN <<"lockbyte">> ELSE <<"unattributed">>

Init ==
    /\ file \in Files
    /\ phase = "free"
    /\ map = [p \in Pgno |-> Reserved(p)]
    /\ trunk = file.freelist
    /\ guard = 0
    /\ owner = Schema
    /\ stack = <<>> /\ cells = <<>>
    /\ visited = {} /\ btree = {} /\ overflow = {}
    /\ rows = <<>>

Fail == phase' = "error" /\ UNCHANGED <<file, map, trunk, guard, walk, rows>>

---------------------------------------------------------------------------
(* freelist_pages.                                                          *)

(* Mutant: the trunk pages are not counted. *)
BugFreeTrunk ==
    /\ phase = "free"
    /\ trunk # 0
    /\ trunk \in Pgno
    /\ ToSet(pages[trunk].leaves) \subseteq Pgno
    /\ map' = [map EXCEPT ![trunk] = <<"freelist">>]
    /\ trunk' = pages[trunk].next
    /\ UNCHANGED <<file, phase, guard, walk, rows>>

FreeTrunk ==
    /\ phase = "free"
    /\ trunk # 0
    /\ trunk \in Pgno
    /\ guard < PageCount
    /\ ToSet(pages[trunk].leaves) \subseteq Pgno
    /\ guard' = guard + 1
    /\ map' = [p \in Pgno |-> IF p \in {trunk} \cup ToSet(pages[trunk].leaves)
                              THEN <<"freelist">> ELSE map[p]]
    /\ trunk' = pages[trunk].next
    /\ UNCHANGED <<file, phase, walk, rows>>

(* A trunk outside the file, one trunk more than there are pages, or a leaf *)
(* outside the file (or more leaves than a page can list).                  *)
FreeBad ==
    /\ phase = "free"
    /\ trunk # 0
    /\ \/ trunk \notin Pgno
       \/ guard = PageCount
       \/ trunk \in Pgno /\ ~ ToSet(pages[trunk].leaves) \subseteq Pgno
    /\ Fail

---------------------------------------------------------------------------
(* walk_btree and collect_overflow.                                         *)

(* The walk of the schema, or of one of its objects. *)
Walking == phase \in {"schema", "object"}

BeginWalk(name, root) ==
    /\ owner' = name
    /\ stack' = <<root>>
    /\ cells' = <<>>
    /\ visited' = {} /\ btree' = {} /\ overflow' = {}

FreeDone ==
    /\ phase = "free"
    /\ trunk = 0
    /\ phase' = "schema"
    /\ BeginWalk(Schema, 1)
    /\ UNCHANGED <<file, map, trunk, guard, rows>>

(* The pages of a cell's overflow chain, as far as its payload needs them.  *)
Chain(f, cell) ==
    LET link[i \in Nat] ==
            IF i = 1 THEN cell.chain
            ELSE IF link[i - 1] \in Pgno THEN f.pages[link[i - 1]].next ELSE 0
    IN  [i \in 1 .. cell.need |-> link[i]]

(* Mutant: overflow pages are not looked up. *)
BugPopFinds(p) == p \in Pgno /\ p \notin btree /\ pages[p].type # "other"

PopFinds(p) == p \in Pgno /\ p \notin visited /\ pages[p].type # "other"

PopPage ==
    /\ Walking
    /\ cells = <<>>
    /\ stack # <<>>
    /\ PopFinds(Last(stack))
    /\ visited' = visited \cup {Last(stack)}
    /\ btree' = btree \cup {Last(stack)}
    /\ stack' = Front(stack) \o pages[Last(stack)].right
    /\ cells' = pages[Last(stack)].cells
    /\ UNCHANGED <<file, phase, map, trunk, guard, owner, overflow, rows>>

PopBad ==
    /\ Walking
    /\ cells = <<>>
    /\ stack # <<>>
    /\ ~ PopFinds(Last(stack))
    /\ Fail

ChainFound(chain) ==
    /\ ToSet(chain) \subseteq Pgno \ visited
    /\ IsInjective(chain)

(* Mutant: the left children are forgotten. *)
BugVisitCell ==
    /\ Walking
    /\ cells # <<>>
    /\ LET chain == Chain(file, Head(cells)) IN
           /\ visited' = visited \cup ToSet(chain)
           /\ overflow' = overflow \cup ToSet(chain)
    /\ cells' = Tail(cells)
    /\ UNCHANGED <<file, phase, map, trunk, guard, owner, stack, btree, rows>>

VisitCell ==
    /\ Walking
    /\ cells # <<>>
    /\ LET chain == Chain(file, Head(cells)) IN
           /\ ChainFound(chain)
           /\ visited' = visited \cup ToSet(chain)
           /\ overflow' = overflow \cup ToSet(chain)
    /\ stack' = stack \o Head(cells).left
    /\ cells' = Tail(cells)
    /\ UNCHANGED <<file, phase, map, trunk, guard, owner, btree, rows>>

CellBad ==
    /\ Walking
    /\ cells # <<>>
    /\ ~ ChainFound(Chain(file, Head(cells)))
    /\ Fail

(* The walk is over: its pages are claimed for the object. *)
Claim ==
    /\ Walking
    /\ cells = <<>>
    /\ stack = <<>>
    /\ map' = [p \in Pgno |-> IF p \in overflow THEN <<"overflow", owner>>
                              ELSE IF p \in btree THEN <<"btree", owner>>
                              ELSE map[p]]
    /\ IF phase = "schema"
       THEN phase' = "read" /\ stack' = <<1>> /\ guard' = 0
       ELSE phase' = "next" /\ UNCHANGED <<stack, guard>>
    /\ UNCHANGED <<file, trunk, owner, cells, visited, btree, overflow, rows>>

---------------------------------------------------------------------------
(* read_schema.                                                             *)

Lefts(f, p) == FlattenSeq([i \in DOMAIN f.pages[p].cells |-> f.pages[p].cells[i].left])

(* A page can be read as one of the schema table; the payload of each cell  *)
(* can be assembled (read_cell_payload), and its record decoded.            *)
SchemaPage(p) ==
    /\ p \in Pgno
    /\ pages[p].type = "table"
    /\ pages[p].right = <<>> =>
           \A i \in DOMAIN pages[p].cells :
               /\ ToSet(Chain(file, pages[p].cells[i])) \subseteq Pgno
               /\ pages[p].cells[i].row.name # NoName

(* Views and triggers have no root page. *)
OwnsTree(row) == row.root # 0

(* The rows of a leaf whose objects have one. *)
Owned(f, p) ==
    FlattenSeq([i \in DOMAIN f.pages[p].cells |->
                   IF OwnsTree(f.pages[p].cells[i].row)
                   THEN <<f.pages[p].cells[i].row>> ELSE <<>>])

ReadPage ==
    /\ phase = "read"
    /\ stack # <<>>
    /\ guard < PageCount
    /\ SchemaPage(Last(stack))
    /\ guard' = guard + 1
    /\ LET p == Last(stack) IN
           IF pages[p].right = <<>>
           THEN /\ rows' = rows \o Owned(file, p)
                /\ stack' = Front(stack)
           ELSE /\ stack' = Front(stack) \o pages[p].right \o Lefts(file, p)
                /\ UNCHANGED rows
    /\ UNCHANGED <<file, phase, map, trunk, owner, cells, visited, btree, overflow>>

ReadBad ==
    /\ phase = "read"
    /\ stack # <<>>
    /\ guard = PageCount \/ ~ SchemaPage(Last(stack))
    /\ Fail

ReadDone ==
    /\ phase = "read"
    /\ stack = <<>>
    /\ phase' = "next"
    /\ UNCHANGED <<file, map, trunk, guard, walk, rows>>

---------------------------------------------------------------------------
(* The loop of attribute_pages over the objects, sorted by name.            *)

First(i) == \A j \in DOMAIN rows : \/ rows[i].name < rows[j].name
                                   \/ rows[i].name = rows[j].name /\ i <= j

NextObject ==
    /\ phase = "next"
    /\ phase' = "object"
    /\ \E i \in DOMAIN rows :
           /\ First(i)
           /\ BeginWalk(rows[i].name, rows[i].root)
           /\ rows' = RemoveAt(rows, i)
    /\ UNCHANGED <<file, map, trunk, guard>>

AllDone ==
    /\ phase = "next"
    /\ rows = <<>>
    /\ phase' = "done"
    /\ UNCHANGED <<file, map, trunk, guard, walk, rows>>

Next ==
    \/ FreeTrunk \/ FreeBad \/ FreeDone
    \/ PopPage \/ PopBad \/ VisitCell \/ CellBad \/ Claim
    \/ ReadPage \/ ReadBad \/ ReadDone
    \/ NextObject \/ AllDone

Spec == Init /\ [][Next]_vars

(* A sequential program that goes on as long as it can. *)
FairSpec == Spec /\ WF_vars(Next)

---------------------------------------------------------------------------
(* What the walks should find, by reachability over the whole file.         *)

(* The pointers to children on some pages: a page and 0 for its right       *)
(* pointer, or the number of the cell.                                      *)
Down(f, p, i) == IF i = 0 THEN f.pages[p].right ELSE f.pages[p].cells[i].left

Slots(f, P) ==
    UNION {{<<p, i>> : i \in {j \in 0 .. Len(f.pages[p].cells) : Down(f, p, j) # <<>>}} :
              p \in P \cap Pgno}

Target(f, slot) == Down(f, slot[1], slot[2])[1]

Closed(f, P) == \A s \in Slots(f, P) : Target(f, s) \in P

(* The pages reached from a root, those outside the file included: the      *)
(* least set that has the root and is closed.                               *)
Tree(f, root) ==
    LET all == {root} \cup {Target(f, s) : s \in Slots(f, Pgno)}
    IN  {p \in all : \A P \in SUBSET all : root \in P /\ Closed(f, P) => p \in P}

(* Every link of every overflow chain of some pages, and the page it names. *)
Links(f, P) ==
    UNION {UNION {{<<p, i, j>> : j \in 1 .. f.pages[p].cells[i].need} :
                     i \in DOMAIN f.pages[p].cells} : p \in P \cap Pgno}

Linked(f, link) == Chain(f, f.pages[link[1]].cells[link[2]])[link[3]]

(* The pages form a tree: no pointer leaves the file or leads to a page     *)
(* twice, and chains are as long as their payloads need and on pages of     *)
(* their own.                                                               *)
ProperTree(f, root) ==
    LET tree == Tree(f, root) IN
    /\ \A p \in tree : p \in Pgno /\ f.pages[p].type # "other"
    /\ \A s \in Slots(f, tree) : Target(f, s) # root
    /\ \A s, t \in Slots(f, tree) : Target(f, s) = Target(f, t) => s = t
    /\ \A k \in Links(f, tree) : Linked(f, k) \in Pgno \ tree
    /\ \A k, l \in Links(f, tree) : Linked(f, k) = Linked(f, l) => k = l

(* The n-th trunk page, for as long as the chain stays in the file. *)
Trunks(f) ==
    LET link[n \in 0 .. PageCount] ==
            IF n = 0 THEN f.freelist
            ELSE IF link[n - 1] \in Pgno THEN f.pages[link[n - 1]].next ELSE link[n - 1]
    IN  link

(* A trunk page and its leaves. *)
Freed(f, t) == {t} \cup ToSet(f.pages[t].leaves)

FreePages(f) == UNION {Freed(f, t) : t \in ToSet(Trunks(f)) \cap Pgno}

SchemaLeaves(f) == {p \in Tree(f, 1) \cap Pgno : f.pages[p].right = <<>>}

SchemaRows(f) ==
    UNION {{cell.row : cell \in ToSet(f.pages[p].cells)} : p \in SchemaLeaves(f)}

(* The objects with a b-tree, the schema among them. *)
Objects(f) ==
    {[name |-> Schema, root |-> 1]} \cup {row \in SchemaRows(f) : OwnsTree(row)}

SoundFile(f) ==
    /\ Trunks(f)[PageCount] = 0
    /\ FreePages(f) \subseteq Pgno
    /\ \A p \in Tree(f, 1) \cap Pgno : f.pages[p].type = "table"
    /\ \A row \in SchemaRows(f) : row.name # NoName
    /\ \A object \in Objects(f) : ProperTree(f, object.root)

Claims(f, p, object) ==
    {c \in {<<"btree", object.name>>} : p \in Tree(f, object.root)} \cup
    {c \in {<<"overflow", object.name>>} :
        \E k \in Links(f, Tree(f, object.root)) : Linked(f, k) = p}

---------------------------------------------------------------------------
(* A file is rejected exactly when it is damaged where the walks read it: a *)
(* tree or a chain that leaves the file, comes round, shares a page with    *)
(* itself or is too short never passes, and no sound file is refused (the   *)
(* guards of walk_btree, collect_overflow, read_schema, freelist_pages).    *)
AcceptsExactlySound ==
    /\ phase = "done"  => SoundFile(file)
    /\ phase = "error" => ~ SoundFile(file)

(* A page that trees claim goes to one of them; the others go to the        *)
(* freelist, to what is reserved there, or to nobody (PageKind: "not        *)
(* reachable from the schema, the freelist or the header").                 *)
AttributionExact ==
    phase = "done" =>
        \A p \in Pgno :
            LET claims == UNION {Claims(file, p, object) : object \in Objects(file)} IN
            IF claims # {} THEN map[p] \in claims
            ELSE map[p] = IF p \in FreePages(file) THEN <<"freelist">> ELSE Reserved(p)

(* read_schema keeps no set of visited pages, it only counts: that is       *)
(* enough because it reads the pages walk_btree has just found to form a    *)
(* tree.                                                                    *)
SchemaReadRepeatsWalk ==
    phase = "read" /\ stack # <<>> => Last(stack) \in btree /\ guard < PageCount

(* Attribution ends on every file, whatever its pointers: "an error, never  *)
(* an infinite loop" (walk_btree).                                          *)
AttributionEnds == <>(phase \in {"done", "error"})
=============================================================================
