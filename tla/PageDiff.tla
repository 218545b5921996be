------------------------------ MODULE PageDiff ------------------------------
(* What differs between two states of a database, page by page, and whose   *)
(* pages they are: src/diff.rs, and what status and tables in src/cli.rs    *)
(* make of it.  A state is a page size, the hashes of its pages and the     *)
(* owner attribute_pages found for each of them (module Btree): a kind of   *)
(* page and the name of an object, or Nobody.                               *)
EXTENDS Naturals, Sequences, SequencesExt, FiniteSetsExt

CONSTANT Nobody

Changes == {"changed", "added", "removed"}

Delta(p, change) == [pgno |-> p, change |-> change]

(* sort_by_key, for deltas of different pages. *)
ByPage(deltas) ==
    [i \in 1 .. Cardinality(deltas) |->
       CHOOSE d \in deltas : Cardinality({e \in deltas : e.pgno <= d.pgno}) = i]

(* Mutant: only the pages both states have are compared. *)
BugDiffHashes(old, new) ==
    ByPage({Delta(i, "changed") : i \in {i \in DOMAIN old \cap DOMAIN new : old[i] # new[i]}})

(* Pages in both states, then those behind the end of either; sorted. *)
Deltas(old, new) ==
    LET common == Min({Len(old), Len(new)})
    IN  {Delta(i, "changed") : i \in {i \in 1 .. common : old[i] # new[i]}}
        \cup {Delta(i, "added") : i \in common + 1 .. Len(new)}
        \cup {Delta(i, "removed") : i \in common + 1 .. Len(old)}

DiffHashes(old, new) == ByPage(Deltas(old, new))

(* owner_label: the object for its own pages, else the kind in parentheses. *)
OwnerLabel(owner) ==
    IF owner.kind \in {"btree", "overflow"} /\ owner.name # Nobody
    THEN owner.name ELSE "(" \o owner.kind \o ")"

(* Mutant: removed pages are looked up in the new state as well. *)
BugOwnerOf(delta, old, new) ==
    IF delta.pgno \in DOMAIN new.owners THEN OwnerLabel(new.owners[delta.pgno])
    ELSE "(unattributed)"

(* Whose page a delta is: that of the state the page is in, the new one if  *)
(* it is in both.                                                           *)
OwnerOf(delta, old, new) ==
    IF delta.change # "removed" /\ delta.pgno \in DOMAIN new.owners
    THEN OwnerLabel(new.owners[delta.pgno])
    ELSE IF delta.pgno \in DOMAIN old.owners THEN OwnerLabel(old.owners[delta.pgno])
    ELSE "(unattributed)"

Count(deltas, label, change, old, new) ==
    Cardinality({i \in DOMAIN deltas : /\ OwnerOf(deltas[i], old, new) = label
                                       /\ deltas[i].change = change})

Rollup(deltas, old, new) ==
    [label \in {OwnerOf(deltas[i], old, new) : i \in DOMAIN deltas} |->
       [c \in Changes |-> Count(deltas, label, c, old, new)]]

(* attribute_pages starts at page 1. *)
Attributable(state) == state.hashes # << >>

(* diff_sources: the report, or nothing if the page sizes differ or a state *)
(* has no pages.                                                            *)
DiffSources(old, new) ==
    LET deltas == DiffHashes(old.hashes, new.hashes)
    IN  IF old.size # new.size \/ ~ Attributable(old) \/ ~ Attributable(new) THEN {}
        ELSE {[deltas |-> deltas, byOwner |-> Rollup(deltas, old, new)]}

(* cmd_status: the file against HEAD's snapshot, if there is one; a state   *)
(* id stands for the page size and the hashes.                              *)
Status(head, file) ==
    [dirty   |-> \A h \in head : <<h.size, h.hashes>> # <<file.size, file.hashes>>,
     changed |-> IF head = {} THEN Len(file.hashes)
                 ELSE LET h == CHOOSE h \in head : TRUE
                      IN  Len(DiffHashes(h.hashes, file.hashes))]

(* Pages of each label, by role. *)
TableRows(state) ==
    LET role(p) == IF state.owners[p].kind \in {"btree", "overflow"}
                   THEN state.owners[p].kind ELSE "other"
        label(p) == OwnerLabel(state.owners[p])
    IN  [l \in {label(p) : p \in DOMAIN state.owners} |->
           [r \in {"btree", "overflow", "other"} |->
              Cardinality({p \in DOMAIN state.owners : label(p) = l /\ role(p) = r})]]

(* print_tables: the table, or nothing of a state without pages. *)
PrintTables(state) == IF Attributable(state) THEN {TableRows(state)} ELSE {}
=============================================================================
