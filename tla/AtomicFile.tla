----------------------------- MODULE AtomicFile -----------------------------
(* One object or manifest of the store, at the level of inodes: the         *)
(* temp-file-and-rename protocol of Store::write_object and                 *)
(* Store::write_manifest, its readers, gc's removal and killed processes.   *)
(*                                                                          *)
(* The temporary name is derived from the final one (with_extension("tmp")),*)
(* so all writers of one file share it.  Creating it truncates the inode    *)
(* another writer may still have open, and each writer writes at its own    *)
(* offset.                                                                  *)
EXTENDS Naturals, Sequences, SequencesExt

CONSTANTS
    Writers, Readers, Inodes,
    None,           \* no inode
    Hole,           \* a byte range never written: reads as zeros
    Text,           \* what each writer writes, as a sequence of chunks
    SkipExisting,   \* write_object returns early when the path exists
    MayRemove,      \* gc removes the file
    MayCrash        \* processes are killed

ASSUME InodesAssumption == None \notin Inodes
ASSUME TextAssumption ==
    \A w \in Writers : /\ Text[w] \in Seq(ToSet(Text[w])) /\ Len(Text[w]) > 0
                       /\ ~ Contains(Text[w], Hole)
ASSUME ProcessesAssumption == Writers \cap Readers = {}

VARIABLES
    path,    \* the inode the final name stands for
    tmp,     \* the inode the temporary name stands for
    data,    \* the content of each inode
    pc,      \* what each writer does next, or how it ended
    fd,      \* the inode each writer or reader has open
    off,     \* the offset of each writer
    got      \* what each reader has read: a content, or None

vars == <<path, tmp, data, pc, fd, off, got>>

Chunks == UNION {ToSet(Text[w]) : w \in Writers}

TypeOK ==
    /\ {path, tmp} \subseteq Inodes \cup {None}
    /\ data \in [Inodes -> Seq(Chunks \cup {Hole})]
    /\ pc \in [Writers -> {"idle", "create", "write", "rename", "ok", "err"}]
    /\ fd \in [Writers \cup Readers -> Inodes \cup {None}]
    /\ \A w \in Writers : fd[w] # None <=> pc[w] \in {"write", "rename"}
    /\ off \in [Writers -> Nat] /\ \A w \in Writers : off[w] <= Len(Text[w])
    /\ DOMAIN got = Readers

Init ==
    /\ path = None /\ tmp = None
    /\ data = [i \in Inodes |-> <<>>]
    /\ pc = [w \in Writers |-> "idle"]
    /\ fd = [p \in Writers \cup Readers |-> None]
    /\ off = [w \in Writers |-> 0]
    /\ got = [r \in Readers |-> None]

Unused == {i \in Inodes : i \notin {path, tmp} /\ \A p \in DOMAIN fd : fd[p] # i}

Whole(i) == \E w \in Writers : data[i] = Text[w]

(* What a write of chunk c at offset o makes of a content. *)
Patched(content, o, c) ==
    [n \in 1 .. (IF Len(content) > o THEN Len(content) ELSE o + 1) |->
        IF n = o + 1 THEN c ELSE IF n <= Len(content) THEN content[n] ELSE Hole]

(* The call returns; its file is closed. *)
End(w, result) ==
    /\ pc' = [pc EXCEPT ![w] = result]
    /\ fd' = [fd EXCEPT ![w] = None]
    /\ off' = [off EXCEPT ![w] = 0]

---------------------------------------------------------------------------
(* Writers.                                                                 *)

(* Mutant: the file is created under its final name. *)
BugCreate(w) ==
    /\ pc[w] = "create"
    /\ \E i \in IF path = None THEN Unused ELSE {path} :
           /\ path' = i
           /\ tmp' = i
           /\ data' = [data EXCEPT ![i] = <<>>]
           /\ fd' = [fd EXCEPT ![w] = i]
    /\ pc' = [pc EXCEPT ![w] = "write"]
    /\ UNCHANGED <<off, got>>

(* The exists check.  A call that ended may be followed by another.         *)
Check(w) ==
    /\ pc[w] \in {"idle", "ok", "err"}
    /\ IF SkipExisting /\ path # None
       THEN End(w, "ok")
       ELSE pc' = [pc EXCEPT ![w] = "create"] /\ UNCHANGED <<fd, off>>
    /\ UNCHANGED <<path, tmp, data, got>>

(* File::create: truncates the temporary file if there is one. *)
Create(w) ==
    /\ pc[w] = "create"
    /\ \E i \in IF tmp = None THEN Unused ELSE {tmp} :
           /\ tmp' = i
           /\ data' = [data EXCEPT ![i] = <<>>]
           /\ fd' = [fd EXCEPT ![w] = i]
    /\ pc' = [pc EXCEPT ![w] = "write"]
    /\ UNCHANGED <<path, off, got>>

(* Mutant: the rename follows the first write, complete or not. *)
BugWriteChunk(w) ==
    /\ pc[w] = "write"
    /\ data' = [data EXCEPT ![fd[w]] = Patched(@, off[w], Text[w][off[w] + 1])]
    /\ pc' = [pc EXCEPT ![w] = "rename"]
    /\ UNCHANGED <<path, tmp, fd, off, got>>

WriteChunk(w) ==
    /\ pc[w] = "write"
    /\ off[w] < Len(Text[w])
    /\ data' = [data EXCEPT ![fd[w]] = Patched(@, off[w], Text[w][off[w] + 1])]
    /\ off' = [off EXCEPT ![w] = @ + 1]
    /\ pc' = [pc EXCEPT ![w] = IF off'[w] = Len(Text[w]) THEN "rename" ELSE "write"]
    /\ UNCHANGED <<path, tmp, fd, got>>

(* rename fails when another writer has taken the temporary name away. *)
Rename(w) ==
    /\ pc[w] = "rename"
    /\ \/ tmp # None /\ path' = tmp /\ tmp' = None /\ End(w, "ok")
       \/ tmp = None /\ UNCHANGED <<path, tmp>> /\ End(w, "err")
    /\ UNCHANGED <<data, got>>

---------------------------------------------------------------------------
(* Readers, gc and failures.                                                *)

ReadOpen(r) ==
    /\ fd[r] = None
    /\ path # None
    /\ fd' = [fd EXCEPT ![r] = path]
    /\ got' = [got EXCEPT ![r] = None]
    /\ UNCHANGED <<path, tmp, data, pc, off>>

ReadAll(r) ==
    /\ fd[r] # None
    /\ got' = [got EXCEPT ![r] = data[fd[r]]]
    /\ fd' = [fd EXCEPT ![r] = None]
    /\ UNCHANGED <<path, tmp, data, pc, off>>

Unlink ==
    /\ MayRemove
    /\ path # None
    /\ path' = None
    /\ UNCHANGED <<tmp, data, pc, fd, off, got>>

Crash(w) ==
    /\ MayCrash
    /\ pc[w] \in {"create", "write", "rename"}
    /\ End(w, "idle")
    /\ UNCHANGED <<path, tmp, data, got>>

Write(w) == Check(w) \/ Create(w) \/ WriteChunk(w) \/ Rename(w)

Next ==
    \/ \E w \in Writers : Write(w) \/ Crash(w)
    \/ \E r \in Readers : ReadOpen(r) \/ ReadAll(r)
    \/ Unlink

Spec == Init /\ [][Next]_vars

---------------------------------------------------------------------------
(* A read of an object or manifest returns a text some writer wrote, never  *)
(* a part of one or a mixture ("a concurrent reader never sees a truncated  *)
(* object", Store::write_object).                                           *)
ReadsWhole == \A r \in Readers : got[r] = None \/ \E w \in Writers : got[r] = Text[w]

(* The protocol implements the promise made of it: each step of a writer,   *)
(* killed or not, leaves the file as it was or makes it whole.              *)
Promise == INSTANCE WholeFile WITH
    file <- IF path = None THEN "absent" ELSE IF Whole(path) THEN "whole" ELSE "torn"

ImplementsWholeFile == Promise!Spec

(* An object is whole when write_object returns Ok, whatever killed writers *)
(* have left behind: re-running snap completes what was interrupted         *)
(* ("objects are re-creatable from the database file by re-running snap",   *)
(* Store::write_object).                                                    *)
OkMeansWhole ==
    [][\A w \in Writers :
           pc'[w] = "ok" /\ pc[w] # "ok" => path' # None /\ Whole(path)']_vars
=============================================================================
