-------------------------------- MODULE Refs --------------------------------
(* The names of litegraft: branches as files under refs/heads, where a      *)
(* slash makes a directory, next to ids and their prefixes (the refs part   *)
(* of src/store.rs, and what snap, branch and checkout do with a ref).      *)
(* Commands run one at a time here; Litegraft interleaves them.             *)
EXTENDS Naturals, Sequences, SequencesExt

CONSTANTS
    Typed,       \* refs that users type: texts, split at their slashes
    Ids,         \* ids of snapshots: texts of one length
    HexDigits,
    MinPrefix,   \* length of the shortest prefix that is looked up: 4
    Main         \* the branch of a new store

ASSUME TypedAssumption == \A ref \in Typed : ref # << >> /\ ref \in Seq(Range(ref))
ASSUME IdsAssumption ==
    /\ Ids \subseteq Seq(HexDigits)
    /\ \A s, t \in Ids : Len(s) = Len(t)
    /\ MinPrefix \in Nat /\ \A s \in Ids : Len(s) >= MinPrefix

VARIABLES
    files,   \* refs/heads: the id in each branch file
    dirs,    \* the directories under refs/heads
    snaps,   \* the snapshots
    head     \* what HEAD names: a branch as it was typed, or a full id

vars == <<files, dirs, snaps, head>>

IsHex(text) == \A i \in DOMAIN text : text[i] \in HexDigits

LooksLikeId(ref) ==
    Len(ref) = 1 /\ IsHex(ref[1]) /\ \A s \in Ids : Len(s) = Len(ref[1])

(* Mutant: a name may look like an id. *)
BugValid(ref) ==
    /\ ref[1] # << >> /\ ref[1][1] \notin {"-", "."}
    /\ Last(ref) # << >>
    /\ \A c \in Range(ref) : \A i \in 1 .. Len(c) - 1 : <<c[i], c[i + 1]>> # <<".", ".">>

(* validate_branch_name, on characters that are allowed: no slash, dash or  *)
(* dot in front, no slash behind, nowhere two dots, no id.                  *)
Valid(ref) ==
    /\ ref[1] # << >> /\ ref[1][1] \notin {"-", "."}
    /\ Last(ref) # << >>
    /\ \A c \in Range(ref) : \A i \in 1 .. Len(c) - 1 : <<c[i], c[i + 1]>> # <<".", ".">>
    /\ ~LooksLikeId(ref)

(* Where the file system looks: "" and "." go nowhere. *)
Nowhere == {<< >>, <<".">>}

Path(ref) ==
    LET walked[n \in 0 .. Len(ref)] ==
            IF n = 0 THEN << >>
            ELSE IF ref[n] \in Nowhere THEN walked[n - 1]
            ELSE Append(walked[n - 1], ref[n])
    IN  walked[Len(ref)]

Parents(path) == {SubSeq(path, 1, n) : n \in 1 .. Len(path) - 1}

(* "a/." asks for a directory. *)
EndsInDot(ref) == Last(ref) = <<".">>

ASSUME MainAssumption == Main \in Typed /\ Valid(Main) /\ ~EndsInDot(Main)

Paths == {Path(ref) : ref \in Typed}

IsFile(path) == path \in DOMAIN files

(* What opening the path of a name finds. *)
Found(name) ==
    LET path == Path(name)
    IN  IF \/ \E p \in Parents(path) : IsFile(p)
           \/ IsFile(path) /\ EndsInDot(name) THEN "not a directory"
        ELSE IF path \in dirs THEN "directory"
        ELSE IF IsFile(path) THEN "file" ELSE "nothing"

BranchExists(name) == Valid(name) /\ Found(name) \in {"file", "directory"}

---------------------------------------------------------------------------
(* Store::resolve: the id a ref names, if any.                              *)

WithPrefix(text) == {s \in snaps : Len(text) <= Len(s) /\ SubSeq(s, 1, Len(text)) = text}

(* A full id, or the only one with a prefix. *)
ById(r) ==
    IF /\ Len(r) = 1 /\ IsHex(r[1]) /\ Len(r[1]) >= MinPrefix
       /\ \A s, t \in WithPrefix(r[1]) : s = t
    THEN WithPrefix(r[1]) ELSE {}

(* Mutant: ids come before branches. *)
BugIdsFirst(r) ==
    IF ById(r) # {} THEN ById(r)
    ELSE IF Valid(r) /\ Found(r) = "file" THEN {files[Path(r)]} ELSE {}

(* Mutant: whatever keeps a branch file from being read, there is no branch. *)
BugResolve(r) ==
    IF Valid(r) /\ Found(r) = "file" THEN {files[Path(r)]} ELSE ById(r)

(* branch_head tells no file from a file that cannot be read; the latter is *)
(* an error, not a ref to be looked up elsewhere.                           *)
Resolve(r) ==
    IF ~Valid(r) \/ Found(r) = "nothing" THEN ById(r)
    ELSE IF Found(r) = "file" THEN {files[Path(r)]} ELSE {}

---------------------------------------------------------------------------
TypeOK ==
    /\ snaps \subseteq Ids
    /\ DOMAIN files \subseteq Paths
    /\ \A p \in DOMAIN files : files[p] \in snaps /\ Parents(p) \subseteq dirs /\ p \notin dirs
    /\ \A d \in dirs : Parents(d) \subseteq dirs
    /\ head \in Typed \cup {<<s>> : s \in Ids}

Init ==
    /\ files = << >> /\ dirs = {} /\ snaps = {}
    /\ head = Main

OnBranch == Valid(head)

(* set_branch; it fails where a file should be a directory or the other way *)
(* round.                                                                   *)
SetBranch(name, id) ==
    /\ Found(name) \in {"file", "nothing"} /\ ~EndsInDot(name)
    /\ dirs' = dirs \cup Parents(Path(name))
    /\ files' = [p \in DOMAIN files \cup {Path(name)} |-> IF p = Path(name) THEN id ELSE files[p]]

(* snap: the head of the branch must be readable or absent. *)
SnapReady == OnBranch /\ Found(head) \in {"file", "nothing"}

Snap(id) ==
    /\ SnapReady
    /\ SetBranch(head, id)
    /\ snaps' = snaps \cup {id}
    /\ UNCHANGED head

(* Killed between the manifest and the branch. *)
SnapKilled(id) ==
    /\ SnapReady
    /\ snaps' = snaps \cup {id}
    /\ UNCHANGED <<files, dirs, head>>

(* Mutant: an existing branch is moved. *)
BugBranch(name, r) ==
    /\ Valid(name)
    /\ \E id \in Resolve(r) : SetBranch(name, id)
    /\ UNCHANGED <<snaps, head>>

(* cmd_branch, from --at r or from HEAD, which names what is typed or an id. *)
Branch(name, r) ==
    /\ Valid(name) /\ ~BranchExists(name)
    /\ \E id \in Resolve(r) : SetBranch(name, id)
    /\ UNCHANGED <<snaps, head>>

(* Killed between the directories and the file. *)
BranchKilled(name, r) ==
    /\ Valid(name) /\ ~BranchExists(name) /\ Resolve(r) # {}
    /\ \A p \in Parents(Path(name)) : ~IsFile(p)
    /\ dirs' = dirs \cup Parents(Path(name))
    /\ UNCHANGED <<files, snaps, head>>

(* cmd_checkout: the ref is resolved, then asked whether it is a branch. *)
Checkout(r) ==
    /\ \E id \in Resolve(r) : head' = IF BranchExists(r) THEN r ELSE <<id>>
    /\ UNCHANGED <<files, dirs, snaps>>

Next ==
    \/ \E id \in Ids : Snap(id) \/ SnapKilled(id)
    \/ \E name, r \in Typed : Branch(name, r) \/ BranchKilled(name, r)
    \/ \E r \in Typed : Checkout(r)

Spec == Init /\ [][Next]_vars

---------------------------------------------------------------------------
(* What the listings print can be typed back and means what is printed      *)
(* beside it: every branch under its path, however it was spelled when it   *)
(* was created, and every snapshot under its full id, which no branch hides *)
(* ("not all-hex-64 (would shadow snapshot ids)", src/store.rs).            *)
ListedResolves ==
    /\ \A p \in DOMAIN files : Valid(p) /\ Resolve(p) = {files[p]}
    /\ \A s \in snaps : Resolve(<<s>>) = {s}

(* HEAD is a saved id or a branch that has a file; only the first branch    *)
(* may still have none.  (A checkout asks twice what a ref is: resolve by   *)
(* reading, branch_exists by the path.)                                     *)
HeadNamesBranch ==
    \/ OnBranch /\ Found(head) = "file"
    \/ head = Main /\ ~IsFile(Path(Main))
    \/ head \in {<<s>> : s \in snaps}

(* No command takes a branch away or moves it, under any of its spellings,  *)
(* but a snap on it.                                                        *)
NothingOverwritten ==
    [][\A p \in DOMAIN files :
         /\ p \in DOMAIN files'
         /\ files'[p] # files[p] => OnBranch /\ p = Path(head) /\ UNCHANGED head]_vars

(* A ref that means one snapshot never silently comes to mean another: only *)
(* the name of the branch that a snap moves, or that is created, does.  New *)
(* snapshots make a prefix ambiguous and new directories make a name fail.  *)
NeverRetargets ==
    [][\A r \in Typed : Resolve(r) # {} /\ Resolve(r)' # {} /\ Resolve(r)' # Resolve(r)
         => \/ OnBranch /\ Path(r) = Path(head)
            \/ Valid(r) /\ Path(r) \in (DOMAIN files') \ DOMAIN files]_vars
=============================================================================
