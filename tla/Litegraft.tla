----------------------------- MODULE Litegraft -----------------------------
(* The litegraft store and the commands that run on it.                     *)
(*                                                                          *)
(* Every command is one process of the operating system.  The code takes no *)
(* lock, so a process is a sequence of file operations that interleave with *)
(* those of every other process, and it may vanish between any two of them. *)
(* One action is one file operation of src/store.rs, src/snapshot.rs or     *)
(* src/cli.rs together with the decisions taken on its result.              *)
(*                                                                          *)
(* A database file is the sequence of its pages.  SHA-256 is taken to be    *)
(* injective: a page stands for its object key and a state for its id.      *)
EXTENDS Naturals, Sequences, Functions

CONSTANTS
    Pages,        \* page contents, each standing for its hash
    States,       \* contents a database file may have: sequences of pages
    Branches,     \* branch names
    Main,         \* the branch HEAD names after init
    Procs,        \* processes that run commands
    Commands,     \* the commands users run: "init", "snap", "gc", ...
    None,         \* no such file, or "parent -"
    Blank,        \* a file truncated and not yet rewritten: reads as ""
    Garbled,      \* a short text written over a longer one
    MayCrash,     \* processes may be killed or hit an I/O error
    GcExclusive   \* users run gc only while no snap is writing, and back

Marks == {None, Blank, Garbled}

ASSUME StatesAssumption == States \subseteq Seq(Pages)
ASSUME BranchesAssumption == Main \in Branches /\ Branches \cap States = {}
ASSUME MarksAssumption ==
    /\ Marks \cap (States \cup Branches) = {}
    /\ None # Blank /\ Blank # Garbled /\ None # Garbled
ASSUME SwitchesAssumption == MayCrash \in BOOLEAN /\ GcExclusive \in BOOLEAN

VARIABLES
    marker,    \* the file LITEGRAFT: "absent", "blank" or "written"
    HEAD,      \* the file HEAD: a branch, a state id (detached) or a mark
    heads,     \* refs/heads: branch -> state id or a mark
    snaps,     \* ids that have a file in snaps/
    parentOf,  \* the parent line of each manifest in snaps/
    objects,   \* keys that have a file in objects/
    db,        \* the database file
    pc,        \* what each process does next
    at         \* the local variables of each process

refs  == <<HEAD, heads>>
saved == <<snaps, parentOf, objects>>
store == <<marker, HEAD, heads, snaps, parentOf, objects>>
vars  == <<marker, HEAD, heads, snaps, parentOf, objects, db, pc, at>>

(* The steps at which a process is about to touch a file. *)
SnapWindow == {"snap_head", "snap_parent", "snap_pages", "snap_manifest"}
GcWindow   == {"gc_list", "gc_sweep"}
FileWindow == {"snap_head", "snap_parent", "snap_pages",
               "checkout_check", "checkout_manifest", "checkout_pages",
               "checkout_swap"}
Labels == SnapWindow \cup GcWindow \cup FileWindow \cup
          {"idle", "init_create", "init_fill", "checkout_head", "head_truncate",
           "head_write", "ref_truncate", "ref_write", "log_walk"}

(* Locals of a process: the state it saves, restores or has walked to, the  *)
(* parent it recorded, the branch (or detached id) it will write, the page  *)
(* it is at, the objects it still has to look at, and --force.              *)
Locals == [id : States \cup Marks, par : States \cup Marks,
           ref : Branches \cup States, pg : Nat \ {0},
           todo : SUBSET Pages, force : BOOLEAN]

Free == [id |-> None, par |-> None, ref |-> Main, pg |-> 1,
         todo |-> {}, force |-> FALSE]

TypeOK ==
    /\ marker \in {"absent", "blank", "written"}
    /\ HEAD \in Branches \cup States \cup Marks
    /\ heads \in [Branches -> States \cup Marks]
    /\ snaps \subseteq States
    /\ parentOf \in [States -> States \cup Marks]
    /\ objects \subseteq Pages
    /\ db \in States \cup {None}
    /\ pc \in [Procs -> Labels]
    /\ at \in [Procs -> Locals]

Init ==
    /\ marker = "absent"
    /\ HEAD = None
    /\ heads = [b \in Branches |-> None]
    /\ snaps = {}
    /\ parentOf = [s \in States |-> None]
    /\ objects = {}
    /\ db \in States
    /\ pc = [k \in Procs |-> "idle"]
    /\ at = [k \in Procs |-> Free]

---------------------------------------------------------------------------
(* What the commands read.                                                  *)

LivePages == UNION {Range(s) : s \in snaps}

(* A manifest whose parent line is torn in two fails to parse. *)
Readable(s) == s \in snaps /\ parentOf[s] # Garbled

(* Store::resolve for branch names and full ids; None is an unknown ref. *)
Resolve(r) == IF r \in Branches THEN heads[r]
              ELSE IF r \in snaps THEN r ELSE None

(* fs::write truncates, then writes at offset 0 of whatever is there by     *)
(* then.  An id line is the longest line; another text leaves the tail of   *)
(* what it covers.                                                          *)
Landing(old, new) ==
    IF new \in States \/ old \in {Blank, new} THEN {new} ELSE {new, Garbled}

---------------------------------------------------------------------------
(* Processes.                                                               *)

Begin(k, command) == pc[k] = "idle" /\ command \in Commands

(* Store::open: every command but init needs the whole marker file. *)
OpenStore(k, command) == Begin(k, command) /\ marker = "written"

Goto(k, label, locals) ==
    /\ pc' = [pc EXCEPT ![k] = label]
    /\ at' = [at EXCEPT ![k] = locals]

Exit(k) == Goto(k, "idle", Free)

---------------------------------------------------------------------------
(* init.                                                                    *)

InitOpen(k) ==
    /\ Begin(k, "init")
    /\ db # None
    /\ marker = "absent"
    /\ Goto(k, "init_create", Free)
    /\ UNCHANGED <<store, db>>

InitCreate(k) ==
    /\ pc[k] = "init_create"
    /\ marker' = "blank"
    /\ Goto(k, "init_fill", at[k])
    /\ UNCHANGED <<refs, saved, db>>

InitFill(k) ==
    /\ pc[k] = "init_fill"
    /\ marker' = "written"
    /\ Goto(k, "head_truncate", [at[k] EXCEPT !.ref = Main])
    /\ UNCHANGED <<refs, saved, db>>

(* Store::set_head, which ends both init and checkout. *)
HeadTruncate(k) ==
    /\ pc[k] = "head_truncate"
    /\ HEAD' = Blank
    /\ Goto(k, "head_write", at[k])
    /\ UNCHANGED <<marker, heads, saved, db>>

(* Mutant: HEAD is set back to Main whatever was checked out. *)
BugHeadWrite(k) ==
    /\ pc[k] = "head_write"
    /\ HEAD' \in Landing(HEAD, Main)
    /\ Exit(k)
    /\ UNCHANGED <<marker, heads, saved, db>>

HeadWrite(k) ==
    /\ pc[k] = "head_write"
    /\ HEAD' \in Landing(HEAD, at[k].ref)
    /\ Exit(k)
    /\ UNCHANGED <<marker, heads, saved, db>>

---------------------------------------------------------------------------
(* snap.                                                                    *)

(* The open file is read page by page; as no writer is active its content   *)
(* is that at the time of the open, even when checkout renames over it.     *)
SnapOpen(k) ==
    /\ OpenStore(k, "snap")
    /\ db # None
    /\ GcExclusive => \A j \in Procs : pc[j] \notin GcWindow
    /\ Goto(k, "snap_head", [Free EXCEPT !.id = db])
    /\ UNCHANGED <<store, db>>

(* A detached or unreadable HEAD ends the command. *)
SnapHead(k) ==
    /\ pc[k] = "snap_head"
    /\ \/ HEAD \in Branches /\ Goto(k, "snap_parent", [at[k] EXCEPT !.ref = HEAD])
       \/ HEAD \notin Branches /\ Exit(k)
    /\ UNCHANGED <<store, db>>

SnapParent(k) ==
    /\ pc[k] = "snap_parent"
    /\ Goto(k, "snap_pages", [at[k] EXCEPT !.par = heads[at[k].ref]])
    /\ UNCHANGED <<store, db>>

(* write_object: whether the object is there or is written now, it is there. *)
SnapPage(k) ==
    /\ pc[k] = "snap_pages"
    /\ at[k].pg <= Len(at[k].id)
    /\ objects' = objects \cup {at[k].id[at[k].pg]}
    /\ Goto(k, "snap_pages", [at[k] EXCEPT !.pg = @ + 1])
    /\ UNCHANGED <<marker, refs, snaps, parentOf, db>>

(* Mutant: the manifest is written whether or not the state is known. *)
BugSnapHashedRewrite(k) ==
    /\ pc[k] = "snap_pages"
    /\ at[k].pg > Len(at[k].id)
    /\ IF at[k].par = at[k].id THEN Exit(k) ELSE Goto(k, "snap_manifest", at[k])
    /\ UNCHANGED <<store, db>>

(* Mutant: the page loop stops one page early. *)
BugSnapHashedShort(k) ==
    /\ pc[k] = "snap_pages"
    /\ at[k].pg = Len(at[k].id)
    /\ Goto(k, IF at[k].id \in snaps THEN "ref_truncate" ELSE "snap_manifest", at[k])
    /\ UNCHANGED <<store, db>>

(* All pages stored: nothing to do, or a known state, or a new one. *)
SnapHashed(k) ==
    /\ pc[k] = "snap_pages"
    /\ at[k].pg > Len(at[k].id)
    /\ \/ at[k].par = at[k].id /\ Exit(k)
       \/ /\ at[k].par # at[k].id
          /\ at[k].id \in snaps
          /\ Goto(k, "ref_truncate", at[k])
       \/ /\ at[k].par # at[k].id
          /\ at[k].id \notin snaps
          /\ Goto(k, "snap_manifest", at[k])
    /\ UNCHANGED <<store, db>>

(* Mutant: the branch is moved although the manifest was not written. *)
BugSnapManifest(k) ==
    /\ pc[k] = "snap_manifest"
    /\ Goto(k, "ref_truncate", at[k])
    /\ UNCHANGED <<store, db>>

(* write_manifest.  Another process may have written the same state since   *)
(* the check: the rename replaces its manifest.                             *)
SnapManifest(k) ==
    /\ pc[k] = "snap_manifest"
    /\ snaps' = snaps \cup {at[k].id}
    /\ parentOf' = [parentOf EXCEPT ![at[k].id] = at[k].par]
    /\ Goto(k, "ref_truncate", at[k])
    /\ UNCHANGED <<marker, refs, objects, db>>

(* Store::set_branch, which ends both snap and branch. *)
RefTruncate(k) ==
    /\ pc[k] = "ref_truncate"
    /\ heads' = [heads EXCEPT ![at[k].ref] = Blank]
    /\ Goto(k, "ref_write", at[k])
    /\ UNCHANGED <<marker, HEAD, saved, db>>

RefWrite(k) ==
    /\ pc[k] = "ref_write"
    /\ \E text \in Landing(heads[at[k].ref], at[k].id) :
           heads' = [heads EXCEPT ![at[k].ref] = text]
    /\ Exit(k)
    /\ UNCHANGED <<marker, HEAD, saved, db>>

---------------------------------------------------------------------------
(* branch.                                                                  *)

(* The state a new branch starts at: --at r, or the current head. *)
ForkPoint(r) == IF r # None THEN Resolve(r)
                ELSE IF HEAD \in Branches THEN heads[HEAD] ELSE HEAD

BranchOpen(k, name, r) ==
    /\ OpenStore(k, "branch")
    /\ HEAD \notin {None, Blank}
    /\ HEAD = Garbled => r # None
    /\ heads[name] = None
    /\ ForkPoint(r) # None
    /\ Goto(k, "ref_truncate", [Free EXCEPT !.id = ForkPoint(r), !.ref = name])
    /\ UNCHANGED <<store, db>>

---------------------------------------------------------------------------
(* checkout.                                                                *)

CheckoutOpen(k, r, force) ==
    /\ OpenStore(k, "checkout")
    /\ Resolve(r) # None
    /\ Goto(k, IF db = None \/ force THEN "checkout_manifest" ELSE "checkout_check",
            [Free EXCEPT !.id = Resolve(r), !.ref = r, !.force = force])
    /\ UNCHANGED <<store, db>>

(* Mutant: the working state is compared with the target only. *)
BugCheckoutCheck(k) ==
    /\ pc[k] = "checkout_check"
    /\ Goto(k, IF db = at[k].id THEN "idle" ELSE "checkout_manifest", at[k])
    /\ UNCHANGED <<store, db>>

(* The working state must be a snapshot before it may be replaced. *)
CheckoutCheck(k) ==
    /\ pc[k] = "checkout_check"
    /\ \/ db \in snaps /\ Goto(k, "checkout_manifest", at[k])
       \/ db \notin snaps /\ Exit(k)
    /\ UNCHANGED <<store, db>>

(* Mutant: a manifest that cannot be read passes for one without pages. *)
BugCheckoutManifest(k) ==
    /\ pc[k] = "checkout_manifest"
    /\ Goto(k, IF Readable(at[k].id) THEN "checkout_pages" ELSE "checkout_swap", at[k])
    /\ UNCHANGED <<store, db>>

CheckoutManifest(k) ==
    /\ pc[k] = "checkout_manifest"
    /\ \/ Readable(at[k].id) /\ Goto(k, "checkout_pages", at[k])
       \/ ~ Readable(at[k].id) /\ Exit(k)
    /\ UNCHANGED <<store, db>>

CheckoutPage(k) ==
    /\ pc[k] = "checkout_pages"
    /\ at[k].pg <= Len(at[k].id)
    /\ \/ /\ at[k].id[at[k].pg] \in objects
          /\ Goto(k, "checkout_pages", [at[k] EXCEPT !.pg = @ + 1])
       \/ at[k].id[at[k].pg] \notin objects /\ Exit(k)
    /\ UNCHANGED <<store, db>>

CheckoutCopied(k) ==
    /\ pc[k] = "checkout_pages"
    /\ at[k].pg > Len(at[k].id)
    /\ Goto(k, "checkout_swap", at[k])
    /\ UNCHANGED <<store, db>>

(* The rename. *)
CheckoutSwap(k) ==
    /\ pc[k] = "checkout_swap"
    /\ db' = at[k].id
    /\ Goto(k, "checkout_head", at[k])
    /\ UNCHANGED store

(* The manifest is read a second time, and HEAD follows in two steps more.  *)
CheckoutHead(k) ==
    /\ pc[k] = "checkout_head"
    /\ \/ Readable(at[k].id) /\ Goto(k, "head_truncate", at[k])
       \/ ~ Readable(at[k].id) /\ Exit(k)
    /\ UNCHANGED <<store, db>>

---------------------------------------------------------------------------
(* gc.                                                                      *)

(* Mutant: only the snapshots that are branch heads are marked. *)
BugGcMark(k) ==
    /\ OpenStore(k, "gc")
    /\ GcExclusive => \A j \in Procs : pc[j] \notin SnapWindow
    /\ Goto(k, "gc_list",
            [Free EXCEPT !.todo = UNION {Range(s) : s \in snaps \cap Range(heads)}])
    /\ UNCHANGED <<store, db>>

(* Manifests are never removed and their page lists never change, so the    *)
(* live set is that of the manifests listed.  One that cannot be read ends  *)
(* the command.                                                             *)
GcMark(k) ==
    /\ OpenStore(k, "gc")
    /\ GcExclusive => \A j \in Procs : pc[j] \notin SnapWindow
    /\ \A s \in snaps : Readable(s)
    /\ Goto(k, "gc_list", [Free EXCEPT !.todo = LivePages])
    /\ UNCHANGED <<store, db>>

GcList(k) ==
    /\ pc[k] = "gc_list"
    /\ Goto(k, "gc_sweep", [at[k] EXCEPT !.todo = objects \ @])
    /\ UNCHANGED <<store, db>>

(* Mutant: an object is ticked off once its size has been read. *)
BugGcSweep(k) ==
    /\ pc[k] = "gc_sweep"
    /\ \E p \in at[k].todo : Goto(k, "gc_sweep", [at[k] EXCEPT !.todo = @ \ {p}])
    /\ UNCHANGED <<store, db>>

(* Another gc may have removed the object: reading its size then fails. *)
GcSweep(k) ==
    /\ pc[k] = "gc_sweep"
    /\ \E p \in at[k].todo :
        \/ /\ p \in objects
           /\ objects' = objects \ {p}
           /\ Goto(k, "gc_sweep", [at[k] EXCEPT !.todo = @ \ {p}])
        \/ p \notin objects /\ UNCHANGED objects /\ Exit(k)
    /\ UNCHANGED <<marker, refs, snaps, parentOf, db>>

GcDone(k) ==
    /\ pc[k] = "gc_sweep"
    /\ at[k].todo = {}
    /\ Exit(k)
    /\ UNCHANGED <<store, db>>

---------------------------------------------------------------------------
(* log.  --limit only ends the walk sooner.                                 *)

LogOpen(k) ==
    /\ OpenStore(k, "log")
    /\ HEAD \in Branches \cup States
    /\ Goto(k, "log_walk",
            [Free EXCEPT !.id = IF HEAD \in Branches THEN heads[HEAD] ELSE HEAD])
    /\ UNCHANGED <<store, db>>

LogStep(k) ==
    /\ pc[k] = "log_walk"
    /\ \/ /\ at[k].id \in States
          /\ Readable(at[k].id)
          /\ Goto(k, "log_walk", [at[k] EXCEPT !.id = parentOf[at[k].id]])
       \/ /\ at[k].id \in States => ~ Readable(at[k].id)
          /\ Exit(k)
    /\ UNCHANGED <<store, db>>

---------------------------------------------------------------------------
(* verify only reads.  It is there for a store that has been damaged, so    *)
(* its counts are functions of what a disk may leave of this one: the       *)
(* object files that are still there and those whose bytes have changed,    *)
(* the manifests that are still there and those that no longer match the    *)
(* id they record.                                                          *)

Remains == [kept : SUBSET objects, altered : SUBSET objects,
            files : SUBSET snaps, torn : SUBSET snaps]

(* Every object that is listed is hashed again. *)
VerifyCorrupt(r) == r.kept \cap r.altered

(* Mutant: a manifest is parsed, its pages are not looked up. *)
BugVerifyMissing(r) == {s \in r.files : s \in r.torn \/ ~ Readable(s)}

VerifyMissing(r) ==
    {s \in r.files : s \in r.torn \/ ~ Readable(s) \/ ~ Range(s) \subseteq r.kept}

(* has_snapshot("") asks whether the directory snaps/ exists: it does. *)
HasSnapshot(r, id) == id \in r.files \cup {Blank}

VerifyBadRefs(r) == {b \in Branches : heads[b] # None /\ ~ HasSnapshot(r, heads[b])}

VerifyPasses(r) ==
    VerifyCorrupt(r) = {} /\ VerifyMissing(r) = {} /\ VerifyBadRefs(r) = {}

---------------------------------------------------------------------------
(* The environment.                                                         *)

(* Applications write or delete the database while no command uses it: the  *)
(* contract of the README, "snapshot when no writer is active".             *)
Edit ==
    /\ \A k \in Procs : pc[k] \notin FileWindow
    /\ db' \in (States \cup {None}) \ {db}
    /\ UNCHANGED <<store, pc, at>>

(* A process is killed, or one of its calls fails: every ? returns.         *)
Crash(k) ==
    /\ MayCrash
    /\ pc[k] # "idle"
    /\ Exit(k)
    /\ UNCHANGED <<store, db>>

---------------------------------------------------------------------------
Start(k) ==
    \/ InitOpen(k) \/ SnapOpen(k) \/ GcMark(k) \/ LogOpen(k)
    \/ \E name \in Branches, r \in Branches \cup States \cup {None} :
           BranchOpen(k, name, r)
    \/ \E r \in Branches \cup States, force \in BOOLEAN : CheckoutOpen(k, r, force)

Step(k) ==
    \/ InitCreate(k) \/ InitFill(k) \/ HeadTruncate(k) \/ HeadWrite(k)
    \/ SnapHead(k) \/ SnapParent(k) \/ SnapPage(k) \/ SnapHashed(k)
    \/ SnapManifest(k) \/ RefTruncate(k) \/ RefWrite(k)
    \/ CheckoutCheck(k) \/ CheckoutManifest(k) \/ CheckoutPage(k)
    \/ CheckoutCopied(k) \/ CheckoutSwap(k) \/ CheckoutHead(k)
    \/ GcList(k) \/ GcSweep(k) \/ GcDone(k)
    \/ LogStep(k)

Next == Edit \/ \E k \in Procs : Start(k) \/ Step(k) \/ Crash(k)

(* The operating system runs every process that can run. *)
Fairness == \A k \in Procs : WF_vars(Step(k))

Spec == Init /\ [][Next]_vars

FairSpec == Spec /\ Fairness

---------------------------------------------------------------------------
(* Safety, whatever runs concurrently and wherever processes are killed.    *)

(* The manifests form a forest: from any set of snapshots some has its      *)
(* parent outside the set, so no walk over parents comes round, although    *)
(* concurrent snaps may rewrite a manifest with another parent.             *)
HistoryAcyclic ==
    \A S \in SUBSET snaps : S # {} => \E s \in S : parentOf[s] \notin S

(* An id written anywhere names a snapshot: a branch, a detached HEAD or a  *)
(* parent line never points at what was not saved (snap writes objects,     *)
(* manifest and branch in this order).                                      *)
NoDanglingIds ==
    /\ \A b \in Branches : heads[b] \in snaps \cup Marks
    /\ HEAD \in snaps \cup Branches \cup Marks
    /\ \A s \in snaps : parentOf[s] \in snaps \cup Marks

(* checkout without --force only ever replaces a database file that is      *)
(* itself a snapshot ("never silently discard a working state that exists   *)
(* nowhere in the store", src/cli.rs).                                      *)
NoWorkLost ==
    [][\A k \in Procs :
           pc[k] = "checkout_swap" /\ pc'[k] = "checkout_head" /\ ~ at[k].force
           => db \in snaps \cup {None}]_vars

---------------------------------------------------------------------------
(* Safety while gc and snap do not overlap.                                 *)

(* Every page of every snapshot is in the object store, so that any         *)
(* snapshot can be restored at any time (write_object, snap, gc).           *)
SnapshotsComplete == \A s \in snaps : Range(s) \subseteq objects

(* A restore that has read its manifest finds every page it goes on to      *)
(* read, whatever gc removes meanwhile.                                     *)
RestoreFindsPages ==
    \A k \in Procs : pc[k] = "checkout_pages" /\ at[k].pg <= Len(at[k].id)
                      => at[k].id[at[k].pg] \in objects

(* A gc that ends without an error has reclaimed everything: what it leaves *)
(* is what snapshots reference, also after snaps that were killed midway.   *)
GcReclaims ==
    [][\A k \in Procs :
           pc[k] = "gc_sweep" /\ pc'[k] = "idle" /\ at[k].todo = {}
           => objects' \subseteq LivePages]_vars

(* gc removes no object that a snapshot references, not even one saved      *)
(* since it started ("gc deletes objects no snapshot references").          *)
GcDeletesOnlyUnreferenced ==
    [][\A p \in objects \ objects' : p \notin LivePages]_vars

---------------------------------------------------------------------------
(* Safety of one command at a time.                                         *)

Quiet == \A k \in Procs : pc[k] = "idle"

(* The metadata of a manifest "record the first creation": no later snap of *)
(* the same state changes its parent (docs/store-format.md).                *)
FirstCreationRecorded ==
    [][\A s \in snaps : parentOf'[s] = parentOf[s]]_vars

(* A checkout that runs to its end leaves HEAD standing for the state it    *)
(* put into the database file, so status finds the file clean.              *)
HeadId == IF HEAD \in Branches THEN heads[HEAD] ELSE HEAD

CheckoutLandsOnHead ==
    [][\A k \in Procs :
           pc[k] = "head_write" /\ pc'[k] = "idle" /\ at[k].id # None
           => HeadId' = at[k].id]_vars

(* Whatever objects and manifests are lost or altered while no command      *)
(* runs: when verify accepts what is left, every branch can be restored.    *)
(* It names a snapshot whose manifest is there and whole, and whose pages   *)
(* are there and unaltered ("verify (re-hash every object, recompute every  *)
(* manifest id, check refs)", CHANGELOG.md).                                *)
RestorableFrom(r, s) ==
    /\ Readable(s) /\ s \in r.files \ r.torn
    /\ Range(s) \subseteq r.kept \ r.altered

VerifySound ==
    Quiet => \A r \in Remains : VerifyPasses(r) =>
                 \A b \in Branches : heads[b] # None => RestorableFrom(r, heads[b])

---------------------------------------------------------------------------
(* Liveness.                                                                *)

(* Every command comes to its end: in particular log, whose walk has no     *)
(* bound of its own, while other processes keep saving and forking.         *)
CommandsEnd == \A k \in Procs : pc[k] # "idle" ~> pc[k] = "idle"

---------------------------------------------------------------------------
(* While gc and snap do not overlap, the store is a repository: what a user *)
(* has saved stays saved, restorable and in a history without cycles,       *)
(* whatever runs concurrently, is killed or is collected.                   *)

Restorable == {s \in snaps : Range(s) \subseteq objects}

Known(id) == IF id \in snaps THEN id ELSE None

Promise == INSTANCE Repository WITH
    saved    <- Restorable,
    parent   <- [s \in States |-> IF s \in snaps THEN Known(parentOf[s]) ELSE None],
    branches <- [b \in Branches |-> Known(heads[b])]

ImplementsRepository == Promise!Spec
=============================================================================
