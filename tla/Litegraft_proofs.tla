-------------------------- MODULE Litegraft_proofs --------------------------
(* Theorems about Litegraft, for any pages, states, branches and processes. *)
EXTENDS Litegraft, TLAPS

(* The labels at which a process holds the state of a file or a snapshot,   *)
(* not a mark, and those at which it holds the branch it will move.         *)
HoldsState == SnapWindow \cup {"checkout_pages", "checkout_swap"}

HoldsBranch == {"snap_parent", "snap_pages", "snap_manifest",
                "ref_truncate", "ref_write"}

HeldStates == \A k \in Procs :
    /\ pc[k] \in HoldsState => at[k].id \in States
    /\ pc[k] \in HoldsBranch => at[k].ref \in Branches

TypeInv == TypeOK /\ HeldStates

---------------------------------------------------------------------------
(* A process that moves on changes its own label and locals only.           *)
LEMMA GotoMoves ==
    ASSUME pc \in [Procs -> Labels], at \in [Procs -> Locals],
           NEW k \in Procs, NEW label \in Labels, NEW locals \in Locals,
           Goto(k, label, locals)
    PROVE  /\ pc' \in [Procs -> Labels]
           /\ at' \in [Procs -> Locals]
           /\ pc'[k] = label
           /\ at'[k] = locals
           /\ \A j \in Procs \ {k} : pc'[j] = pc[j] /\ at'[j] = at[j]
BY DEF Goto

LEMMA FreeLocals == Free \in Locals
BY BranchesAssumption DEF Free, Locals, Marks

(* Landing leaves the new text or a mark. *)
LEMMA LandingTexts ==
    ASSUME NEW old, NEW new, NEW text \in Landing(old, new)
    PROVE  text \in {new, Garbled}
BY DEF Landing

(* A fork point is a state or a mark, as the branch command found HEAD. *)
LEMMA ForkPointTexts ==
    ASSUME TypeOK, NEW r \in Branches \cup States \cup {None},
           HEAD \notin {None, Blank}, HEAD = Garbled => r # None
    PROVE  ForkPoint(r) \in States \cup Marks
BY MarksAssumption DEF TypeOK, ForkPoint, Resolve, Marks

---------------------------------------------------------------------------
(* Every step of a command, and every other step, keeps the types.          *)

LEMMA InitTypes == Init => TypeInv
BY FreeLocals DEF Init, TypeInv, TypeOK, HeldStates, HoldsState, HoldsBranch, SnapWindow,
                  Labels, GcWindow, FileWindow, Marks

(* The frame of a step of one process: what it must establish for the types *)
(* to be kept.                                                              *)
LEMMA MoveTypes ==
    ASSUME TypeInv,
           NEW k \in Procs, NEW label \in Labels, NEW locals \in Locals,
           Goto(k, label, locals),
           label \in HoldsState => locals.id \in States,
           label \in HoldsBranch => locals.ref \in Branches,
           marker' \in {"absent", "blank", "written"},
           HEAD' \in Branches \cup States \cup Marks,
           heads' \in [Branches -> States \cup Marks],
           snaps' \subseteq States,
           parentOf' \in [States -> States \cup Marks],
           objects' \subseteq Pages,
           db' \in States \cup {None}
    PROVE  TypeInv'
<1>1. /\ pc' \in [Procs -> Labels]
      /\ at' \in [Procs -> Locals]
      /\ pc'[k] = label
      /\ at'[k] = locals
      /\ \A j \in Procs \ {k} : pc'[j] = pc[j] /\ at'[j] = at[j]
  BY GotoMoves DEF TypeInv, TypeOK
<1>2. HeldStates'
  BY <1>1 DEF TypeInv, HeldStates
<1> QED
  BY <1>1, <1>2 DEF TypeInv, TypeOK

(* The steps of each command keep the types. *)
LEMMA InitCmdTypes ==
    ASSUME TypeInv, NEW k \in Procs,
           InitOpen(k) \/ InitCreate(k) \/ InitFill(k) \/ HeadTruncate(k) \/ HeadWrite(k)
    PROVE  TypeInv'
<1> USE DEF refs, saved, store, Labels, HoldsState, HoldsBranch,
            SnapWindow, GcWindow, FileWindow
<1>0. at[k] \in Locals /\ Free \in Locals
  BY FreeLocals DEF TypeInv, TypeOK
<1>1. CASE InitOpen(k)
  BY <1>0, <1>1, MoveTypes DEF InitOpen, TypeInv, TypeOK
<1>2. CASE InitCreate(k)
  BY <1>0, <1>2, MoveTypes DEF InitCreate, TypeInv, TypeOK
<1>3. CASE InitFill(k)
  <2>1. [at[k] EXCEPT !.ref = Main] \in Locals
    BY <1>0, BranchesAssumption DEF Locals
  <2> QED
    BY <2>1, <1>3, MoveTypes DEF InitFill, TypeInv, TypeOK
<1>4. CASE HeadTruncate(k)
  BY <1>0, <1>4, MoveTypes DEF HeadTruncate, TypeInv, TypeOK, Marks
<1>5. CASE HeadWrite(k)
  <2>1. HEAD' \in Branches \cup States \cup Marks
    BY <1>0, <1>5, LandingTexts DEF HeadWrite, Locals, Marks
  <2> QED
    BY <1>0, <2>1, <1>5, MoveTypes DEF HeadWrite, Exit, TypeInv, TypeOK
<1> QED
  BY <1>1, <1>2, <1>3, <1>4, <1>5

LEMMA SnapTypes ==
    ASSUME TypeInv, NEW k \in Procs,
           \/ SnapOpen(k) \/ SnapHead(k) \/ SnapParent(k) \/ SnapPage(k)
           \/ SnapHashed(k) \/ SnapManifest(k)
    PROVE  TypeInv'
<1> USE DEF refs, saved, store, Labels, HoldsState, HoldsBranch,
            SnapWindow, GcWindow, FileWindow
<1>0. at[k] \in Locals /\ Free \in Locals
  BY FreeLocals DEF TypeInv, TypeOK
<1>id. /\ pc[k] \in SnapWindow => at[k].id \in States
       /\ pc[k] \in HoldsBranch => at[k].ref \in Branches
  BY DEF TypeInv, HeldStates
<1>1. CASE SnapOpen(k)
  <2>1. db \in States /\ [Free EXCEPT !.id = db] \in Locals
    BY <1>0, <1>1 DEF SnapOpen, TypeInv, TypeOK, Locals
  <2>2. [Free EXCEPT !.id = db].id = db
    BY DEF Free
  <2> QED
    BY <2>1, <2>2, <1>1, MoveTypes DEF SnapOpen, TypeInv, TypeOK
<1>2. CASE SnapHead(k)
  <2>1. CASE HEAD \in Branches
    <3>1. /\ [at[k] EXCEPT !.ref = HEAD] \in Locals
          /\ [at[k] EXCEPT !.ref = HEAD].id = at[k].id
          /\ [at[k] EXCEPT !.ref = HEAD].ref = HEAD
      BY <1>0, <2>1 DEF Locals
    <3> QED
      BY <3>1, <1>id, <2>1, <1>2, MoveTypes DEF SnapHead, TypeInv, TypeOK
  <2>2. CASE HEAD \notin Branches
    BY <1>0, <2>2, <1>2, MoveTypes DEF SnapHead, Exit, TypeInv, TypeOK
  <2> QED
    BY <2>1, <2>2
<1>3. CASE SnapParent(k)
  <2>1. heads[at[k].ref] \in States \cup Marks
    BY <1>id, <1>3 DEF SnapParent, TypeInv, TypeOK
  <2>2. /\ [at[k] EXCEPT !.par = heads[at[k].ref]] \in Locals
        /\ [at[k] EXCEPT !.par = heads[at[k].ref]].id = at[k].id
        /\ [at[k] EXCEPT !.par = heads[at[k].ref]].ref = at[k].ref
    BY <1>0, <2>1 DEF Locals
  <2> QED
    BY <2>2, <1>id, <1>3, MoveTypes DEF SnapParent, TypeInv, TypeOK
<1>4. CASE SnapPage(k)
  <2>1. at[k].id \in Seq(Pages)
    BY <1>id, <1>4, StatesAssumption DEF SnapPage
  <2>2. at[k].id[at[k].pg] \in Pages
    BY <1>0, <1>4, <2>1 DEF SnapPage, Locals
  <2>3. /\ [at[k] EXCEPT !.pg = @ + 1] \in Locals
        /\ [at[k] EXCEPT !.pg = @ + 1].id = at[k].id
        /\ [at[k] EXCEPT !.pg = @ + 1].ref = at[k].ref
    BY <1>0 DEF Locals
  <2>4. objects' \subseteq Pages
    BY <2>2, <1>4 DEF SnapPage, TypeInv, TypeOK
  <2> QED
    BY <2>3, <2>4, <1>id, <1>4, MoveTypes DEF SnapPage, TypeInv, TypeOK
<1>5. CASE SnapHashed(k)
  BY <1>0, <1>id, <1>5, MoveTypes DEF SnapHashed, Exit, TypeInv, TypeOK
<1>6. CASE SnapManifest(k)
  <2>1. at[k].id \in States /\ at[k].par \in States \cup Marks
    BY <1>0, <1>id, <1>6 DEF SnapManifest, Locals
  <2>2. snaps' \subseteq States /\ parentOf' \in [States -> States \cup Marks]
    BY <2>1, <1>6 DEF SnapManifest, TypeInv, TypeOK
  <2>3. /\ Goto(k, "ref_truncate", at[k])
        /\ UNCHANGED <<marker, HEAD, heads, objects, db>>
        /\ at[k].ref \in Branches
    BY <1>id, <1>6 DEF SnapManifest
  <2>4. /\ marker \in {"absent", "blank", "written"} /\ objects \subseteq Pages
        /\ HEAD \in Branches \cup States \cup Marks
        /\ heads \in [Branches -> States \cup Marks] /\ db \in States \cup {None}
    BY DEF TypeInv, TypeOK
  <2> QED
    BY <1>0, <2>2, <2>3, <2>4, MoveTypes
<1> QED
  BY <1>1, <1>2, <1>3, <1>4, <1>5, <1>6

LEMMA BranchTypes ==
    ASSUME TypeInv, NEW k \in Procs,
           \/ RefTruncate(k) \/ RefWrite(k)
           \/ \E name \in Branches, r \in Branches \cup States \cup {None} :
                  BranchOpen(k, name, r)
    PROVE  TypeInv'
<1> USE DEF refs, saved, store, Labels, HoldsState, HoldsBranch,
            SnapWindow, GcWindow, FileWindow
<1>0. at[k] \in Locals /\ Free \in Locals
  BY FreeLocals DEF TypeInv, TypeOK
<1>id. pc[k] \in HoldsBranch => at[k].ref \in Branches
  BY DEF TypeInv, HeldStates
<1>1. CASE RefTruncate(k)
  <2>1. heads' \in [Branches -> States \cup Marks]
    BY <1>1 DEF RefTruncate, TypeInv, TypeOK, Marks
  <2>2. /\ Goto(k, "ref_write", at[k])
        /\ UNCHANGED <<marker, HEAD, snaps, parentOf, objects, db>>
        /\ at[k].ref \in Branches
    BY <1>id, <1>1 DEF RefTruncate
  <2>3. /\ marker \in {"absent", "blank", "written"} /\ objects \subseteq Pages
        /\ HEAD \in Branches \cup States \cup Marks /\ snaps \subseteq States
        /\ parentOf \in [States -> States \cup Marks] /\ db \in States \cup {None}
    BY DEF TypeInv, TypeOK
  <2> QED
    BY <1>0, <2>1, <2>2, <2>3, MoveTypes
<1>2. CASE RefWrite(k)
  <2>1. PICK text \in Landing(heads[at[k].ref], at[k].id) :
            heads' = [heads EXCEPT ![at[k].ref] = text]
    BY <1>2 DEF RefWrite
  <2>2. text \in States \cup Marks
    BY <1>0, <2>1, LandingTexts DEF Locals, Marks
  <2>3. heads' \in [Branches -> States \cup Marks]
    BY <2>1, <2>2 DEF TypeInv, TypeOK
  <2> QED
    BY <1>0, <2>3, <1>2, MoveTypes DEF RefWrite, Exit, TypeInv, TypeOK
<1>3. ASSUME NEW name \in Branches, NEW r \in Branches \cup States \cup {None},
             BranchOpen(k, name, r)
      PROVE  TypeInv'
  <2> DEFINE opened == [Free EXCEPT !.id = ForkPoint(r), !.ref = name]
  <2>1. ForkPoint(r) \in States \cup Marks
    BY <1>3, ForkPointTexts DEF BranchOpen, TypeInv
  <2>2. opened \in Locals /\ opened.ref = name
    BY <1>0, <2>1 DEF Locals
  <2>3. Goto(k, "ref_truncate", opened)
    BY <1>3 DEF BranchOpen
  <2> HIDE DEF opened
  <2> QED
    BY <2>2, <2>3, <1>3, MoveTypes DEF BranchOpen, TypeInv, TypeOK
<1> QED
  BY <1>1, <1>2, <1>3

LEMMA CheckoutTypes ==
    ASSUME TypeInv, NEW k \in Procs,
           \/ \E r \in Branches \cup States, force \in BOOLEAN : CheckoutOpen(k, r, force)
           \/ CheckoutCheck(k) \/ CheckoutManifest(k) \/ CheckoutPage(k)
           \/ CheckoutCopied(k) \/ CheckoutSwap(k) \/ CheckoutHead(k)
    PROVE  TypeInv'
<1> USE DEF refs, saved, store, Labels, HoldsState, HoldsBranch,
            SnapWindow, GcWindow, FileWindow
<1>0. at[k] \in Locals /\ Free \in Locals
  BY FreeLocals DEF TypeInv, TypeOK
<1>id. pc[k] \in HoldsState => at[k].id \in States
  BY DEF TypeInv, HeldStates
<1>1. ASSUME NEW r \in Branches \cup States, NEW force \in BOOLEAN,
             CheckoutOpen(k, r, force)
      PROVE  TypeInv'
  <2> DEFINE opened == [Free EXCEPT !.id = Resolve(r), !.ref = r, !.force = force]
             next == IF db = None \/ force THEN "checkout_manifest" ELSE "checkout_check"
  <2>1. Resolve(r) \in States \cup Marks
    BY DEF Resolve, Marks, TypeInv, TypeOK
  <2>2. opened \in Locals
    BY <1>0, <2>1 DEF Locals
  <2>3. Goto(k, next, opened)
    BY <1>1 DEF CheckoutOpen
  <2> HIDE DEF opened
  <2> QED
    BY <2>2, <2>3, <1>1, MoveTypes DEF CheckoutOpen, TypeInv, TypeOK
<1>2. CASE CheckoutCheck(k)
  BY <1>0, <1>2, MoveTypes DEF CheckoutCheck, Exit, TypeInv, TypeOK
<1>3. CASE CheckoutManifest(k)
  BY <1>0, <1>3, MoveTypes DEF CheckoutManifest, Readable, Exit, TypeInv, TypeOK
<1>4. CASE CheckoutPage(k)
  <2> DEFINE moved == [at[k] EXCEPT !.pg = @ + 1]
  <2>1. moved \in Locals /\ moved.id = at[k].id
    BY <1>0 DEF Locals
  <2>2. Goto(k, "checkout_pages", moved) \/ Exit(k)
    BY <1>4 DEF CheckoutPage
  <2> HIDE DEF moved
  <2> QED
    BY <1>0, <1>id, <2>1, <2>2, <1>4, MoveTypes DEF CheckoutPage, Exit, TypeInv, TypeOK
<1>5. CASE CheckoutCopied(k)
  BY <1>0, <1>id, <1>5, MoveTypes DEF CheckoutCopied, TypeInv, TypeOK
<1>6. CASE CheckoutSwap(k)
  BY <1>0, <1>id, <1>6, MoveTypes DEF CheckoutSwap, TypeInv, TypeOK
<1>7. CASE CheckoutHead(k)
  BY <1>0, <1>7, MoveTypes DEF CheckoutHead, Exit, TypeInv, TypeOK
<1> QED
  BY <1>1, <1>2, <1>3, <1>4, <1>5, <1>6, <1>7

LEMMA GcTypes ==
    ASSUME TypeInv, NEW k \in Procs,
           GcMark(k) \/ GcList(k) \/ GcSweep(k) \/ GcDone(k)
    PROVE  TypeInv'
<1> USE DEF refs, saved, store, Labels, HoldsState, HoldsBranch,
            SnapWindow, GcWindow, FileWindow
<1>0. at[k] \in Locals /\ Free \in Locals
  BY FreeLocals DEF TypeInv, TypeOK
<1>1. CASE GcMark(k)
  <2> DEFINE marked == [Free EXCEPT !.todo = LivePages]
  <2>1. \A s \in snaps : s \in Seq(Pages)
    BY StatesAssumption DEF TypeInv, TypeOK
  <2>2. LivePages \subseteq Pages
    BY <2>1 DEF LivePages, Range
  <2>3. marked \in Locals
    BY <1>0, <2>2 DEF Locals
  <2>4. Goto(k, "gc_list", marked)
    BY <1>1 DEF GcMark
  <2> HIDE DEF marked
  <2> QED
    BY <2>3, <2>4, <1>1, MoveTypes DEF GcMark, TypeInv, TypeOK
<1>2. CASE GcList(k)
  <2> DEFINE listed == [at[k] EXCEPT !.todo = objects \ @]
  <2>1. listed \in Locals
    BY <1>0 DEF Locals, TypeInv, TypeOK
  <2>2. Goto(k, "gc_sweep", listed)
    BY <1>2 DEF GcList
  <2> HIDE DEF listed
  <2> QED
    BY <2>1, <2>2, <1>2, MoveTypes DEF GcList, TypeInv, TypeOK
<1>3. CASE GcSweep(k)
  <2> DEFINE swept(p) == [at[k] EXCEPT !.todo = @ \ {p}]
  <2>1. PICK p \in at[k].todo : Goto(k, "gc_sweep", swept(p)) \/ Exit(k)
    BY <1>3 DEF GcSweep
  <2>2. swept(p) \in Locals
    BY <1>0 DEF Locals
  <2>3. objects' \subseteq objects
    BY <1>3 DEF GcSweep
  <2> HIDE DEF swept
  <2> QED
    BY <1>0, <2>1, <2>2, <2>3, <1>3, MoveTypes DEF GcSweep, Exit, TypeInv, TypeOK
<1>4. CASE GcDone(k)
  BY <1>0, <1>4, MoveTypes DEF GcDone, Exit, TypeInv, TypeOK
<1> QED
  BY <1>1, <1>2, <1>3, <1>4

LEMMA LogTypes ==
    ASSUME TypeInv, NEW k \in Procs, LogOpen(k) \/ LogStep(k)
    PROVE  TypeInv'
<1> USE DEF refs, saved, store, Labels, HoldsState, HoldsBranch,
            SnapWindow, GcWindow, FileWindow
<1>0. at[k] \in Locals /\ Free \in Locals
  BY FreeLocals DEF TypeInv, TypeOK
<1>1. CASE LogOpen(k)
  <2> DEFINE from == IF HEAD \in Branches THEN heads[HEAD] ELSE HEAD
             opened == [Free EXCEPT !.id = from]
  <2>1. from \in States \cup Marks
    BY <1>1 DEF LogOpen, TypeInv, TypeOK
  <2> HIDE DEF from
  <2>2. opened \in Locals
    BY <1>0, <2>1 DEF Locals
  <2>3. Goto(k, "log_walk", opened)
    BY <1>1 DEF LogOpen, from
  <2> HIDE DEF opened
  <2> QED
    BY <2>2, <2>3, <1>1, MoveTypes DEF LogOpen, TypeInv, TypeOK
<1>2. CASE LogStep(k)
  <2> DEFINE back == [at[k] EXCEPT !.id = parentOf[at[k].id]]
  <2>1. CASE at[k].id \in States
    <3>1. back \in Locals
      BY <1>0, <2>1 DEF Locals, TypeInv, TypeOK
    <3>2. Goto(k, "log_walk", back) \/ Exit(k)
      BY <1>2 DEF LogStep
    <3> HIDE DEF back
    <3> QED
      BY <1>0, <3>1, <3>2, <1>2, MoveTypes DEF LogStep, Exit, TypeInv, TypeOK
  <2>2. CASE at[k].id \notin States
    BY <1>0, <2>2, <1>2, MoveTypes DEF LogStep, Exit, TypeInv, TypeOK
  <2> QED
    BY <2>1, <2>2
<1> QED
  BY <1>1, <1>2

LEMMA EnvironmentTypes ==
    ASSUME TypeInv, Edit \/ \E k \in Procs : Crash(k)
    PROVE  TypeInv'
<1>1. CASE Edit
  BY <1>1 DEF Edit, store, TypeInv, TypeOK, HeldStates
<1>2. ASSUME NEW k \in Procs, Crash(k)
      PROVE  TypeInv'
  BY <1>2, FreeLocals, MoveTypes
     DEF Crash, Exit, store, TypeInv, TypeOK, Labels, HoldsState, HoldsBranch, SnapWindow
<1> QED
  BY <1>1, <1>2

LEMMA NextTypes == TypeInv /\ [Next]_vars => TypeInv'
<1> SUFFICES ASSUME TypeInv, [Next]_vars
             PROVE  TypeInv'
  OBVIOUS
<1>1. CASE UNCHANGED vars
  BY <1>1 DEF vars, TypeInv, TypeOK, HeldStates
<1>2. CASE Next
  BY <1>2, InitCmdTypes, SnapTypes, BranchTypes, CheckoutTypes, GcTypes, LogTypes,
     EnvironmentTypes DEF Next, Start, Step
<1> QED
  BY <1>1, <1>2

(* The files and the locals of the commands have their types, whatever is   *)
(* run and interrupted: in particular the database file never becomes       *)
(* anything but a state (checkout never installs an unreadable manifest).   *)
THEOREM TypeCorrect == Spec => []TypeOK
<1>1. Spec => []TypeInv
  BY InitTypes, NextTypes, PTL DEF Spec
<1>2. TypeInv => TypeOK
  BY DEF TypeInv
<1> QED
  BY <1>1, <1>2, PTL

----------------------------------------------------------------------------
(* The history of a store: ids name snapshots, and parents never come       *)
(* round.                                                                   *)
(*                                                                          *)
(* Neither property is inductive.  NoDanglingIds depends on the ids that    *)
(* processes carry between two file operations (SavedIds).  HistoryAcyclic  *)
(* depends on the manifests that are about to be written: two processes may *)
(* have found the same state unsaved and hold different parents for it, so  *)
(* the pending parent lines are edges of the graph as well (NoLoop).  A     *)
(* process that adds such an edge found its state unsaved, and every parent *)
(* recorded or pending is a saved state; hence nothing points at the state  *)
(* that the new edge leaves.                                                *)

CarriesParent == {"snap_pages", "snap_manifest"}
CarriesHead   == {"ref_truncate", "ref_write"}
CarriesRef    == {"checkout_check", "checkout_manifest", "checkout_pages",
                  "checkout_swap", "checkout_head", "head_truncate", "head_write"}
CarriesSaved  == {"checkout_pages", "checkout_swap"}

CarriedIds == \A k \in Procs :
    /\ pc[k] \in CarriesParent => at[k].par \in snaps \cup Marks
    /\ pc[k] \in CarriesHead   => at[k].id \in snaps \cup Marks
    /\ pc[k] \in CarriesRef    => at[k].ref \in Branches \cup snaps
    /\ pc[k] \in CarriesSaved  => at[k].id \in snaps

SavedIds == NoDanglingIds /\ CarriedIds

(* A process that has decided to write a manifest for s. *)
Writes(k, s) == pc[k] = "snap_manifest" /\ at[k].id = s

NoLoop ==
    \A S \in SUBSET States : S # {} =>
        \E s \in S : /\ s \in snaps => parentOf[s] \notin S
                     /\ \A k \in Procs : Writes(k, s) => at[k].par \notin S

HistoryInv == TypeInv /\ SavedIds /\ NoLoop

---------------------------------------------------------------------------
LEMMA InitHistory == Init => SavedIds /\ NoLoop
BY DEF Init, SavedIds, NoDanglingIds, CarriedIds, NoLoop, Writes, Marks,
       CarriesParent, CarriesHead, CarriesRef, CarriesSaved

(* What a step of one process must establish for the ids to stay saved. *)
LEMMA MoveIds ==
    ASSUME TypeInv, SavedIds,
           NEW k \in Procs, NEW label \in Labels, NEW locals \in Locals,
           Goto(k, label, locals),
           snaps \subseteq snaps',
           label \in CarriesParent => locals.par \in snaps' \cup Marks,
           label \in CarriesHead   => locals.id \in snaps' \cup Marks,
           label \in CarriesRef    => locals.ref \in Branches \cup snaps',
           label \in CarriesSaved  => locals.id \in snaps',
           \A b \in Branches : heads'[b] \in snaps' \cup Marks,
           HEAD' \in snaps' \cup Branches \cup Marks,
           \A s \in snaps' : parentOf'[s] \in snaps' \cup Marks
    PROVE  SavedIds'
<1>1. /\ pc'[k] = label
      /\ at'[k] = locals
      /\ \A j \in Procs \ {k} : pc'[j] = pc[j] /\ at'[j] = at[j]
  BY GotoMoves DEF TypeInv, TypeOK
<1>2. CarriedIds'
  BY <1>1 DEF SavedIds, CarriedIds
<1>3. NoDanglingIds'
  BY DEF NoDanglingIds
<1> QED
  BY <1>2, <1>3 DEF SavedIds

(* A step that neither writes a manifest nor decides to write one adds no   *)
(* edge.                                                                    *)
LEMMA NoNewEdge ==
    ASSUME TypeInv, NoLoop,
           NEW k \in Procs, NEW label \in Labels, NEW locals \in Locals,
           Goto(k, label, locals),
           label # "snap_manifest",
           UNCHANGED <<snaps, parentOf>>
    PROVE  NoLoop'
<1>1. /\ pc'[k] = label
      /\ \A j \in Procs \ {k} : pc'[j] = pc[j] /\ at'[j] = at[j]
  BY GotoMoves DEF TypeInv, TypeOK
<1>2. \A j \in Procs, s \in States : Writes(j, s)' => Writes(j, s) /\ at'[j] = at[j]
  BY <1>1 DEF Writes
<1> SUFFICES ASSUME NEW S \in SUBSET States, S # {}
             PROVE  \E s \in S : /\ s \in snaps' => parentOf'[s] \notin S
                                 /\ \A j \in Procs : Writes(j, s)' => at'[j].par \notin S
  BY DEF NoLoop
<1>3. PICK s \in S : /\ s \in snaps => parentOf[s] \notin S
                     /\ \A j \in Procs : Writes(j, s) => at[j].par \notin S
  BY DEF NoLoop
<1> QED
  BY <1>2, <1>3

(* Both lemmas together, for the steps that leave the manifests alone. *)
LEMMA MoveHistory ==
    ASSUME HistoryInv,
           NEW k \in Procs, NEW label \in Labels, NEW locals \in Locals,
           Goto(k, label, locals),
           label # "snap_manifest",
           UNCHANGED <<snaps, parentOf>>,
           label \in CarriesParent => locals.par \in snaps \cup Marks,
           label \in CarriesHead   => locals.id \in snaps \cup Marks,
           label \in CarriesRef    => locals.ref \in Branches \cup snaps,
           label \in CarriesSaved  => locals.id \in snaps,
           \A b \in Branches : heads'[b] \in snaps \cup Marks,
           HEAD' \in snaps \cup Branches \cup Marks
    PROVE  SavedIds' /\ NoLoop'
<1>1. \A s \in snaps' : parentOf'[s] \in snaps' \cup Marks
  BY DEF HistoryInv, SavedIds, NoDanglingIds
<1>2. SavedIds'
  BY <1>1, MoveIds DEF HistoryInv
<1>3. NoLoop'
  BY NoNewEdge DEF HistoryInv
<1> QED
  BY <1>2, <1>3

(* What the invariant says of one process and of the refs. *)
LEMMA HistoryFacts ==
    ASSUME HistoryInv, NEW k \in Procs
    PROVE  /\ at[k] \in Locals /\ Free \in Locals
           /\ pc[k] \in CarriesParent => at[k].par \in snaps \cup Marks
           /\ pc[k] \in CarriesHead   => at[k].id \in snaps \cup Marks
           /\ pc[k] \in CarriesRef    => at[k].ref \in Branches \cup snaps
           /\ pc[k] \in CarriesSaved  => at[k].id \in snaps
           /\ pc[k] \in HoldsState    => at[k].id \in States
           /\ pc[k] \in HoldsBranch   => at[k].ref \in Branches
           /\ \A b \in Branches : heads[b] \in snaps \cup Marks
           /\ HEAD \in snaps \cup Branches \cup Marks
BY FreeLocals DEF HistoryInv, TypeInv, TypeOK, HeldStates, SavedIds, NoDanglingIds, CarriedIds

LEMMA InitCmdHistory ==
    ASSUME HistoryInv, NEW k \in Procs,
           InitOpen(k) \/ InitCreate(k) \/ InitFill(k) \/ HeadTruncate(k) \/ HeadWrite(k)
    PROVE  SavedIds' /\ NoLoop'
<1> USE HistoryFacts
    DEF refs, saved, store, Labels, CarriesParent, CarriesHead, CarriesRef, CarriesSaved
<1>1. CASE InitOpen(k)
  BY <1>1, MoveHistory DEF InitOpen
<1>2. CASE InitCreate(k)
  BY <1>2, MoveHistory DEF InitCreate
<1>3. CASE InitFill(k)
  <2> DEFINE toHead == [at[k] EXCEPT !.ref = Main]
  <2>1. toHead \in Locals /\ toHead.ref = Main
    BY BranchesAssumption DEF Locals
  <2>2. Goto(k, "head_truncate", toHead)
    BY <1>3 DEF InitFill
  <2> HIDE DEF toHead
  <2> QED
    BY <2>1, <2>2, <1>3, BranchesAssumption, MoveHistory DEF InitFill
<1>4. CASE HeadTruncate(k)
  BY <1>4, MoveHistory DEF HeadTruncate, Marks
<1>5. CASE HeadWrite(k)
  <2>1. HEAD' \in snaps \cup Branches \cup Marks
    BY <1>5, LandingTexts DEF HeadWrite, Marks
  <2> QED
    BY <2>1, <1>5, MoveHistory DEF HeadWrite, Exit
<1> QED
  BY <1>1, <1>2, <1>3, <1>4, <1>5

(* The decision to write a manifest adds the edge from an unsaved state to  *)
(* the parent: no edge points back at an unsaved state.                     *)
LEMMA DecisionKeepsNoLoop ==
    ASSUME HistoryInv, NEW k \in Procs, SnapHashed(k)
    PROVE  NoLoop'
<1>0. /\ UNCHANGED <<snaps, parentOf>>
      /\ at[k].par \in snaps \cup Marks
      /\ at[k] \in Locals /\ Free \in Locals
      /\ pc \in [Procs -> Labels] /\ at \in [Procs -> Locals]
  BY HistoryFacts DEF SnapHashed, store, CarriesParent, HistoryInv, TypeInv, TypeOK
<1>1. \A j \in Procs : \A s \in States : Writes(j, s)' =>
          /\ at'[j] = at[j]
          /\ Writes(j, s) \/ (j = k /\ s = at[k].id /\ s \notin snaps)
  <2>1. ASSUME NEW label \in {"idle", "ref_truncate"}, NEW locals \in Locals,
               Goto(k, label, locals)
        PROVE  \A j \in Procs : \A s \in States :
                   Writes(j, s)' => at'[j] = at[j] /\ Writes(j, s)
    <3>1. label \in Labels
      BY DEF Labels
    <3>2. pc'[k] = label /\ \A j \in Procs \ {k} : pc'[j] = pc[j] /\ at'[j] = at[j]
      BY <1>0, <2>1, <3>1, GotoMoves
    <3> QED
      BY <3>2 DEF Writes
  <2>2. CASE Goto(k, "snap_manifest", at[k]) /\ at[k].id \notin snaps
    <3>1. at'[k] = at[k] /\ \A j \in Procs \ {k} : pc'[j] = pc[j] /\ at'[j] = at[j]
      BY <1>0, <2>2, GotoMoves DEF Labels, SnapWindow
    <3> QED
      BY <2>2, <3>1 DEF Writes
  <2> QED
    BY <1>0, <2>1, <2>2 DEF SnapHashed, Exit
<1>2. \A s \in snaps : parentOf[s] \in snaps \cup Marks
  BY DEF HistoryInv, SavedIds, NoDanglingIds
<1>3. \A s \in States, j \in Procs : Writes(j, s) => at[j].par \in snaps \cup Marks
  BY DEF HistoryInv, SavedIds, CarriedIds, CarriesParent, Writes
<1>4. States \cap Marks = {} /\ snaps \subseteq States
  BY MarksAssumption DEF HistoryInv, TypeInv, TypeOK
<1> SUFFICES ASSUME NEW S \in SUBSET States, S # {}
             PROVE  \E s \in S : /\ s \in snaps => parentOf[s] \notin S
                                 /\ \A j \in Procs : Writes(j, s)' => at[j].par \notin S
  BY <1>0, <1>1 DEF NoLoop
<1>5. CASE S \cap snaps # {}
  <2> DEFINE T == S \cap snaps
  <2>1. T \in SUBSET States /\ T # {}
    BY <1>5
  <2>2. PICK t \in T : /\ t \in snaps => parentOf[t] \notin T
                       /\ \A j \in Procs : Writes(j, t) => at[j].par \notin T
    <3> HIDE DEF T
    <3> QED
      BY <2>1 DEF HistoryInv, NoLoop
  <2>3. parentOf[t] \notin S
    BY <2>2, <1>2, <1>4
  <2>4. \A j \in Procs : Writes(j, t)' => at[j].par \notin S
    BY <2>2, <1>1, <1>3, <1>4
  <2> QED
    BY <2>3, <2>4
<1>6. CASE S \cap snaps = {}
  <2>1. \A s \in S, j \in Procs : Writes(j, s)' => at[j].par \in snaps \cup Marks
    BY <1>0, <1>1, <1>3
  <2> QED
    BY <1>0, <1>4, <1>6, <2>1
<1> QED
  BY <1>5, <1>6

(* The manifest that is written turns a pending edge into a recorded one. *)
LEMMA ManifestKeepsNoLoop ==
    ASSUME HistoryInv, NEW k \in Procs, SnapManifest(k)
    PROVE  NoLoop'
<1>1. /\ Writes(k, at[k].id) /\ at[k].id \in States
      /\ snaps' = snaps \cup {at[k].id}
      /\ parentOf' = [parentOf EXCEPT ![at[k].id] = at[k].par]
      /\ parentOf \in [States -> States \cup Marks]
  BY HistoryFacts DEF SnapManifest, Writes, HoldsState, SnapWindow, HistoryInv, TypeInv, TypeOK
<1>2. \A s \in States, j \in Procs : Writes(j, s)' => Writes(j, s) /\ at'[j] = at[j]
  BY GotoMoves, HistoryFacts, ZenonT(60) DEF SnapManifest, Writes, HistoryInv, TypeInv, TypeOK, Labels
<1> SUFFICES ASSUME NEW S \in SUBSET States, S # {}
             PROVE  \E s \in S : /\ s \in snaps' => parentOf'[s] \notin S
                                 /\ \A j \in Procs : Writes(j, s)' => at'[j].par \notin S
  BY DEF NoLoop
<1>3. PICK s \in S : /\ s \in snaps => parentOf[s] \notin S
                     /\ \A j \in Procs : Writes(j, s) => at[j].par \notin S
  BY DEF HistoryInv, NoLoop
<1>4. s \in snaps' => parentOf'[s] \notin S
  BY <1>1, <1>3
<1> QED
  BY <1>2, <1>3, <1>4

LEMMA SnapHistory ==
    ASSUME HistoryInv, NEW k \in Procs,
           \/ SnapOpen(k) \/ SnapHead(k) \/ SnapParent(k) \/ SnapPage(k)
           \/ SnapHashed(k) \/ SnapManifest(k)
    PROVE  SavedIds' /\ NoLoop'
<1> USE HistoryFacts
    DEF refs, saved, store, Labels, SnapWindow, HoldsState, HoldsBranch,
        CarriesParent, CarriesHead, CarriesRef, CarriesSaved
<1>1. CASE SnapOpen(k)
  <2> DEFINE opened == [Free EXCEPT !.id = db]
  <2>1. opened \in Locals
    BY DEF Locals, Marks, HistoryInv, TypeInv, TypeOK
  <2>2. Goto(k, "snap_head", opened)
    BY <1>1 DEF SnapOpen
  <2> HIDE DEF opened
  <2> QED
    BY <2>1, <2>2, <1>1, MoveHistory DEF SnapOpen
<1>2. CASE SnapHead(k)
  <2> DEFINE onBranch == [at[k] EXCEPT !.ref = HEAD]
  <2>1. CASE HEAD \in Branches
    <3>1. onBranch \in Locals
      BY <2>1 DEF Locals
    <3>2. Goto(k, "snap_parent", onBranch)
      BY <2>1, <1>2 DEF SnapHead
    <3> HIDE DEF onBranch
    <3> QED
      BY <3>1, <3>2, <1>2, MoveHistory DEF SnapHead
  <2>2. CASE HEAD \notin Branches
    BY <2>2, <1>2, MoveHistory DEF SnapHead, Exit
  <2> QED
    BY <2>1, <2>2
<1>3. CASE SnapParent(k)
  <2> DEFINE known == [at[k] EXCEPT !.par = heads[at[k].ref]]
  <2>1. heads[at[k].ref] \in snaps \cup Marks
    BY <1>3 DEF SnapParent
  <2>2. known \in Locals /\ known.par = heads[at[k].ref]
    BY <2>1 DEF Locals, HistoryInv, TypeInv, TypeOK
  <2>3. Goto(k, "snap_pages", known)
    BY <1>3 DEF SnapParent
  <2> HIDE DEF known
  <2> QED
    BY <2>1, <2>2, <2>3, <1>3, MoveHistory DEF SnapParent
<1>4. CASE SnapPage(k)
  <2> DEFINE moved == [at[k] EXCEPT !.pg = @ + 1]
  <2>1. moved \in Locals /\ moved.par = at[k].par
    BY DEF Locals
  <2>2. Goto(k, "snap_pages", moved)
    BY <1>4 DEF SnapPage
  <2> HIDE DEF moved
  <2> QED
    BY <2>1, <2>2, <1>4, MoveHistory DEF SnapPage
<1>5. CASE SnapHashed(k)
  <2>1. SavedIds'
    <3>0. /\ UNCHANGED <<snaps, parentOf, heads, HEAD>>
          /\ at[k].par \in snaps \cup Marks
          /\ \A s \in snaps : parentOf[s] \in snaps \cup Marks
      BY <1>5 DEF SnapHashed, HistoryInv, SavedIds, NoDanglingIds
    <3>1. CASE Exit(k)
      BY <3>0, <3>1, MoveIds DEF Exit, HistoryInv
    <3>2. CASE Goto(k, "ref_truncate", at[k]) /\ at[k].id \in snaps
      BY <3>0, <3>2, MoveIds DEF HistoryInv
    <3>3. CASE Goto(k, "snap_manifest", at[k])
      BY <3>0, <3>3, MoveIds DEF HistoryInv
    <3> QED
      BY <3>1, <3>2, <3>3, <1>5 DEF SnapHashed
  <2> QED
    BY <2>1, <1>5, DecisionKeepsNoLoop
<1>6. CASE SnapManifest(k)
  <2>1. /\ snaps' = snaps \cup {at[k].id}
        /\ at[k].par \in snaps \cup Marks
        /\ UNCHANGED <<heads, HEAD>>
        /\ Goto(k, "ref_truncate", at[k])
    BY <1>6 DEF SnapManifest
  <2>2. \A s \in snaps' : parentOf'[s] \in snaps' \cup Marks
    BY <2>1, <1>6 DEF SnapManifest, HistoryInv, TypeInv, TypeOK, SavedIds, NoDanglingIds
  <2>3. SavedIds'
    BY <2>1, <2>2, MoveIds DEF HistoryInv
  <2> QED
    BY <2>3, <1>6, ManifestKeepsNoLoop
<1> QED
  BY <1>1, <1>2, <1>3, <1>4, <1>5, <1>6

LEMMA BranchHistory ==
    ASSUME HistoryInv, NEW k \in Procs,
           \/ RefTruncate(k) \/ RefWrite(k)
           \/ \E name \in Branches, r \in Branches \cup States \cup {None} :
                  BranchOpen(k, name, r)
    PROVE  SavedIds' /\ NoLoop'
<1> USE HistoryFacts
    DEF refs, saved, store, Labels, CarriesParent, CarriesHead, CarriesRef, CarriesSaved
<1>0. heads \in [Branches -> States \cup Marks]
  BY DEF HistoryInv, TypeInv, TypeOK
<1>1. CASE RefTruncate(k)
  <2>1. \A b \in Branches : heads'[b] \in snaps \cup Marks
    BY <1>0, <1>1 DEF RefTruncate, Marks
  <2> QED
    BY <2>1, <1>1, MoveHistory DEF RefTruncate
<1>2. CASE RefWrite(k)
  <2>1. PICK text \in Landing(heads[at[k].ref], at[k].id) :
            heads' = [heads EXCEPT ![at[k].ref] = text]
    BY <1>2 DEF RefWrite
  <2>2. text \in snaps \cup Marks
    BY <1>2, <2>1, LandingTexts DEF RefWrite, Marks
  <2>3. \A b \in Branches : heads'[b] \in snaps \cup Marks
    BY <1>0, <2>1, <2>2
  <2> QED
    BY <2>3, <1>2, MoveHistory DEF RefWrite, Exit
<1>3. ASSUME NEW name \in Branches, NEW r \in Branches \cup States \cup {None},
             BranchOpen(k, name, r)
      PROVE  SavedIds' /\ NoLoop'
  <2> DEFINE opened == [Free EXCEPT !.id = ForkPoint(r), !.ref = name]
  <2>1. ForkPoint(r) \in snaps \cup Marks
    BY <1>3, MarksAssumption DEF BranchOpen, ForkPoint, Resolve, Marks
  <2>2. opened \in Locals /\ opened.id = ForkPoint(r)
    BY <2>1 DEF Locals, HistoryInv, TypeInv, TypeOK
  <2>3. Goto(k, "ref_truncate", opened)
    BY <1>3 DEF BranchOpen
  <2> HIDE DEF opened
  <2> QED
    BY <2>1, <2>2, <2>3, <1>3, MoveHistory DEF BranchOpen
<1> QED
  BY <1>1, <1>2, <1>3

LEMMA CheckoutHistory ==
    ASSUME HistoryInv, NEW k \in Procs,
           \/ \E r \in Branches \cup States, force \in BOOLEAN : CheckoutOpen(k, r, force)
           \/ CheckoutCheck(k) \/ CheckoutManifest(k) \/ CheckoutPage(k)
           \/ CheckoutCopied(k) \/ CheckoutSwap(k) \/ CheckoutHead(k)
    PROVE  SavedIds' /\ NoLoop'
<1> USE HistoryFacts
    DEF refs, saved, store, Labels, FileWindow,
        CarriesParent, CarriesHead, CarriesRef, CarriesSaved
<1>1. ASSUME NEW r \in Branches \cup States, NEW force \in BOOLEAN,
             CheckoutOpen(k, r, force)
      PROVE  SavedIds' /\ NoLoop'
  <2> DEFINE opened == [Free EXCEPT !.id = Resolve(r), !.ref = r, !.force = force]
             next == IF db = None \/ force THEN "checkout_manifest" ELSE "checkout_check"
  <2>1. Resolve(r) \in States \cup Marks
    BY DEF Resolve, Marks, HistoryInv, TypeInv, TypeOK
  <2>2. opened \in Locals /\ opened.ref = r
    BY <2>1 DEF Locals
  <2>3. r \in Branches \cup snaps
    BY <1>1 DEF CheckoutOpen, Resolve
  <2>4. Goto(k, next, opened)
    BY <1>1 DEF CheckoutOpen
  <2> HIDE DEF opened
  <2> QED
    BY <2>2, <2>3, <2>4, <1>1, MoveHistory DEF CheckoutOpen
<1>2. CASE CheckoutCheck(k)
  BY <1>2, MoveHistory DEF CheckoutCheck, Exit
<1>3. CASE CheckoutManifest(k)
  BY <1>3, MoveHistory DEF CheckoutManifest, Readable, Exit
<1>4. CASE CheckoutPage(k)
  <2> DEFINE moved == [at[k] EXCEPT !.pg = @ + 1]
  <2>1. moved \in Locals /\ moved.id = at[k].id /\ moved.ref = at[k].ref
    BY DEF Locals
  <2>2. Goto(k, "checkout_pages", moved) \/ Exit(k)
    BY <1>4 DEF CheckoutPage
  <2> HIDE DEF moved
  <2> QED
    BY <2>1, <2>2, <1>4, MoveHistory DEF CheckoutPage, Exit
<1>5. CASE CheckoutCopied(k)
  BY <1>5, MoveHistory DEF CheckoutCopied
<1>6. CASE CheckoutSwap(k)
  BY <1>6, MoveHistory DEF CheckoutSwap
<1>7. CASE CheckoutHead(k)
  BY <1>7, MoveHistory DEF CheckoutHead, Exit
<1> QED
  BY <1>1, <1>2, <1>3, <1>4, <1>5, <1>6, <1>7

LEMMA GcHistory ==
    ASSUME HistoryInv, NEW k \in Procs,
           GcMark(k) \/ GcList(k) \/ GcSweep(k) \/ GcDone(k)
    PROVE  SavedIds' /\ NoLoop'
<1> USE HistoryFacts
    DEF refs, saved, store, Labels, GcWindow,
        CarriesParent, CarriesHead, CarriesRef, CarriesSaved
<1>1. CASE GcMark(k)
  <2> DEFINE marked == [Free EXCEPT !.todo = LivePages]
  <2>1. \A s \in snaps : s \in Seq(Pages)
    BY StatesAssumption DEF HistoryInv, TypeInv, TypeOK
  <2>2. LivePages \subseteq Pages
    BY <2>1 DEF LivePages, Range
  <2>3. marked \in Locals
    BY <2>2 DEF Locals
  <2>4. Goto(k, "gc_list", marked)
    BY <1>1 DEF GcMark
  <2> HIDE DEF marked
  <2> QED
    BY <2>3, <2>4, <1>1, MoveHistory DEF GcMark
<1>2. CASE GcList(k)
  <2> DEFINE listed == [at[k] EXCEPT !.todo = objects \ @]
  <2>1. listed \in Locals
    BY DEF Locals, HistoryInv, TypeInv, TypeOK
  <2>2. Goto(k, "gc_sweep", listed)
    BY <1>2 DEF GcList
  <2> HIDE DEF listed
  <2> QED
    BY <2>1, <2>2, <1>2, MoveHistory DEF GcList
<1>3. CASE GcSweep(k)
  <2> DEFINE swept(p) == [at[k] EXCEPT !.todo = @ \ {p}]
  <2>1. PICK p \in at[k].todo : Goto(k, "gc_sweep", swept(p)) \/ Exit(k)
    BY <1>3 DEF GcSweep
  <2>2. swept(p) \in Locals
    BY DEF Locals
  <2> HIDE DEF swept
  <2> QED
    BY <2>1, <2>2, <1>3, MoveHistory DEF GcSweep, Exit
<1>4. CASE GcDone(k)
  BY <1>4, MoveHistory DEF GcDone, Exit
<1> QED
  BY <1>1, <1>2, <1>3, <1>4

LEMMA LogHistory ==
    ASSUME HistoryInv, NEW k \in Procs, LogOpen(k) \/ LogStep(k)
    PROVE  SavedIds' /\ NoLoop'
<1> USE HistoryFacts
    DEF refs, saved, store, Labels, CarriesParent, CarriesHead, CarriesRef, CarriesSaved
<1>1. CASE LogOpen(k)
  <2> DEFINE from == IF HEAD \in Branches THEN heads[HEAD] ELSE HEAD
             opened == [Free EXCEPT !.id = from]
  <2>1. from \in States \cup Marks
    BY <1>1 DEF LogOpen, HistoryInv, TypeInv, TypeOK
  <2> HIDE DEF from
  <2>2. opened \in Locals
    BY <2>1 DEF Locals
  <2>3. Goto(k, "log_walk", opened)
    BY <1>1 DEF LogOpen, from
  <2> HIDE DEF opened
  <2> QED
    BY <2>2, <2>3, <1>1, MoveHistory DEF LogOpen
<1>2. CASE LogStep(k)
  <2> DEFINE back == [at[k] EXCEPT !.id = parentOf[at[k].id]]
  <2>1. CASE at[k].id \in States
    <3>1. back \in Locals
      BY <2>1 DEF Locals, HistoryInv, TypeInv, TypeOK
    <3>2. Goto(k, "log_walk", back) \/ Exit(k)
      BY <1>2 DEF LogStep
    <3> HIDE DEF back
    <3> QED
      BY <3>1, <3>2, <1>2, MoveHistory DEF LogStep, Exit
  <2>2. CASE at[k].id \notin States
    BY <2>2, <1>2, MoveHistory DEF LogStep, Exit
  <2> QED
    BY <2>1, <2>2
<1> QED
  BY <1>1, <1>2

LEMMA EnvironmentHistory ==
    ASSUME HistoryInv, Edit \/ \E k \in Procs : Crash(k)
    PROVE  SavedIds' /\ NoLoop'
<1>1. CASE Edit
  BY <1>1 DEF Edit, store, HistoryInv, SavedIds, NoDanglingIds, CarriedIds, NoLoop, Writes
<1>2. ASSUME NEW k \in Procs, Crash(k)
      PROVE  SavedIds' /\ NoLoop'
  BY <1>2, HistoryFacts, MoveHistory
     DEF Crash, Exit, store, Labels, CarriesParent, CarriesHead, CarriesRef, CarriesSaved
<1> QED
  BY <1>1, <1>2

LEMMA NextHistory == HistoryInv /\ [Next]_vars => HistoryInv'
<1> SUFFICES ASSUME HistoryInv, [Next]_vars
             PROVE  SavedIds' /\ NoLoop'
  BY NextTypes DEF HistoryInv
<1>1. CASE UNCHANGED vars
  BY <1>1 DEF vars, HistoryInv, SavedIds, NoDanglingIds, CarriedIds, NoLoop, Writes
<1>2. CASE Next
  BY <1>2, InitCmdHistory, SnapHistory, BranchHistory, CheckoutHistory, GcHistory,
     LogHistory, EnvironmentHistory DEF Next, Start, Step
<1> QED
  BY <1>1, <1>2

LEMMA SpecHistory == Spec => []HistoryInv
<1>1. Init => HistoryInv
  BY InitTypes, InitHistory DEF HistoryInv
<1> QED
  BY <1>1, NextHistory, PTL DEF Spec

---------------------------------------------------------------------------
(* Under any interleaving and any interruption, a branch, a detached HEAD   *)
(* and a parent line name saved snapshots or are visibly torn.              *)
THEOREM IdsNameSnapshots == Spec => []NoDanglingIds
<1>1. HistoryInv => NoDanglingIds
  BY DEF HistoryInv, SavedIds
<1> QED
  BY <1>1, SpecHistory, PTL

(* Under any interleaving and any interruption, the manifests form a        *)
(* forest: log comes to a root from everywhere.                             *)
THEOREM HistoryNeverLoops == Spec => []HistoryAcyclic
<1>1. HistoryInv => HistoryAcyclic
  <2> SUFFICES ASSUME HistoryInv, NEW S \in SUBSET snaps, S # {}
               PROVE  \E s \in S : parentOf[s] \notin S
    BY DEF HistoryAcyclic
  <2>1. S \in SUBSET States
    BY DEF HistoryInv, TypeInv, TypeOK
  <2>2. PICK s \in S : s \in snaps => parentOf[s] \notin S
    BY <2>1 DEF HistoryInv, NoLoop
  <2> QED
    BY <2>2
<1> QED
  BY <1>1, SpecHistory, PTL
---------------------------------------------------------------------------
(* One command at a time: what snap found unsaved is still so when it       *)
(* writes the manifest.                                                     *)
OneProcess == \A j, k \in Procs : j = k

WritesNew == \A k \in Procs : pc[k] = "snap_manifest" => at[k].id \notin snaps

LEMMA MoveWritesNew ==
    ASSUME OneProcess, HistoryInv, NEW k \in Procs, NEW label, NEW locals,
           Goto(k, label, locals),
           label = "snap_manifest" => locals.id \notin snaps'
    PROVE  WritesNew'
<1>1. pc'[k] = label /\ at'[k] = locals
  BY DEF Goto, HistoryInv, TypeInv, TypeOK
<1> QED
  BY <1>1 DEF OneProcess, WritesNew

(* Every action but one of Edit leaves its process elsewhere.               *)
LEMMA LeaveWritesNew ==
    ASSUME OneProcess, HistoryInv, NEW k \in Procs,
           \E label, locals : label # "snap_manifest" /\ Goto(k, label, locals)
    PROVE  WritesNew'
BY MoveWritesNew

LEMMA NextWritesNew ==
    ASSUME OneProcess, HistoryInv, WritesNew, [Next]_vars
    PROVE  WritesNew'
<1>1. CASE UNCHANGED vars \/ Edit
  BY <1>1 DEF vars, Edit, store, WritesNew
<1>2. ASSUME NEW k \in Procs, Start(k) \/ Step(k) \/ Crash(k)
      PROVE  WritesNew'
  <2>1. CASE SnapHashed(k)
    <3>1. CASE at[k].id \in snaps \/ at[k].par = at[k].id
      BY <2>1, <3>1, LeaveWritesNew DEF SnapHashed, Exit
    <3>2. CASE at[k].id \notin snaps /\ at[k].par # at[k].id
      BY <2>1, <3>2, MoveWritesNew DEF SnapHashed, store
    <3> QED BY <3>1, <3>2
  <2>2. CASE InitOpen(k) \/ InitCreate(k) \/ InitFill(k)
    BY <2>2, LeaveWritesNew DEF InitOpen, InitCreate, InitFill
  <2>3. CASE HeadTruncate(k) \/ HeadWrite(k) \/ Crash(k)
    BY <2>3, LeaveWritesNew DEF HeadTruncate, HeadWrite, Crash, Exit
  <2>4. CASE SnapOpen(k) \/ SnapHead(k) \/ SnapParent(k)
    BY <2>4, LeaveWritesNew DEF SnapOpen, SnapHead, SnapParent, Exit
  <2>5. CASE SnapPage(k) \/ SnapManifest(k)
    BY <2>5, LeaveWritesNew DEF SnapPage, SnapManifest
  <2>6. CASE RefTruncate(k) \/ RefWrite(k)
    BY <2>6, LeaveWritesNew DEF RefTruncate, RefWrite, Exit
  <2>7. CASE \E name \in Branches, r \in Branches \cup States \cup {None} :
                 BranchOpen(k, name, r)
    BY <2>7, LeaveWritesNew DEF BranchOpen
  <2>8. CASE \E r \in Branches \cup States, force \in BOOLEAN : CheckoutOpen(k, r, force)
    <3>1. \E label, locals : label \in {"checkout_manifest", "checkout_check"}
                            /\ Goto(k, label, locals)
      BY <2>8 DEF CheckoutOpen
    <3> QED BY <3>1, LeaveWritesNew
  <2>9. CASE CheckoutCheck(k) \/ CheckoutManifest(k) \/ CheckoutPage(k)
    BY <2>9, LeaveWritesNew DEF CheckoutCheck, CheckoutManifest, CheckoutPage, Exit
  <2>10. CASE CheckoutCopied(k) \/ CheckoutSwap(k) \/ CheckoutHead(k)
    BY <2>10, LeaveWritesNew DEF CheckoutCopied, CheckoutSwap, CheckoutHead, Exit
  <2>11. CASE GcMark(k) \/ GcList(k) \/ GcSweep(k) \/ GcDone(k)
    BY <2>11, LeaveWritesNew DEF GcMark, GcList, GcSweep, GcDone, Exit
  <2>12. CASE LogOpen(k) \/ LogStep(k)
    BY <2>12, LeaveWritesNew DEF LogOpen, LogStep, Exit
  <2> QED
    BY <1>2, <2>1, <2>2, <2>3, <2>4, <2>5, <2>6, <2>7, <2>8, <2>9, <2>10, <2>11,
       <2>12 DEF Start, Step
<1> QED
  BY <1>1, <1>2 DEF Next

(* With one process at a time, a manifest keeps the parent it was first     *)
(* written with, wherever earlier commands were killed.                     *)
THEOREM FirstCreationStays ==
    ASSUME OneProcess
    PROVE  Spec => FirstCreationRecorded
<1>1. Init => WritesNew
  BY DEF Init, WritesNew
<1>2. HistoryInv /\ WritesNew /\ [Next]_vars => WritesNew'
  BY NextWritesNew
<1>3. ASSUME HistoryInv, WritesNew, Next, NEW s \in snaps
      PROVE  parentOf'[s] = parentOf[s]
  <2>1. CASE \E k \in Procs : SnapManifest(k)
    <3>1. PICK k \in Procs : SnapManifest(k)
      BY <2>1
    <3>2. parentOf' = [parentOf EXCEPT ![at[k].id] = at[k].par] /\ at[k].id # s
      BY <1>3, <3>1 DEF SnapManifest, WritesNew
    <3>3. parentOf \in [States -> States \cup Marks] /\ s \in States
      BY <1>3 DEF HistoryInv, TypeInv, TypeOK
    <3> QED BY <3>2, <3>3
  <2>2. CASE \A k \in Procs : ~ SnapManifest(k)
    <3>1. ASSUME NEW k \in Procs, Start(k) \/ Crash(k) \/ LogStep(k)
          PROVE  UNCHANGED parentOf
      <4>1. InitOpen(k) \/ SnapOpen(k) \/ Crash(k) => UNCHANGED parentOf
        BY DEF InitOpen, SnapOpen, Crash, store
      <4>2. GcMark(k) \/ LogOpen(k) \/ LogStep(k) => UNCHANGED parentOf
        BY DEF GcMark, LogOpen, LogStep, store
      <4>3. ASSUME NEW name, NEW r, BranchOpen(k, name, r)
            PROVE  UNCHANGED parentOf
        BY <4>3 DEF BranchOpen, store
      <4>4. ASSUME NEW r, NEW force, CheckoutOpen(k, r, force)
            PROVE  UNCHANGED parentOf
        BY <4>4 DEF CheckoutOpen, store
      <4> QED BY <3>1, <4>1, <4>2, <4>3, <4>4 DEF Start
    <3>2. ASSUME NEW k \in Procs,
                 \/ InitCreate(k) \/ InitFill(k) \/ HeadTruncate(k) \/ HeadWrite(k)
                 \/ SnapHead(k) \/ SnapParent(k) \/ SnapPage(k) \/ SnapHashed(k)
                 \/ RefTruncate(k) \/ RefWrite(k)
          PROVE  UNCHANGED parentOf
      BY <3>2 DEF InitCreate, InitFill, HeadTruncate, HeadWrite, SnapHead, SnapParent,
                  SnapPage, SnapHashed, RefTruncate, RefWrite, store, saved
    <3>3. ASSUME NEW k \in Procs,
                 \/ CheckoutCheck(k) \/ CheckoutManifest(k) \/ CheckoutPage(k)
                 \/ CheckoutCopied(k) \/ CheckoutSwap(k) \/ CheckoutHead(k)
                 \/ GcList(k) \/ GcSweep(k) \/ GcDone(k)
          PROVE  UNCHANGED parentOf
      BY <3>3 DEF CheckoutCheck, CheckoutManifest, CheckoutPage, CheckoutCopied,
                  CheckoutSwap, CheckoutHead, GcList, GcSweep, GcDone, store
    <3>4. Edit => UNCHANGED parentOf
      BY DEF Edit, store
    <3> QED BY <1>3, <2>2, <3>1, <3>2, <3>3, <3>4 DEF Next, Step
  <2> QED BY <2>1, <2>2
<1>4. HistoryInv /\ WritesNew /\ [Next]_vars
        => [\A s \in snaps : parentOf'[s] = parentOf[s]]_vars
  BY <1>3
<1> QED
  BY <1>1, <1>2, <1>4, SpecHistory, PTL DEF Spec, FirstCreationRecorded
---------------------------------------------------------------------------
(* A checkout that nobody disturbs ends with HEAD at what it restored: the  *)
(* ref still means the state it was resolved to, and HEAD is empty when it  *)
(* is written.                                                              *)
Landings == {"checkout_check", "checkout_manifest", "checkout_pages", "checkout_swap",
             "checkout_head", "head_truncate", "head_write"}

Inits == {"init_create", "init_fill"}

Means(ref) == IF ref \in Branches THEN heads[ref] ELSE ref

KnowsWhere == \A k \in Procs :
    /\ pc[k] \in Landings /\ at[k].id # None => Means(at[k].ref) = at[k].id
    /\ pc[k] \in Inits => at[k].id = None
    /\ pc[k] = "head_write" => HEAD = Blank

LEMMA MoveKnows ==
    ASSUME OneProcess, HistoryInv, NEW k \in Procs, NEW label, NEW locals,
           Goto(k, label, locals),
           label \in Landings /\ locals.id # None => Means(locals.ref)' = locals.id,
           label \in Inits => locals.id = None,
           label = "head_write" => HEAD' = Blank
    PROVE  KnowsWhere'
<1>1. pc'[k] = label /\ at'[k] = locals
  BY DEF Goto, HistoryInv, TypeInv, TypeOK
<1> QED
  BY <1>1 DEF OneProcess, KnowsWhere, Means

LEMMA LeaveKnows ==
    ASSUME OneProcess, HistoryInv, NEW k \in Procs,
           \E label, locals : label \notin Landings \cup Inits /\ Goto(k, label, locals)
    PROVE  KnowsWhere'
BY MoveKnows DEF Landings

(* A step of a checkout that goes on with its state and its ref. *)
LEMMA StayKnows ==
    ASSUME OneProcess, HistoryInv, KnowsWhere, NEW k \in Procs, pc[k] \in Landings,
           NEW label \in Landings, label # "head_write",
           NEW locals, locals.id = at[k].id, locals.ref = at[k].ref,
           Goto(k, label, locals),
           UNCHANGED heads
    PROVE  KnowsWhere'
<1>1. locals.id # None => Means(locals.ref)' = locals.id
  BY DEF KnowsWhere, Means
<1> QED
  BY <1>1, MoveKnows DEF Landings, Inits

LEMMA CheckoutKnows ==
    ASSUME OneProcess, HistoryInv, KnowsWhere, NEW k \in Procs,
           \/ \E r \in Branches \cup States, force \in BOOLEAN : CheckoutOpen(k, r, force)
           \/ CheckoutCheck(k) \/ CheckoutManifest(k) \/ CheckoutPage(k)
           \/ CheckoutCopied(k) \/ CheckoutSwap(k) \/ CheckoutHead(k)
    PROVE  KnowsWhere'
<1> USE DEF Landings, Inits, store
<1>1. ASSUME NEW r \in Branches \cup States, NEW force \in BOOLEAN, CheckoutOpen(k, r, force)
      PROVE  KnowsWhere'
  <2> DEFINE opened == [Free EXCEPT !.id = Resolve(r), !.ref = r, !.force = force]
             next == IF db = None \/ force THEN "checkout_manifest" ELSE "checkout_check"
  <2>1. opened.id = Resolve(r) /\ opened.ref = r
    BY DEF Free
  <2>2. Goto(k, next, opened) /\ UNCHANGED heads /\ Resolve(r) # None
    <3>1. Goto(k, next, opened)
      BY <1>1 DEF CheckoutOpen
    <3>2. UNCHANGED heads /\ Resolve(r) # None
      BY <1>1, HistoryFacts DEF CheckoutOpen
    <3> QED BY <3>1, <3>2
  <2>3. next \notin Inits \cup {"head_write"}
    OBVIOUS
  <2> HIDE DEF opened, next
  <2>4. PICK label, locals : label = next /\ locals = opened /\ Goto(k, label, locals)
    BY <2>2
  <2>5. Means(locals.ref)' = locals.id
    BY <2>1, <2>2, <2>4 DEF Means, Resolve
  <2> QED
    BY <2>3, <2>4, <2>5, MoveKnows
<1>2. CASE CheckoutCheck(k)
  <2>1. CASE Exit(k)
    BY <2>1, LeaveKnows DEF Exit
  <2>2. CASE ~ Exit(k)
    BY <1>2, <2>2, StayKnows DEF CheckoutCheck
  <2> QED BY <2>1, <2>2
<1>3. CASE CheckoutManifest(k)
  <2>1. CASE Exit(k)
    BY <2>1, LeaveKnows DEF Exit
  <2>2. CASE ~ Exit(k)
    BY <1>3, <2>2, StayKnows DEF CheckoutManifest
  <2> QED BY <2>1, <2>2
<1>4. CASE CheckoutPage(k)
  <2>1. CASE Exit(k)
    BY <2>1, LeaveKnows DEF Exit
  <2>2. CASE ~ Exit(k)
    <3> DEFINE next == [at[k] EXCEPT !.pg = @ + 1]
    <3>1. next.id = at[k].id /\ next.ref = at[k].ref
      BY DEF HistoryInv, TypeInv, TypeOK, Locals
    <3>2. Goto(k, "checkout_pages", next) /\ UNCHANGED heads /\ pc[k] \in Landings
      BY <1>4, <2>2 DEF CheckoutPage
    <3> HIDE DEF next
    <3> QED BY <3>1, <3>2, StayKnows
  <2> QED BY <2>1, <2>2
<1>5. CASE CheckoutCopied(k) \/ CheckoutSwap(k)
  BY <1>5, StayKnows DEF CheckoutCopied, CheckoutSwap
<1>6. CASE CheckoutHead(k)
  <2>1. CASE Exit(k)
    BY <2>1, LeaveKnows DEF Exit
  <2>2. CASE ~ Exit(k)
    BY <1>6, <2>2, StayKnows DEF CheckoutHead
  <2> QED BY <2>1, <2>2
<1> QED
  BY <1>1, <1>2, <1>3, <1>4, <1>5, <1>6

LEMMA NextKnows ==
    ASSUME OneProcess, HistoryInv, KnowsWhere, [Next]_vars
    PROVE  KnowsWhere'
<1>1. CASE UNCHANGED vars \/ Edit
  BY <1>1 DEF vars, Edit, store, KnowsWhere, Means
<1>2. ASSUME NEW k \in Procs, Start(k) \/ Step(k) \/ Crash(k)
      PROVE  KnowsWhere'
  <2>1. CASE InitOpen(k) \/ InitCreate(k)
    <3>1. CASE InitOpen(k)
      BY <3>1, MoveKnows DEF InitOpen, Landings, Free
    <3>2. CASE InitCreate(k)
      BY <3>2, MoveKnows DEF InitCreate, Landings, Inits, KnowsWhere
    <3> QED BY <2>1, <3>1, <3>2
  <2>2. CASE InitFill(k)
    <3> DEFINE named == [at[k] EXCEPT !.ref = Main]
    <3>1. named.id = None
      BY <2>2 DEF InitFill, KnowsWhere, Inits, HistoryInv, TypeInv, TypeOK, Locals
    <3>2. Goto(k, "head_truncate", named)
      BY <2>2 DEF InitFill
    <3> HIDE DEF named
    <3> QED BY <3>1, <3>2, MoveKnows DEF Inits
  <2>3. CASE HeadTruncate(k)
    <3>1. PICK now : now = at[k] /\ Goto(k, "head_write", now)
      BY <2>3 DEF HeadTruncate
    <3>2. now.id # None => Means(now.ref)' = now.id
      BY <2>3, <3>1 DEF HeadTruncate, KnowsWhere, Means, Landings
    <3> QED
      BY <2>3, <3>1, <3>2, MoveKnows DEF HeadTruncate, Inits
  <2>4. CASE HeadWrite(k) \/ Crash(k)
    BY <2>4, LeaveKnows DEF HeadWrite, Crash, Exit, Landings, Inits
  <2>5. CASE SnapOpen(k) \/ SnapHead(k) \/ SnapParent(k)
    BY <2>5, LeaveKnows DEF SnapOpen, SnapHead, SnapParent, Exit, Landings, Inits
  <2>6. CASE SnapPage(k) \/ SnapManifest(k)
    BY <2>6, LeaveKnows DEF SnapPage, SnapManifest, Landings, Inits
  <2>7. CASE SnapHashed(k)
    BY <2>7, LeaveKnows DEF SnapHashed, Exit, Landings, Inits
  <2>8. CASE RefTruncate(k) \/ RefWrite(k)
    BY <2>8, LeaveKnows DEF RefTruncate, RefWrite, Exit, Landings, Inits
  <2>9. CASE \E name \in Branches, r \in Branches \cup States \cup {None} :
                 BranchOpen(k, name, r)
    BY <2>9, LeaveKnows DEF BranchOpen, Landings, Inits
  <2>10. CASE GcMark(k) \/ GcList(k) \/ GcSweep(k) \/ GcDone(k)
    BY <2>10, LeaveKnows DEF GcMark, GcList, GcSweep, GcDone, Exit, Landings, Inits
  <2>11. CASE LogOpen(k) \/ LogStep(k)
    BY <2>11, LeaveKnows DEF LogOpen, LogStep, Exit, Landings, Inits
  <2> QED
    BY <1>2, <2>1, <2>2, <2>3, <2>4, <2>5, <2>6, <2>7, <2>8, <2>9, <2>10, <2>11,
       CheckoutKnows DEF Start, Step
<1> QED
  BY <1>1, <1>2 DEF Next

(* Nothing but its second half can follow the truncation of HEAD.           *)
LEMMA OnlyHeadWrite ==
    ASSUME OneProcess, NEW k \in Procs, pc[k] = "head_write", Next
    PROVE  HeadWrite(k) \/ Crash(k) \/ Edit
<1> SUFFICES ASSUME Start(k) \/ Step(k)
             PROVE  HeadWrite(k)
  BY DEF Next, OneProcess
<1>1. ASSUME Start(k)
      PROVE  FALSE
  <2>1. pc[k] = "idle"
    BY <1>1 DEF Start, InitOpen, SnapOpen, GcMark, LogOpen, BranchOpen, CheckoutOpen,
                OpenStore, Begin
  <2> QED BY <2>1
<1>2. ~ (InitCreate(k) \/ InitFill(k) \/ HeadTruncate(k) \/ RefTruncate(k) \/ RefWrite(k))
  BY DEF InitCreate, InitFill, HeadTruncate, RefTruncate, RefWrite
<1>3. ~ (SnapHead(k) \/ SnapParent(k) \/ SnapPage(k) \/ SnapHashed(k) \/ SnapManifest(k))
  BY DEF SnapHead, SnapParent, SnapPage, SnapHashed, SnapManifest
<1>4. ~ (CheckoutCheck(k) \/ CheckoutManifest(k) \/ CheckoutPage(k)
         \/ CheckoutCopied(k) \/ CheckoutSwap(k) \/ CheckoutHead(k))
  BY DEF CheckoutCheck, CheckoutManifest, CheckoutPage, CheckoutCopied, CheckoutSwap,
         CheckoutHead
<1>5. ~ (GcList(k) \/ GcSweep(k) \/ GcDone(k) \/ LogStep(k))
  BY DEF GcList, GcSweep, GcDone, LogStep
<1> QED
  BY <1>1, <1>2, <1>3, <1>4, <1>5 DEF Step

(* With one process that is not killed, a checkout that runs to its end     *)
(* leaves HEAD standing for the state it put into the database.             *)
THEOREM CheckoutAlwaysLands ==
    ASSUME OneProcess, MayCrash = FALSE
    PROVE  Spec => CheckoutLandsOnHead
<1> DEFINE Landed == \A k \in Procs :
               pc[k] = "head_write" /\ pc'[k] = "idle" /\ at[k].id # None
               => HeadId' = at[k].id
<1>1. Init => KnowsWhere
  BY DEF Init, KnowsWhere, Landings, Inits
<1>2. HistoryInv /\ KnowsWhere /\ [Next]_vars => KnowsWhere'
  BY NextKnows
<1>3. ASSUME HistoryInv, KnowsWhere, Next, NEW k \in Procs,
             pc[k] = "head_write", pc'[k] = "idle", at[k].id # None
      PROVE  HeadId' = at[k].id
  <2>1. CASE HeadWrite(k)
    <3>1. HEAD = Blank /\ Means(at[k].ref) = at[k].id
      BY <1>3 DEF KnowsWhere, Landings
    <3>2. HEAD' = at[k].ref /\ UNCHANGED heads
      BY <2>1, <3>1 DEF HeadWrite, Landing, saved
    <3> QED BY <3>1, <3>2 DEF Means, HeadId
  <2>2. CASE Edit
    BY <1>3, <2>2 DEF Edit
  <2> QED
    BY <1>3, <2>1, <2>2, OnlyHeadWrite DEF Crash
<1>4. HistoryInv /\ KnowsWhere /\ [Next]_vars => [Landed]_vars
  BY <1>3
<1> QED
  BY <1>1, <1>2, <1>4, SpecHistory, PTL DEF Spec, CheckoutLandsOnHead

---------------------------------------------------------------------------
(* When no process is killed, a branch file is empty only while the one     *)
(* process is writing it, and what it will write is a saved id.             *)
Settled ==
    /\ \A b \in Branches : \/ heads[b] \in snaps \cup {None}
                           \/ \E k \in Procs : pc[k] = "ref_write" /\ at[k].ref = b
    /\ \A k \in Procs : pc[k] \in CarriesHead => at[k].id \in snaps

LEMMA MoveSettled ==
    ASSUME OneProcess, HistoryInv, Settled, NEW k \in Procs, pc[k] # "ref_write",
           NEW label \in Labels \ {"ref_write"}, NEW locals, Goto(k, label, locals),
           label = "ref_truncate" => locals.id \in snaps',
           snaps \subseteq snaps',
           UNCHANGED heads
    PROVE  Settled'
<1>1. pc'[k] = label /\ at'[k] = locals
  BY DEF Goto, HistoryInv, TypeInv, TypeOK
<1>2. \A b \in Branches : heads[b] \in snaps \cup {None}
  BY DEF Settled, OneProcess
<1> QED
  BY <1>1, <1>2 DEF Settled, CarriesHead, OneProcess

LEMMA LeaveSettled ==
    ASSUME OneProcess, HistoryInv, Settled, NEW k \in Procs, pc[k] # "ref_write",
           \E label, locals : label \in Labels \ CarriesHead /\ Goto(k, label, locals),
           UNCHANGED <<heads, snaps>>
    PROVE  Settled'
BY MoveSettled DEF CarriesHead

LEMMA RefsSettled ==
    ASSUME OneProcess, HistoryInv, Settled, NEW k \in Procs,
           \/ RefTruncate(k) \/ RefWrite(k)
           \/ \E name \in Branches, r \in Branches \cup States \cup {None} :
                  BranchOpen(k, name, r)
    PROVE  Settled'
<1>1. CASE RefTruncate(k)
  <2>1. pc'[k] = "ref_write" /\ at'[k] = at[k] /\ at[k].id \in snaps /\ UNCHANGED snaps
    BY <1>1 DEF RefTruncate, Goto, saved, Settled, CarriesHead, HistoryInv, TypeInv, TypeOK
  <2>2. heads' = [heads EXCEPT ![at[k].ref] = Blank]
    BY <1>1 DEF RefTruncate
  <2>3. \A b \in Branches : heads[b] \in snaps \cup {None}
    BY <1>1 DEF RefTruncate, Settled, OneProcess
  <2> QED
    BY <2>1, <2>2, <2>3 DEF Settled, OneProcess, HistoryInv, TypeInv, TypeOK
<1>2. CASE RefWrite(k)
  <2>1. pc[k] = "ref_write" /\ pc'[k] = "idle" /\ at[k].id \in snaps /\ UNCHANGED snaps
    BY <1>2 DEF RefWrite, Exit, Goto, saved, Settled, CarriesHead, HistoryInv, TypeInv, TypeOK
  <2>2. heads' = [heads EXCEPT ![at[k].ref] = at[k].id]
    BY <1>2, <2>1 DEF RefWrite, Landing, HistoryInv, TypeInv, TypeOK
  <2>3. \A b \in Branches \ {at[k].ref} : heads[b] \in snaps \cup {None}
    BY DEF Settled, OneProcess
  <2>4. \A b \in Branches : heads'[b] \in snaps' \cup {None}
    BY <2>1, <2>2, <2>3 DEF HistoryInv, TypeInv, TypeOK
  <2> QED
    BY <2>1, <2>4 DEF Settled, OneProcess, CarriesHead
<1>3. ASSUME NEW name \in Branches, NEW r \in Branches \cup States \cup {None},
             BranchOpen(k, name, r)
      PROVE  Settled'
  <2>1. pc[k] = "idle" /\ UNCHANGED <<heads, snaps>> /\ ForkPoint(r) # None
    BY <1>3, HistoryFacts DEF BranchOpen, OpenStore, Begin, store
  <2>2. \A b \in Branches : heads[b] \in snaps \cup {None}
    BY <2>1 DEF Settled, OneProcess
  <2>3. ForkPoint(r) \in snaps
    <3>1. CASE r # None
      BY <2>1, <2>2, <3>1 DEF ForkPoint, Resolve
    <3>2. CASE r = None
      <4>1. HEAD \notin Marks
        BY <1>3, <2>1, <3>2, HistoryFacts DEF ForkPoint, BranchOpen, Marks
      <4>2. HEAD \in Branches \cup snaps
        BY <4>1 DEF HistoryInv, SavedIds, NoDanglingIds
      <4> QED BY <2>1, <2>2, <3>2, <4>2 DEF ForkPoint
    <3> QED BY <3>1, <3>2
  <2> DEFINE opened == [Free EXCEPT !.id = ForkPoint(r), !.ref = name]
  <2>4. opened.id \in snaps'
    BY <2>1, <2>3 DEF Free
  <2>5. Goto(k, "ref_truncate", opened)
    BY <1>3 DEF BranchOpen
  <2> HIDE DEF opened
  <2> QED
    BY <2>1, <2>4, <2>5, MoveSettled DEF Labels
<1> QED
  BY <1>1, <1>2, <1>3

LEMMA NextSettled ==
    ASSUME OneProcess, MayCrash = FALSE, HistoryInv, Settled, [Next]_vars
    PROVE  Settled'
<1>1. CASE UNCHANGED vars \/ Edit
  BY <1>1 DEF vars, Edit, store, Settled
<1>2. ASSUME NEW k \in Procs, Start(k) \/ Step(k)
      PROVE  Settled'
  <2> USE DEF Labels, SnapWindow, GcWindow, FileWindow, CarriesHead, store, saved, refs, Exit
  <2>1. CASE InitOpen(k) \/ InitCreate(k) \/ InitFill(k)
    BY <2>1, LeaveSettled DEF InitOpen, InitCreate, InitFill, Begin
  <2>2. CASE HeadTruncate(k) \/ HeadWrite(k)
    BY <2>2, LeaveSettled DEF HeadTruncate, HeadWrite
  <2>3. CASE SnapOpen(k) \/ SnapHead(k)
    BY <2>3, LeaveSettled DEF SnapOpen, SnapHead, OpenStore, Begin
  <2>4. CASE SnapParent(k) \/ SnapPage(k)
    BY <2>4, LeaveSettled DEF SnapParent, SnapPage
  <2>5. CASE SnapHashed(k)
    <3>1. CASE at[k].par = at[k].id \/ at[k].id \notin snaps
      BY <2>5, <3>1, LeaveSettled DEF SnapHashed
    <3>2. CASE at[k].par # at[k].id /\ at[k].id \in snaps
      BY <2>5, <3>2, MoveSettled DEF SnapHashed
    <3> QED BY <3>1, <3>2
  <2>6. CASE SnapManifest(k)
    BY <2>6, MoveSettled DEF SnapManifest
  <2>7. CASE \E r \in Branches \cup States, force \in BOOLEAN : CheckoutOpen(k, r, force)
    <3>1. PICK label, locals : label \in Labels \ CarriesHead /\ Goto(k, label, locals)
      BY <2>7 DEF CheckoutOpen
    <3>2. UNCHANGED <<heads, snaps>> /\ pc[k] # "ref_write"
      BY <2>7 DEF CheckoutOpen, OpenStore, Begin
    <3> QED BY <3>1, <3>2, LeaveSettled
  <2>8. CASE CheckoutCheck(k) \/ CheckoutManifest(k) \/ CheckoutPage(k)
    BY <2>8, LeaveSettled DEF CheckoutCheck, CheckoutManifest, CheckoutPage
  <2>9. CASE CheckoutCopied(k) \/ CheckoutSwap(k) \/ CheckoutHead(k)
    BY <2>9, LeaveSettled DEF CheckoutCopied, CheckoutSwap, CheckoutHead
  <2>10. CASE GcMark(k)
    BY <2>10, LeaveSettled DEF GcMark, OpenStore, Begin
  <2>11. CASE GcList(k) \/ GcSweep(k) \/ GcDone(k)
    BY <2>11, LeaveSettled DEF GcList, GcSweep, GcDone
  <2>12. CASE LogOpen(k) \/ LogStep(k)
    BY <2>12, LeaveSettled DEF LogOpen, LogStep, OpenStore, Begin
  <2> QED
    BY <1>2, <2>1, <2>2, <2>3, <2>4, <2>5, <2>6, <2>7, <2>8, <2>9, <2>10, <2>11,
       <2>12, RefsSettled DEF Start, Step
<1> QED
  BY <1>1, <1>2 DEF Next, Crash

(* After commands that ran one at a time and to their end, and whatever is  *)
(* then lost of the objects and manifests or altered in them: when verify   *)
(* accepts what is left, every branch that has a head can be restored.      *)
THEOREM VerifyIsSound ==
    ASSUME OneProcess, MayCrash = FALSE
    PROVE  Spec => []VerifySound
<1>1. Init => Settled
  BY DEF Init, Settled, CarriesHead
<1>2. ASSUME HistoryInv, Settled, [Next]_vars
      PROVE  Settled'
  BY <1>2, NextSettled
<1>3. ASSUME HistoryInv, Settled, Quiet, NEW r \in Remains, VerifyPasses(r),
             NEW b \in Branches, heads[b] # None
      PROVE  RestorableFrom(r, heads[b])
  <2>1. heads[b] \in snaps
    BY <1>3 DEF Settled, Quiet
  <2>2. heads[b] \in r.files
    <3>1. b \notin VerifyBadRefs(r)
      BY <1>3 DEF VerifyPasses
    <3>2. heads[b] # Blank
      BY <1>3, <2>1, MarksAssumption DEF HistoryInv, TypeInv, TypeOK, Marks
    <3> QED
      BY <1>3, <3>1, <3>2 DEF VerifyBadRefs, HasSnapshot
  <2>3. /\ heads[b] \notin r.torn /\ Readable(heads[b])
        /\ Range(heads[b]) \subseteq r.kept
    BY <1>3, <2>2 DEF VerifyPasses, VerifyMissing
  <2>4. r.kept \cap r.altered = {}
    BY <1>3 DEF VerifyPasses, VerifyCorrupt
  <2> QED
    BY <2>2, <2>3, <2>4 DEF RestorableFrom
<1>4. HistoryInv /\ Settled => VerifySound
  BY <1>3 DEF VerifySound
<1> QED
  BY <1>1, <1>2, <1>4, SpecHistory, PTL DEF Spec

---------------------------------------------------------------------------
(* The object store under gc: snapshots stay complete as long as gc and     *)
(* snap do not overlap, and a working state is never lost to checkout.      *)
(*                                                                          *)
(* SnapshotsComplete needs to know what a snap has stored before there is a *)
(* manifest to show for it (Stored), what a gc has decided to spare         *)
(* (GcSpares), and that the one never happens during the other (Apart).     *)

Stored == \A k \in Procs :
    /\ pc[k] \in SnapWindow =>
         \A i \in 1 .. Len(at[k].id) : i < at[k].pg => at[k].id[i] \in objects
    /\ pc[k] = "snap_manifest" => at[k].pg > Len(at[k].id)

GcSpares == \A k \in Procs :
    /\ pc[k] = "gc_list"  => LivePages \subseteq at[k].todo
    /\ pc[k] = "gc_sweep" => at[k].todo \cap LivePages = {}

Apart == \A j, k \in Procs : pc[j] \in SnapWindow => pc[k] \notin GcWindow

ObjectInv == HistoryInv /\ SnapshotsComplete /\ Stored /\ GcSpares /\ Apart

Kept == SnapshotsComplete /\ Stored /\ GcSpares /\ Apart

---------------------------------------------------------------------------
LEMMA InitKept == Init => Kept
BY DEF Init, Kept, SnapshotsComplete, Stored, GcSpares, Apart, SnapWindow, GcWindow

LEMMA ObjectFacts ==
    ASSUME ObjectInv, NEW k \in Procs
    PROVE  /\ at[k] \in Locals /\ Free \in Locals
           /\ pc \in [Procs -> Labels] /\ at \in [Procs -> Locals]
           /\ pc[k] \in HoldsState => at[k].id \in Seq(Pages)
           /\ \A i \in 1 .. Len(at[k].id) :
                 pc[k] \in SnapWindow /\ i < at[k].pg => at[k].id[i] \in objects
           /\ pc[k] = "snap_manifest" => at[k].pg > Len(at[k].id)
           /\ pc[k] = "gc_list"  => LivePages \subseteq at[k].todo
           /\ pc[k] = "gc_sweep" => at[k].todo \cap LivePages = {}
           /\ pc[k] \in SnapWindow => \A j \in Procs : pc[j] \notin GcWindow
           /\ pc[k] \in GcWindow => \A j \in Procs : pc[j] \notin SnapWindow
BY FreeLocals, StatesAssumption
   DEF ObjectInv, HistoryInv, TypeInv, TypeOK, HeldStates, Stored, GcSpares, Apart

(* A step of one process that touches neither objects nor manifests. *)
LEMMA MoveKept ==
    ASSUME ObjectInv, NEW k \in Procs, NEW label, NEW locals,
           Goto(k, label, locals),
           UNCHANGED <<snaps, objects>>,
           label \in SnapWindow =>
               /\ \A i \in 1 .. Len(locals.id) : i < locals.pg => locals.id[i] \in objects
               /\ \A j \in Procs : pc[j] \notin GcWindow,
           label = "snap_manifest" => locals.pg > Len(locals.id),
           label = "gc_list"  => LivePages \subseteq locals.todo,
           label = "gc_sweep" => locals.todo \cap LivePages = {},
           label \in GcWindow => \A j \in Procs : pc[j] \notin SnapWindow
    PROVE  Kept'
<1>1. /\ pc'[k] = label
      /\ at'[k] = locals
      /\ \A j \in Procs \ {k} : pc'[j] = pc[j] /\ at'[j] = at[j]
  BY DEF Goto, ObjectInv, HistoryInv, TypeInv, TypeOK
<1>2. LivePages' = LivePages
  BY DEF LivePages
<1>3. SnapshotsComplete'
  BY DEF ObjectInv, SnapshotsComplete
<1>4. Stored'
  BY <1>1 DEF ObjectInv, Stored
<1>5. GcSpares'
  BY <1>1, <1>2 DEF ObjectInv, GcSpares
<1>6. Apart'
  BY <1>1 DEF ObjectInv, Apart, SnapWindow, GcWindow
<1> QED
  BY <1>3, <1>4, <1>5, <1>6 DEF Kept

(* A step into a label outside both windows. *)
LEMMA LeaveKept ==
    ASSUME ObjectInv, NEW k \in Procs, NEW label, NEW locals,
           label \notin SnapWindow \cup GcWindow,
           Goto(k, label, locals),
           UNCHANGED <<snaps, objects>>
    PROVE  Kept'
BY MoveKept DEF SnapWindow, GcWindow

LEMMA SnapPageKept ==
    ASSUME ObjectInv, NEW k \in Procs, SnapPage(k)
    PROVE  Kept'
<1> DEFINE moved == [at[k] EXCEPT !.pg = @ + 1]
<1>1. /\ moved \in Locals /\ moved.id = at[k].id /\ moved.pg = at[k].pg + 1
      /\ at[k].pg \in Nat
  BY ObjectFacts DEF Locals
<1>2. /\ Goto(k, "snap_pages", moved)
      /\ pc[k] = "snap_pages"
      /\ objects' = objects \cup {at[k].id[at[k].pg]}
      /\ UNCHANGED snaps
  BY DEF SnapPage
<1> HIDE DEF moved
<1>3. /\ pc'[k] = "snap_pages"
      /\ at'[k] = moved
      /\ \A j \in Procs \ {k} : pc'[j] = pc[j] /\ at'[j] = at[j]
  BY <1>1, <1>2, GotoMoves, ObjectFacts DEF Labels, SnapWindow
<1>4. LivePages' = LivePages
  BY <1>2 DEF LivePages
<1>5. SnapshotsComplete'
  BY <1>2 DEF ObjectInv, SnapshotsComplete
<1>6. Stored'
  <2>1. ASSUME NEW j \in Procs, pc'[j] \in SnapWindow,
               NEW i \in 1 .. Len(at'[j].id), i < at'[j].pg
        PROVE  at'[j].id[i] \in objects'
    <3>1. CASE j = k
      <4>1. at[k].id \in Seq(Pages) /\ i \in Nat
        BY <1>2, <1>1, <1>3, <3>1, ObjectFacts DEF HoldsState, SnapWindow
      <4>2. i < at[k].pg \/ i = at[k].pg
        BY <4>1, <1>1, <1>3, <2>1, <3>1
      <4> QED
        BY <4>2, <1>1, <1>2, <1>3, <3>1, ObjectFacts DEF SnapWindow
    <3>2. CASE j # k
      BY <1>2, <1>3, <2>1, <3>2, ObjectFacts
    <3> QED
      BY <3>1, <3>2
  <2>2. \A j \in Procs : pc'[j] = "snap_manifest" => at'[j].pg > Len(at'[j].id)
    BY <1>3, ObjectFacts
  <2> QED
    BY <2>1, <2>2 DEF Stored
<1>7. GcSpares'
  BY <1>3, <1>4 DEF ObjectInv, GcSpares
<1>8. Apart'
  BY <1>2, <1>3 DEF ObjectInv, Apart, SnapWindow, GcWindow
<1> QED
  BY <1>5, <1>6, <1>7, <1>8 DEF Kept

LEMMA SnapManifestKept ==
    ASSUME ObjectInv, NEW k \in Procs, SnapManifest(k)
    PROVE  Kept'
<1>1. /\ Goto(k, "ref_truncate", at[k])
      /\ pc[k] = "snap_manifest"
      /\ snaps' = snaps \cup {at[k].id}
      /\ UNCHANGED objects
  BY DEF SnapManifest
<1>2. /\ pc'[k] = "ref_truncate"
      /\ \A j \in Procs \ {k} : pc'[j] = pc[j] /\ at'[j] = at[j]
  BY <1>1, GotoMoves, ObjectFacts DEF Labels
<1>3. Range(at[k].id) \subseteq objects
  <2>1. at[k].id \in Seq(Pages) /\ at[k].pg \in Nat /\ at[k].pg > Len(at[k].id)
    BY <1>1, ObjectFacts DEF HoldsState, SnapWindow, Locals
  <2>2. \A i \in 1 .. Len(at[k].id) : at[k].id[i] \in objects
    BY <2>1, <1>1, ObjectFacts DEF SnapWindow
  <2> QED
    BY <2>1, <2>2 DEF Range
<1>4. SnapshotsComplete'
  BY <1>1, <1>3 DEF ObjectInv, SnapshotsComplete
<1>5. Stored'
  BY <1>1, <1>2 DEF ObjectInv, Stored, SnapWindow
<1>6. \A j \in Procs : pc'[j] \notin GcWindow
  BY <1>1, <1>2, ObjectFacts DEF SnapWindow, GcWindow
<1> QED
  BY <1>4, <1>5, <1>6 DEF Kept, GcSpares, Apart, GcWindow

LEMMA GcSweepKept ==
    ASSUME ObjectInv, NEW k \in Procs, GcSweep(k)
    PROVE  Kept'
<1> DEFINE swept(p) == [at[k] EXCEPT !.todo = @ \ {p}]
<1>1. PICK p \in at[k].todo :
          /\ objects' = objects \ {p} \/ UNCHANGED objects
          /\ Goto(k, "gc_sweep", swept(p)) \/ Exit(k)
  BY DEF GcSweep
<1>2. pc[k] = "gc_sweep" /\ UNCHANGED snaps
  BY DEF GcSweep
<1>3. swept(p) \in Locals /\ swept(p).todo \subseteq at[k].todo
  BY ObjectFacts DEF Locals
<1> HIDE DEF swept
<1>4. /\ pc'[k] \in {"gc_sweep", "idle"}
      /\ pc'[k] = "gc_sweep" => at'[k].todo \subseteq at[k].todo
      /\ \A j \in Procs \ {k} : pc'[j] = pc[j] /\ at'[j] = at[j]
  <2>1. CASE Goto(k, "gc_sweep", swept(p))
    BY <2>1, <1>3, GotoMoves, ObjectFacts DEF Labels, GcWindow
  <2>2. CASE Exit(k)
    <3>1. "idle" \in Labels
      BY DEF Labels
    <3> QED
      BY <2>2, <3>1, GotoMoves, ObjectFacts DEF Exit
  <2> QED
    BY <1>1, <2>1, <2>2
<1>5. LivePages' = LivePages
  BY <1>2 DEF LivePages
<1>6. p \notin LivePages
  BY <1>1, <1>2, ObjectFacts
<1>7. SnapshotsComplete'
  BY <1>1, <1>2, <1>6 DEF ObjectInv, SnapshotsComplete, LivePages
<1>8. \A j \in Procs : pc'[j] \notin SnapWindow
  BY <1>2, <1>4, ObjectFacts DEF GcWindow, SnapWindow
<1>9. GcSpares'
  BY <1>2, <1>4, <1>5, ObjectFacts DEF GcSpares
<1> QED
  BY <1>7, <1>8, <1>9 DEF Kept, Stored, Apart, SnapWindow

LEMMA SnapKept ==
    ASSUME ObjectInv, GcExclusive, NEW k \in Procs,
           \/ SnapOpen(k) \/ SnapHead(k) \/ SnapParent(k) \/ SnapPage(k)
           \/ SnapHashed(k) \/ SnapManifest(k)
    PROVE  Kept'
<1> USE ObjectFacts DEF store, Labels, SnapWindow, GcWindow
<1>1. CASE SnapOpen(k)
  <2> DEFINE opened == [Free EXCEPT !.id = db]
  <2>1. db \in Seq(Pages) /\ opened \in Locals /\ opened.id = db /\ opened.pg = 1
    BY <1>1, StatesAssumption
       DEF SnapOpen, Free, Locals, Marks, ObjectInv, HistoryInv, TypeInv, TypeOK
  <2>2. Goto(k, "snap_head", opened) /\ \A j \in Procs : pc[j] \notin GcWindow
    BY <1>1 DEF SnapOpen
  <2> HIDE DEF opened
  <2>3. \A i \in 1 .. Len(opened.id) : i < opened.pg => opened.id[i] \in objects
    BY <2>1
  <2> QED
    BY <2>1, <2>2, <2>3, <1>1, MoveKept DEF SnapOpen
<1>2. CASE SnapHead(k)
  <2> DEFINE onBranch == [at[k] EXCEPT !.ref = HEAD]
  <2>1. CASE HEAD \in Branches
    <3>1. onBranch \in Locals /\ onBranch.id = at[k].id /\ onBranch.pg = at[k].pg
      BY <2>1 DEF Locals
    <3>2. Goto(k, "snap_parent", onBranch) /\ pc[k] = "snap_head"
      BY <2>1, <1>2 DEF SnapHead
    <3> HIDE DEF onBranch
    <3> QED
      BY <3>1, <3>2, <1>2, MoveKept DEF SnapHead
  <2>2. CASE HEAD \notin Branches
    BY <2>2, <1>2, LeaveKept DEF SnapHead, Exit
  <2> QED
    BY <2>1, <2>2
<1>3. CASE SnapParent(k)
  <2> DEFINE known == [at[k] EXCEPT !.par = heads[at[k].ref]]
  <2>0. at[k].ref \in Branches
    BY <1>3 DEF SnapParent, HoldsBranch, ObjectInv, HistoryInv, TypeInv, HeldStates
  <2>1. known \in Locals /\ known.id = at[k].id /\ known.pg = at[k].pg
    BY <2>0 DEF Locals, ObjectInv, HistoryInv, TypeInv, TypeOK
  <2>2. Goto(k, "snap_pages", known) /\ pc[k] = "snap_parent"
    BY <1>3 DEF SnapParent
  <2> HIDE DEF known
  <2> QED
    BY <2>1, <2>2, <1>3, MoveKept DEF SnapParent
<1>4. CASE SnapPage(k)
  BY <1>4, SnapPageKept
<1>5. CASE SnapHashed(k)
  <2>0. UNCHANGED <<snaps, objects>> /\ pc[k] = "snap_pages" /\ at[k].pg > Len(at[k].id)
    BY <1>5 DEF SnapHashed
  <2>1. CASE Exit(k)
    BY <2>0, <2>1, LeaveKept DEF Exit
  <2>2. CASE Goto(k, "ref_truncate", at[k])
    BY <2>0, <2>2, LeaveKept
  <2>3. CASE Goto(k, "snap_manifest", at[k])
    BY <2>0, <2>3, MoveKept
  <2> QED
    BY <2>1, <2>2, <2>3, <1>5 DEF SnapHashed
<1>6. CASE SnapManifest(k)
  BY <1>6, SnapManifestKept
<1> QED
  BY <1>1, <1>2, <1>3, <1>4, <1>5, <1>6

LEMMA GcKept ==
    ASSUME ObjectInv, GcExclusive, NEW k \in Procs,
           GcMark(k) \/ GcList(k) \/ GcSweep(k) \/ GcDone(k)
    PROVE  Kept'
<1> USE ObjectFacts DEF store, Labels, SnapWindow, GcWindow
<1>1. CASE GcMark(k)
  <2> DEFINE marked == [Free EXCEPT !.todo = LivePages]
  <2>1. \A s \in snaps : s \in Seq(Pages)
    BY StatesAssumption DEF ObjectInv, HistoryInv, TypeInv, TypeOK
  <2>2. LivePages \subseteq Pages
    BY <2>1 DEF LivePages, Range
  <2>3. marked \in Locals /\ marked.todo = LivePages
    BY <2>2 DEF Locals
  <2>4. Goto(k, "gc_list", marked) /\ \A j \in Procs : pc[j] \notin SnapWindow
    BY <1>1 DEF GcMark
  <2> HIDE DEF marked
  <2> QED
    BY <2>3, <2>4, <1>1, MoveKept DEF GcMark
<1>2. CASE GcList(k)
  <2> DEFINE listed == [at[k] EXCEPT !.todo = objects \ @]
  <2>1. listed \in Locals /\ listed.todo = objects \ at[k].todo
    BY DEF Locals, ObjectInv, HistoryInv, TypeInv, TypeOK
  <2>2. Goto(k, "gc_sweep", listed) /\ pc[k] = "gc_list"
    BY <1>2 DEF GcList
  <2> HIDE DEF listed
  <2>3. listed.todo \cap LivePages = {}
    BY <2>1, <2>2
  <2> QED
    BY <2>1, <2>2, <2>3, <1>2, MoveKept DEF GcList
<1>3. CASE GcSweep(k)
  BY <1>3, GcSweepKept
<1>4. CASE GcDone(k)
  BY <1>4, LeaveKept DEF GcDone, Exit
<1> QED
  BY <1>1, <1>2, <1>3, <1>4

(* The other commands touch neither objects nor manifests, and stay outside *)
(* both windows.                                                            *)
LEMMA RefsKept ==
    ASSUME ObjectInv, NEW k \in Procs,
           \/ InitOpen(k) \/ InitCreate(k) \/ InitFill(k) \/ HeadTruncate(k)
           \/ HeadWrite(k) \/ RefTruncate(k) \/ RefWrite(k)
           \/ \E name \in Branches, r \in Branches \cup States \cup {None} :
                  BranchOpen(k, name, r)
    PROVE  Kept'
<1>1. \E label \in {"init_create", "init_fill", "head_truncate", "head_write",
                    "ref_truncate", "ref_write", "idle"} :
         \E locals : Goto(k, label, locals)
  BY DEF InitOpen, InitCreate, InitFill, HeadTruncate, HeadWrite, RefTruncate, RefWrite,
         BranchOpen, Exit
<1>2. UNCHANGED <<snaps, objects>>
  BY DEF InitOpen, InitCreate, InitFill, HeadTruncate, HeadWrite, RefTruncate, RefWrite,
         BranchOpen, store, saved
<1> QED
  BY <1>1, <1>2, LeaveKept DEF SnapWindow, GcWindow

LEMMA ReadersKept ==
    ASSUME ObjectInv, NEW k \in Procs,
           \/ \E r \in Branches \cup States, force \in BOOLEAN : CheckoutOpen(k, r, force)
           \/ CheckoutCheck(k) \/ CheckoutManifest(k) \/ CheckoutPage(k)
           \/ CheckoutCopied(k) \/ CheckoutSwap(k) \/ CheckoutHead(k)
           \/ LogOpen(k) \/ LogStep(k)
    PROVE  Kept'
<1>1. \E label \in {"checkout_check", "checkout_manifest", "checkout_pages",
                    "checkout_swap", "checkout_head", "head_truncate", "log_walk", "idle"} :
         \E locals : Goto(k, label, locals)
  BY DEF CheckoutOpen, CheckoutCheck, CheckoutManifest, CheckoutPage, CheckoutCopied,
         CheckoutSwap, CheckoutHead, LogOpen, LogStep, Exit
<1>2. UNCHANGED <<snaps, objects>>
  BY DEF CheckoutOpen, CheckoutCheck, CheckoutManifest, CheckoutPage, CheckoutCopied,
         CheckoutSwap, CheckoutHead, LogOpen, LogStep, store
<1> QED
  BY <1>1, <1>2, LeaveKept DEF SnapWindow, GcWindow

LEMMA EnvironmentKept ==
    ASSUME ObjectInv, Edit \/ \E k \in Procs : Crash(k)
    PROVE  Kept'
<1>1. CASE Edit
  BY <1>1 DEF Edit, store, Kept, ObjectInv, SnapshotsComplete, Stored, GcSpares, Apart, LivePages
<1>2. ASSUME NEW k \in Procs, Crash(k)
      PROVE  Kept'
  BY <1>2, ObjectFacts, LeaveKept DEF Crash, Exit, store, Labels, SnapWindow, GcWindow
<1> QED
  BY <1>1, <1>2

LEMMA NextObjects == GcExclusive /\ ObjectInv /\ [Next]_vars => ObjectInv'
<1> SUFFICES ASSUME GcExclusive, ObjectInv, [Next]_vars
             PROVE  Kept'
  BY NextHistory DEF ObjectInv, Kept
<1>1. CASE UNCHANGED vars
  BY <1>1 DEF vars, Kept, ObjectInv, SnapshotsComplete, Stored, GcSpares, Apart, LivePages
<1>2. CASE Next
  BY <1>2, SnapKept, GcKept, RefsKept, ReadersKept, EnvironmentKept DEF Next, Start, Step
<1> QED
  BY <1>1, <1>2

LEMMA SpecObjects ==
    ASSUME GcExclusive
    PROVE  Spec => []ObjectInv
<1>1. Init => ObjectInv
  BY InitTypes, InitHistory, InitKept DEF HistoryInv, ObjectInv, Kept
<1>2. ObjectInv /\ [Next]_vars => ObjectInv'
  BY NextObjects
<1> QED
  BY <1>1, <1>2, PTL DEF Spec

---------------------------------------------------------------------------
(* While gc and snap do not overlap, every page of every snapshot is in the *)
(* object store, whatever else interleaves or is interrupted.               *)
THEOREM ObjectsComplete ==
    ASSUME GcExclusive
    PROVE  Spec => []SnapshotsComplete
<1>1. ObjectInv => SnapshotsComplete
  BY DEF ObjectInv
<1> QED
  BY <1>1, SpecObjects, PTL

(* Under the same assumption a restore under way never misses a page.       *)
THEOREM RestoreNeverFails ==
    ASSUME GcExclusive
    PROVE  Spec => []RestoreFindsPages
<1>1. ObjectInv => RestoreFindsPages
  <2> SUFFICES ASSUME ObjectInv, NEW k \in Procs,
                      pc[k] = "checkout_pages", at[k].pg <= Len(at[k].id)
               PROVE  at[k].id[at[k].pg] \in objects
    BY DEF RestoreFindsPages
  <2>1. at[k].id \in snaps
    BY HistoryFacts DEF ObjectInv, CarriesSaved
  <2>2. at[k].id \in Seq(Pages) /\ at[k].pg \in 1 .. Len(at[k].id)
    BY ObjectFacts DEF HoldsState, Locals
  <2> QED
    BY <2>1, <2>2 DEF ObjectInv, SnapshotsComplete, Range
<1> QED
  BY <1>1, SpecObjects, PTL

(* Under the same assumption gc removes no object that a snapshot           *)
(* references, not even one saved since it started.                         *)
THEOREM GcSparesReferenced ==
    ASSUME GcExclusive
    PROVE  Spec => GcDeletesOnlyUnreferenced
<1>1. ObjectInv /\ [Next]_vars => [\A p \in objects \ objects' : p \notin LivePages]_vars
  <2> SUFFICES ASSUME ObjectInv, Next, NEW p \in objects \ objects'
               PROVE  p \notin LivePages
    BY DEF vars
  <2>1. PICK k \in Procs : GcSweep(k)
    BY ZenonT(60) DEF Next, Start, Step, Edit, Crash, InitOpen, InitCreate, InitFill, HeadTruncate,
           HeadWrite, SnapOpen, SnapHead, SnapParent, SnapPage, SnapHashed, SnapManifest,
           RefTruncate, RefWrite, BranchOpen, CheckoutOpen, CheckoutCheck,
           CheckoutManifest, CheckoutPage, CheckoutCopied, CheckoutSwap, CheckoutHead, GcMark,
           GcList,
           GcDone, LogOpen, LogStep, store, saved
  <2>2. pc[k] = "gc_sweep" /\ p \in at[k].todo
    BY <2>1 DEF GcSweep
  <2> QED
    BY <2>2, ObjectFacts
<1> QED
  BY <1>1, SpecObjects, PTL DEF Spec, GcDeletesOnlyUnreferenced

---------------------------------------------------------------------------
(* From the check of the working state to the rename, nothing but a         *)
(* snapshot takes its place: other checkouts install snapshots, and the     *)
(* application does not write.                                              *)
Replaces == {"checkout_manifest", "checkout_pages", "checkout_swap"}

WorkSaved == \A k \in Procs :
    pc[k] \in Replaces /\ ~ at[k].force => db \in snaps \cup {None}

(* What a step of one process must establish for the work to stay saved. *)
LEMMA MoveWork ==
    ASSUME HistoryInv, WorkSaved, NEW k \in Procs, NEW label, NEW locals,
           Goto(k, label, locals),
           snaps \subseteq snaps',
           db' = db \/ db' \in snaps',
           label \in Replaces /\ ~ locals.force => db' \in snaps' \cup {None}
    PROVE  WorkSaved'
<1>1. /\ pc'[k] = label
      /\ at'[k] = locals
      /\ \A j \in Procs \ {k} : pc'[j] = pc[j] /\ at'[j] = at[j]
  BY DEF Goto, HistoryInv, TypeInv, TypeOK
<1> QED
  BY <1>1 DEF WorkSaved

LEMMA OutsideWork ==
    ASSUME HistoryInv, WorkSaved, NEW k \in Procs,
           \E label, locals : label \notin Replaces /\ Goto(k, label, locals),
           snaps \subseteq snaps',
           db' = db
    PROVE  WorkSaved'
BY MoveWork

LEMMA CheckoutWork ==
    ASSUME HistoryInv, WorkSaved, NEW k \in Procs,
           \/ \E r \in Branches \cup States, force \in BOOLEAN : CheckoutOpen(k, r, force)
           \/ CheckoutCheck(k) \/ CheckoutManifest(k) \/ CheckoutPage(k)
           \/ CheckoutCopied(k) \/ CheckoutSwap(k) \/ CheckoutHead(k)
    PROVE  WorkSaved'
<1>0. pc[k] \in Replaces /\ ~ at[k].force => db \in snaps \cup {None}
  BY DEF WorkSaved
<1>1. ASSUME NEW r \in Branches \cup States, NEW force \in BOOLEAN,
             CheckoutOpen(k, r, force)
      PROVE  WorkSaved'
  <2> DEFINE opened == [Free EXCEPT !.id = Resolve(r), !.ref = r, !.force = force]
             next == IF db = None \/ force THEN "checkout_manifest" ELSE "checkout_check"
  <2>1. opened.force = force
    BY DEF Free
  <2>2. Goto(k, next, opened) /\ UNCHANGED <<snaps, db>>
    BY <1>1 DEF CheckoutOpen, store
  <2> HIDE DEF opened
  <2> QED
    BY <2>1, <2>2, MoveWork DEF Replaces
<1>2. CASE CheckoutCheck(k)
  <2>1. UNCHANGED <<snaps, db>>
    BY <1>2 DEF CheckoutCheck, store
  <2> QED
    BY <1>2, <2>1, MoveWork DEF CheckoutCheck, Exit, Replaces
<1>3. CASE CheckoutManifest(k)
  <2>1. UNCHANGED <<snaps, db>> /\ pc[k] \in Replaces
    BY <1>3 DEF CheckoutManifest, store, Replaces
  <2> QED
    BY <1>0, <1>3, <2>1, MoveWork DEF CheckoutManifest, Exit, Replaces
<1>4. CASE CheckoutPage(k)
  <2> DEFINE moved == [at[k] EXCEPT !.pg = @ + 1]
  <2>1. UNCHANGED <<snaps, db>> /\ pc[k] \in Replaces
    BY <1>4 DEF CheckoutPage, store, Replaces
  <2>2. moved.force = at[k].force
    BY HistoryFacts DEF Locals
  <2>3. Goto(k, "checkout_pages", moved) \/ Goto(k, "idle", Free)
    BY <1>4 DEF CheckoutPage, Exit
  <2> HIDE DEF moved
  <2> QED
    BY <1>0, <2>1, <2>2, <2>3, MoveWork DEF Replaces
<1>5. CASE CheckoutCopied(k)
  <2>1. UNCHANGED <<snaps, db>> /\ pc[k] \in Replaces
    BY <1>5 DEF CheckoutCopied, store, Replaces
  <2> QED
    BY <1>0, <1>5, <2>1, MoveWork DEF CheckoutCopied
<1>6. CASE CheckoutSwap(k)
  <2>1. at[k].id \in snaps
    BY <1>6, HistoryFacts DEF CheckoutSwap, CarriesSaved
  <2> QED
    BY <1>6, <2>1, MoveWork DEF CheckoutSwap, store, Replaces
<1>7. CASE CheckoutHead(k)
  <2>1. UNCHANGED <<snaps, db>>
    BY <1>7 DEF CheckoutHead, store
  <2> QED
    BY <1>7, <2>1, MoveWork DEF CheckoutHead, Exit, Replaces
<1> QED
  BY <1>1, <1>2, <1>3, <1>4, <1>5, <1>6, <1>7

LEMMA NextWork == HistoryInv /\ WorkSaved /\ [Next]_vars => WorkSaved'
<1> SUFFICES ASSUME HistoryInv, WorkSaved, [Next]_vars
             PROVE  WorkSaved'
  OBVIOUS
<1>1. CASE UNCHANGED vars
  BY <1>1 DEF vars, WorkSaved
<1>2. CASE Edit
  BY <1>2 DEF Edit, WorkSaved, Replaces, FileWindow
<1>3. ASSUME NEW k \in Procs, Start(k) \/ Step(k) \/ Crash(k)
      PROVE  WorkSaved'
  <2>1. CASE \/ \E r \in Branches \cup States, force \in BOOLEAN : CheckoutOpen(k, r, force)
             \/ CheckoutCheck(k) \/ CheckoutManifest(k) \/ CheckoutPage(k)
             \/ CheckoutCopied(k) \/ CheckoutSwap(k) \/ CheckoutHead(k)
    BY <2>1, CheckoutWork
  <2>2. CASE \/ InitOpen(k) \/ InitCreate(k) \/ InitFill(k) \/ HeadTruncate(k)
             \/ HeadWrite(k) \/ RefTruncate(k) \/ RefWrite(k) \/ Crash(k)
             \/ \E name \in Branches, r \in Branches \cup States \cup {None} :
                    BranchOpen(k, name, r)
    <3>1. \E label, locals : label \notin Replaces /\ Goto(k, label, locals)
      BY <2>2 DEF InitOpen, InitCreate, InitFill, HeadTruncate, HeadWrite, RefTruncate,
                  RefWrite, Crash, BranchOpen, Exit, Replaces
    <3>2. UNCHANGED <<snaps, db>>
      BY <2>2 DEF InitOpen, InitCreate, InitFill, HeadTruncate, HeadWrite, RefTruncate,
                  RefWrite, Crash, BranchOpen, store, saved
    <3> QED
      BY <3>1, <3>2, OutsideWork
  <2>3. CASE \/ SnapOpen(k) \/ SnapHead(k) \/ SnapParent(k) \/ SnapPage(k)
             \/ SnapHashed(k) \/ SnapManifest(k)
             \/ GcMark(k) \/ GcList(k) \/ GcSweep(k) \/ GcDone(k)
             \/ LogOpen(k) \/ LogStep(k)
    <3>1. \E label, locals : label \notin Replaces /\ Goto(k, label, locals)
      BY <2>3 DEF SnapOpen, SnapHead, SnapParent, SnapPage, SnapHashed, SnapManifest,
                  GcMark, GcList, GcSweep, GcDone, LogOpen, LogStep, Exit, Replaces
    <3>2. snaps \subseteq snaps' /\ db' = db
      BY <2>3 DEF SnapOpen, SnapHead, SnapParent, SnapPage, SnapHashed, SnapManifest,
                  GcMark, GcList, GcSweep, GcDone, LogOpen, LogStep, store
    <3> QED
      BY <3>1, <3>2, OutsideWork
  <2> QED
    BY <1>3, <2>1, <2>2, <2>3 DEF Start, Step
<1> QED
  BY <1>1, <1>2, <1>3 DEF Next

(* checkout without --force never replaces a working state that is not a    *)
(* snapshot, whatever else interleaves or is interrupted, as long as no     *)
(* application writes the file while checkout runs.                         *)
THEOREM WorkNeverLost == Spec => NoWorkLost
<1>1. Init => WorkSaved
  BY DEF Init, WorkSaved, Replaces
<1>2. Spec => [](HistoryInv /\ WorkSaved)
  BY <1>1, InitTypes, InitHistory, NextHistory, NextWork, PTL DEF Spec, HistoryInv
<1>3. HistoryInv /\ WorkSaved /\ [Next]_vars =>
        [\A k \in Procs :
            pc[k] = "checkout_swap" /\ pc'[k] = "checkout_head" /\ ~ at[k].force
            => db \in snaps \cup {None}]_vars
  BY DEF WorkSaved, Replaces
<1> QED
  BY <1>2, <1>3, PTL DEF Spec, NoWorkLost

---------------------------------------------------------------------------
(* What a gc still has in its list, and what snapshots reference, is all    *)
(* there is: nothing is added meanwhile.                                    *)
GcCovers == \A k \in Procs :
    /\ pc[k] = "gc_list"  => at[k].todo \subseteq LivePages
    /\ pc[k] = "gc_sweep" => objects \subseteq LivePages \cup at[k].todo

LEMMA MoveCovers ==
    ASSUME ObjectInv, GcCovers, NEW k \in Procs, NEW label, NEW locals,
           Goto(k, label, locals),
           UNCHANGED snaps,
           objects' \subseteq objects,
           label = "gc_list"  => locals.todo \subseteq LivePages,
           label = "gc_sweep" => objects' \subseteq LivePages \cup locals.todo
    PROVE  GcCovers'
<1>1. /\ pc'[k] = label
      /\ at'[k] = locals
      /\ \A j \in Procs \ {k} : pc'[j] = pc[j] /\ at'[j] = at[j]
  BY DEF Goto, ObjectInv, HistoryInv, TypeInv, TypeOK
<1>2. LivePages' = LivePages
  BY DEF LivePages
<1> QED
  BY <1>1, <1>2 DEF GcCovers

LEMMA LeaveCovers ==
    ASSUME ObjectInv, GcCovers, NEW k \in Procs, NEW label, NEW locals,
           label \notin GcWindow, Goto(k, label, locals),
           UNCHANGED <<snaps, objects>>
    PROVE  GcCovers'
BY MoveCovers DEF GcWindow

(* While a snap is under way there is no gc. *)
LEMMA SnapCovers ==
    ASSUME ObjectInv, NEW k \in Procs, pc[k] \in SnapWindow,
           NEW label, NEW locals, label \notin GcWindow, Goto(k, label, locals)
    PROVE  GcCovers'
<1>1. /\ pc'[k] = label
      /\ \A j \in Procs \ {k} : pc'[j] = pc[j]
  BY DEF Goto, ObjectInv, HistoryInv, TypeInv, TypeOK
<1>2. \A j \in Procs : pc'[j] \notin GcWindow
  BY <1>1, ObjectFacts
<1> QED
  BY <1>2 DEF GcCovers, GcWindow

LEMMA NextCovers == ObjectInv /\ GcCovers /\ [Next]_vars => GcCovers'
<1> SUFFICES ASSUME ObjectInv, GcCovers, [Next]_vars
             PROVE  GcCovers'
  OBVIOUS
<1>1. CASE UNCHANGED vars
  BY <1>1 DEF vars, GcCovers, LivePages
<1>2. CASE Edit
  BY <1>2 DEF Edit, GcCovers, LivePages, store
<1>3. ASSUME NEW k \in Procs, Start(k) \/ Step(k) \/ Crash(k)
      PROVE  GcCovers'
  <2>1. CASE SnapPage(k) \/ SnapManifest(k)
    <3>1. \E label, locals : label \in {"snap_pages", "ref_truncate"} /\ Goto(k, label, locals)
      BY <2>1 DEF SnapPage, SnapManifest
    <3>2. pc[k] \in SnapWindow
      BY <2>1 DEF SnapPage, SnapManifest, SnapWindow
    <3> QED BY <3>1, <3>2, SnapCovers DEF GcWindow
  <2>2. CASE GcMark(k)
    <3> DEFINE marked == [Free EXCEPT !.todo = LivePages]
    <3>1. marked.todo = LivePages
      BY DEF Free
    <3>2. Goto(k, "gc_list", marked) /\ UNCHANGED <<snaps, objects>>
      BY <2>2 DEF GcMark, store
    <3> HIDE DEF marked
    <3> QED BY <3>1, <3>2, MoveCovers
  <2>3. CASE GcList(k)
    <3> DEFINE listed == [at[k] EXCEPT !.todo = objects \ @]
    <3>1. listed.todo = objects \ at[k].todo /\ at[k].todo \subseteq LivePages
      BY <2>3, ObjectFacts DEF GcList, GcCovers, Locals
    <3>2. Goto(k, "gc_sweep", listed) /\ UNCHANGED <<snaps, objects>>
      BY <2>3 DEF GcList, store
    <3> HIDE DEF listed
    <3>3. objects \subseteq LivePages \cup listed.todo
      BY <3>1
    <3> QED BY <3>2, <3>3, MoveCovers
  <2>4. CASE GcSweep(k)
    <3> DEFINE swept(p) == [at[k] EXCEPT !.todo = @ \ {p}]
    <3>0. UNCHANGED snaps /\ objects \subseteq LivePages \cup at[k].todo
      BY <2>4 DEF GcSweep, GcCovers
    <3>1. PICK p \in at[k].todo :
            \/ objects' = objects \ {p} /\ Goto(k, "gc_sweep", swept(p))
            \/ UNCHANGED objects /\ Exit(k)
      BY <2>4 DEF GcSweep
    <3>2. swept(p).todo = at[k].todo \ {p}
      BY ObjectFacts DEF Locals
    <3> HIDE DEF swept
    <3>3. CASE UNCHANGED objects /\ Exit(k)
      <4>1. Goto(k, "idle", Free) /\ objects' \subseteq objects
        BY <3>3 DEF Exit
      <4> HIDE DEF Free
      <4> QED BY <3>0, <4>1, MoveCovers
    <3>4. CASE objects' = objects \ {p} /\ Goto(k, "gc_sweep", swept(p))
      <4>1. objects' \subseteq LivePages \cup swept(p).todo
        BY <3>0, <3>2, <3>4
      <4>2. Goto(k, "gc_sweep", swept(p)) /\ objects' \subseteq objects
        BY <3>4
      <4> DEFINE now == swept(p)
      <4>3. Goto(k, "gc_sweep", now) /\ objects' \subseteq LivePages \cup now.todo
        BY <4>1, <4>2
      <4> HIDE DEF now
      <4> QED BY <3>0, <4>2, <4>3, MoveCovers
    <3> QED BY <3>1, <3>3, <3>4
  <2>5. CASE InitOpen(k) \/ InitCreate(k) \/ InitFill(k)
    <3>1. \E label, locals : label \notin GcWindow /\ Goto(k, label, locals)
      BY <2>5 DEF InitOpen, InitCreate, InitFill, Exit, GcWindow
    <3>2. UNCHANGED <<snaps, objects>>
      BY <2>5 DEF InitOpen, InitCreate, InitFill, Exit, store, saved
    <3> QED BY <3>1, <3>2, LeaveCovers
  <2>6. CASE HeadTruncate(k) \/ HeadWrite(k)
    <3>1. \E label, locals : label \notin GcWindow /\ Goto(k, label, locals)
      BY <2>6 DEF HeadTruncate, HeadWrite, Exit, GcWindow
    <3>2. UNCHANGED <<snaps, objects>>
      BY <2>6 DEF HeadTruncate, HeadWrite, Exit, store, saved
    <3> QED BY <3>1, <3>2, LeaveCovers
  <2>7. CASE RefTruncate(k) \/ RefWrite(k)
    <3>1. \E label, locals : label \notin GcWindow /\ Goto(k, label, locals)
      BY <2>7 DEF RefTruncate, RefWrite, Exit, GcWindow
    <3>2. UNCHANGED <<snaps, objects>>
      BY <2>7 DEF RefTruncate, RefWrite, Exit, store, saved
    <3> QED BY <3>1, <3>2, LeaveCovers
  <2>8. CASE Crash(k) \/ GcDone(k)
    <3>1. \E label, locals : label \notin GcWindow /\ Goto(k, label, locals)
      BY <2>8 DEF Crash, GcDone, Exit, GcWindow
    <3>2. UNCHANGED <<snaps, objects>>
      BY <2>8 DEF Crash, GcDone, Exit, store, saved
    <3> QED BY <3>1, <3>2, LeaveCovers
  <2>9. CASE
      \E name \in Branches, r \in Branches \cup States \cup {None} : BranchOpen(k, name, r)
    <3>1. \E label, locals : label \notin GcWindow /\ Goto(k, label, locals)
      BY <2>9 DEF BranchOpen, Exit, GcWindow
    <3>2. UNCHANGED <<snaps, objects>>
      BY <2>9 DEF BranchOpen, Exit, store, saved
    <3> QED BY <3>1, <3>2, LeaveCovers
  <2>10. CASE SnapOpen(k) \/ SnapHead(k)
    <3>1. \E label, locals : label \notin GcWindow /\ Goto(k, label, locals)
      BY <2>10 DEF SnapOpen, SnapHead, Exit, GcWindow
    <3>2. UNCHANGED <<snaps, objects>>
      BY <2>10 DEF SnapOpen, SnapHead, Exit, store, saved
    <3> QED BY <3>1, <3>2, LeaveCovers
  <2>11. CASE SnapParent(k) \/ SnapHashed(k)
    <3>1. \E label, locals : label \notin GcWindow /\ Goto(k, label, locals)
      BY <2>11 DEF SnapParent, SnapHashed, Exit, GcWindow
    <3>2. UNCHANGED <<snaps, objects>>
      BY <2>11 DEF SnapParent, SnapHashed, Exit, store, saved
    <3> QED BY <3>1, <3>2, LeaveCovers
  <2>12. CASE LogOpen(k) \/ LogStep(k)
    <3>1. \E label, locals : label \notin GcWindow /\ Goto(k, label, locals)
      BY <2>12 DEF LogOpen, LogStep, Exit, GcWindow
    <3>2. UNCHANGED <<snaps, objects>>
      BY <2>12 DEF LogOpen, LogStep, Exit, store, saved
    <3> QED BY <3>1, <3>2, LeaveCovers
  <2>13. CASE
      \E r \in Branches \cup States, force \in BOOLEAN : CheckoutOpen(k, r, force)
    <3>1. \E label, locals : label \notin GcWindow /\ Goto(k, label, locals)
      BY <2>13 DEF CheckoutOpen, Exit, GcWindow
    <3>2. UNCHANGED <<snaps, objects>>
      BY <2>13 DEF CheckoutOpen, Exit, store, saved
    <3> QED BY <3>1, <3>2, LeaveCovers
  <2>14. CASE CheckoutCheck(k) \/ CheckoutManifest(k)
    <3>1. \E label, locals : label \notin GcWindow /\ Goto(k, label, locals)
      BY <2>14 DEF CheckoutCheck, CheckoutManifest, Exit, GcWindow
    <3>2. UNCHANGED <<snaps, objects>>
      BY <2>14 DEF CheckoutCheck, CheckoutManifest, Exit, store, saved
    <3> QED BY <3>1, <3>2, LeaveCovers
  <2>15. CASE CheckoutPage(k) \/ CheckoutCopied(k)
    <3>1. \E label, locals : label \notin GcWindow /\ Goto(k, label, locals)
      BY <2>15 DEF CheckoutPage, CheckoutCopied, Exit, GcWindow
    <3>2. UNCHANGED <<snaps, objects>>
      BY <2>15 DEF CheckoutPage, CheckoutCopied, Exit, store, saved
    <3> QED BY <3>1, <3>2, LeaveCovers
  <2>16. CASE CheckoutSwap(k) \/ CheckoutHead(k)
    <3>1. \E label, locals : label \notin GcWindow /\ Goto(k, label, locals)
      BY <2>16 DEF CheckoutSwap, CheckoutHead, Exit, GcWindow
    <3>2. UNCHANGED <<snaps, objects>>
      BY <2>16 DEF CheckoutSwap, CheckoutHead, Exit, store, saved
    <3> QED BY <3>1, <3>2, LeaveCovers
  <2> QED
    BY <1>3, <2>1, <2>2, <2>3, <2>4, <2>5, <2>6, <2>7, <2>8, <2>9, <2>10, <2>11,
       <2>12, <2>13, <2>14, <2>15, <2>16 DEF Start, Step
<1> QED
  BY <1>1, <1>2, <1>3 DEF Next

(* A gc that ends without an error leaves only what snapshots reference,    *)
(* also after snaps, gcs and checkouts that were killed midway.             *)
THEOREM GcLeavesNothing ==
    ASSUME GcExclusive
    PROVE  Spec => GcReclaims
<1> DEFINE Reclaimed == \A k \in Procs :
               pc[k] = "gc_sweep" /\ pc'[k] = "idle" /\ at[k].todo = {}
               => objects' \subseteq LivePages
<1>1. Init => GcCovers
  BY DEF Init, GcCovers
<1>2. Spec => [](ObjectInv /\ GcCovers)
  BY <1>1, SpecObjects, NextCovers, PTL DEF Spec
<1>3. ObjectInv /\ GcCovers /\ [Next]_vars => [Reclaimed]_vars
  <2> SUFFICES ASSUME ObjectInv, GcCovers, Next, NEW k \in Procs,
                      pc[k] = "gc_sweep", pc'[k] = "idle", at[k].todo = {}
               PROVE  objects' \subseteq LivePages
    BY DEF vars
  <2>1. objects \subseteq LivePages
    BY DEF GcCovers
  <2>2. objects' \subseteq objects
    <3>1. \A j \in Procs : pc[j] \notin SnapWindow
      BY ObjectFacts DEF GcWindow
    <3>2. ASSUME NEW j \in Procs, SnapPage(j)
          PROVE  FALSE
      BY <3>1, <3>2 DEF SnapPage, SnapWindow
    <3> QED
      BY <3>2, ZenonT(60) DEF Next, Start, Step, Edit, Crash, InitOpen, InitCreate, InitFill,
             HeadTruncate, HeadWrite, SnapOpen, SnapHead, SnapParent, SnapHashed,
             SnapManifest, RefTruncate, RefWrite, BranchOpen, CheckoutOpen, CheckoutCheck,
             CheckoutManifest, CheckoutPage, CheckoutCopied, CheckoutSwap, CheckoutHead,
             GcMark, GcList, GcSweep, GcDone, LogOpen, LogStep, store, saved
  <2> QED
    BY <2>1, <2>2
<1> QED
  BY <1>2, <1>3, PTL DEF Spec, GcReclaims

----------------------------------------------------------------------------
(* Litegraft implements Repository while gc and snap do not overlap.        *)
(*                                                                          *)
(* Three kinds of steps show in a repository: the rename of a manifest is a *)
(* Save, truncating and writing a branch file are a Point each.  No other   *)
(* step touches manifests or branches, and as snapshots stay complete       *)
(* (ObjectInv) what gc removes is never a part of a saved state.            *)

Up == [s \in States |-> IF s \in snaps THEN Known(parentOf[s]) ELSE None]

Points == [b \in Branches |-> Known(heads[b])]

LEMMA AllRestorable ==
    /\ ObjectInv  => Restorable = snaps
    /\ ObjectInv' => Restorable' = snaps'
BY DEF ObjectInv, SnapshotsComplete, Restorable

(* A saved id is no mark, so a new snapshot changes what no other text      *)
(* means.                                                                   *)
LEMMA NewSnapshotKnown ==
    ASSUME ObjectInv, NEW s \in States, snaps' = snaps \cup {s},
           NEW id \in snaps \cup Marks
    PROVE  Known(id)' = Known(id)
BY MarksAssumption DEF Known, ObjectInv, HistoryInv, TypeInv, TypeOK

(* What HistoryAcyclic says of the manifests is what a repository demands   *)
(* of the parents of all states.                                            *)
LEMMA UpIsForest ==
    ASSUME NEW known \in SUBSET States, NEW text, NEW up,
           \A S \in SUBSET known : S # {} => \E s \in S : text[s] \notin S,
           up = [s \in States |->
                   IF s \in known /\ text[s] \in known THEN text[s] ELSE None]
    PROVE  Promise!Forest(up)
<1> SUFFICES ASSUME NEW S \in SUBSET States, S # {}
             PROVE  \E s \in S : up[s] \notin S
  BY DEF Promise!Forest
<1>1. None \notin S
  BY MarksAssumption DEF Marks
<1>2. CASE S \subseteq known
  <2>1. PICK s \in S : text[s] \notin S
    BY <1>2
  <2> QED
    BY <2>1, <1>1
<1>3. CASE ~ S \subseteq known
  BY <1>3, <1>1
<1> QED
  BY <1>2, <1>3

LEMMA ManifestSaves ==
    ASSUME ObjectInv, ObjectInv', NEW k \in Procs, SnapManifest(k)
    PROVE  Promise!Next
<1> DEFINE s == at[k].id
           p == Known(at[k].par)
<1>1. /\ s \in States
      /\ at[k].par \in snaps \cup Marks
      /\ snaps' = snaps \cup {s}
      /\ parentOf' = [parentOf EXCEPT ![s] = at[k].par]
      /\ UNCHANGED heads
  BY DEF SnapManifest, refs, ObjectInv, HistoryInv, TypeInv, HeldStates, HoldsState, SnapWindow,
         SavedIds, CarriedIds, CarriesParent
<1>2. /\ snaps \subseteq States
      /\ parentOf \in [States -> States \cup Marks]
      /\ NoDanglingIds
  BY DEF ObjectInv, HistoryInv, TypeInv, TypeOK, SavedIds
<1>3. Restorable' = Restorable \cup {s}
  BY <1>1, AllRestorable
<1>4. p \in Restorable \cup {None}
  BY AllRestorable DEF Known
<1>5. Up' = [Up EXCEPT ![s] = p]
  <2>2. ASSUME NEW id \in snaps \cup Marks
        PROVE  (IF id \in snaps' THEN id ELSE None) = Known(id)
    BY <1>1, <1>2, MarksAssumption DEF Known
  <2>3. ASSUME NEW t \in States
        PROVE  Up'[t] = [Up EXCEPT ![s] = p][t]
    <3>1. CASE t = s
      BY <3>1, <1>1, <1>2, <2>2 DEF Up, Known
    <3>2. CASE t # s /\ t \in snaps
      <4>1. parentOf[t] \in snaps \cup Marks /\ parentOf'[t] = parentOf[t]
        BY <3>2, <1>1, <1>2 DEF NoDanglingIds
      <4> QED
        BY <4>1, <3>2, <1>1, <2>2 DEF Up, Known
    <3>3. CASE t # s /\ t \notin snaps
      BY <3>3, <1>1 DEF Up
    <3> QED
      BY <3>1, <3>2, <3>3
  <2> QED
    BY <2>3 DEF Up
<1>6. Points' = Points
  <2>1. ASSUME NEW b \in Branches
        PROVE  Points'[b] = Points[b]
    BY <1>1, <1>2, MarksAssumption DEF Points, Known, NoDanglingIds
  <2> QED
    BY <2>1 DEF Points
<1>7. Promise!Forest(Up')
  <2>1. snaps' \in SUBSET States
    BY <1>1, <1>2
  <2>2. ASSUME NEW S \in SUBSET snaps', S # {}
        PROVE  \E t \in S : parentOf'[t] \notin S
    BY <2>1, <2>2 DEF ObjectInv, HistoryInv, NoLoop
  <2>3. Up' = [t \in States |->
                 IF t \in snaps' /\ parentOf'[t] \in snaps' THEN parentOf'[t] ELSE None]
    BY DEF Up, Known
  <2> QED
    BY <2>1, <2>2, <2>3, UpIsForest
<1> QED
  BY <1>1, <1>3, <1>4, <1>5, <1>6, <1>7 DEF Promise!Next, Promise!Save, Up, Points

(* Both steps of set_branch write the file of one branch only. *)
LEMMA BranchWritePoints ==
    ASSUME ObjectInv, ObjectInv', NEW k \in Procs, RefTruncate(k) \/ RefWrite(k)
    PROVE  Promise!Next
<1>1. PICK text : heads' = [heads EXCEPT ![at[k].ref] = text]
  BY DEF RefTruncate, RefWrite
<1>2. /\ UNCHANGED <<snaps, parentOf, objects>>
      /\ at[k].ref \in Branches
      /\ heads \in [Branches -> States \cup Marks]
  BY DEF RefTruncate, RefWrite, saved, ObjectInv, HistoryInv, TypeInv, TypeOK, HeldStates,
         HoldsBranch
<1>3. Known(text) \in Restorable \cup {None}
  BY AllRestorable DEF Known
<1>4. Points' = [Points EXCEPT ![at[k].ref] = Known(text)]
  BY <1>1, <1>2 DEF Points, Known
<1>5. Restorable' = Restorable /\ Up' = Up
  BY <1>2 DEF Restorable, Up, Known
<1> QED
  BY <1>2, <1>3, <1>4, <1>5 DEF Promise!Next, Promise!Point, Up, Points

LEMMA NextIsPromised ==
    ASSUME ObjectInv, ObjectInv', [Next]_vars
    PROVE  [Promise!Next]_<<Restorable, Up, Points>>
<1>1. CASE UNCHANGED <<snaps, parentOf, heads>>
  <2>1. Restorable' = Restorable
    BY <1>1, AllRestorable
  <2> QED
    BY <1>1, <2>1 DEF Up, Points, Known
<1>2. CASE \E k \in Procs : SnapManifest(k)
  BY <1>2, ManifestSaves
<1>3. CASE \E k \in Procs : RefTruncate(k) \/ RefWrite(k)
  BY <1>3, BranchWritePoints
<1>4. CASE UNCHANGED vars \/ Edit \/ \E k \in Procs : Crash(k)
  BY <1>4, <1>1 DEF Edit, Crash, store, saved, refs, vars
<1>5. ASSUME NEW k \in Procs, Start(k)
      PROVE  UNCHANGED <<snaps, parentOf, heads>>
  BY <1>5 DEF Start, InitOpen, SnapOpen, GcMark, LogOpen, BranchOpen, CheckoutOpen,
       store, saved, refs
<1>6. ASSUME NEW k \in Procs, Step(k)
      PROVE  \/ UNCHANGED <<snaps, parentOf, heads>>
             \/ SnapManifest(k) \/ RefTruncate(k) \/ RefWrite(k)
  BY <1>6 DEF Step, InitCreate, InitFill, HeadTruncate, HeadWrite, SnapHead, SnapParent,
       SnapPage, SnapHashed, CheckoutCheck, CheckoutManifest, CheckoutPage,
       CheckoutCopied, CheckoutSwap, CheckoutHead, GcList, GcSweep, GcDone, LogStep,
       store, saved, refs
<1> QED
  BY <1>1, <1>2, <1>3, <1>4, <1>5, <1>6 DEF Next

---------------------------------------------------------------------------
(* Under any interleaving and any interruption, as long as gc and snap do   *)
(* not overlap, the store is a repository: what is saved stays saved and    *)
(* restorable, in a history without cycles, and branches stand for it.      *)
THEOREM StoreIsRepository ==
    ASSUME GcExclusive
    PROVE  Spec => ImplementsRepository
<1>1. Init => Promise!Init
  BY DEF Init, Promise!Init, Restorable, Known
<1>2. ObjectInv /\ ObjectInv' /\ [Next]_vars => [Promise!Next]_(Promise!repository)
  BY NextIsPromised DEF Up, Points, Promise!repository
<1> QED
  BY <1>1, <1>2, SpecObjects, PTL DEF Spec, ImplementsRepository, Promise!Spec
============================================================================
