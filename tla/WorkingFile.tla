---------------------------- MODULE WorkingFile ----------------------------
(* The database file with its sidecars, between SQLite and litegraft.       *)
(*                                                                          *)
(* SQLite changes a database either in place, with the old pages in a       *)
(* rollback journal until the transaction commits, or through frames of a   *)
(* write-ahead log that are checkpointed into the file later.  A writer     *)
(* that is killed leaves the journal or the frames for the next opener.     *)
(* litegraft reads the file alone: guard_sidecars tells it whether that is  *)
(* the database, and restore must not leave behind what SQLite would then   *)
(* replay into the restored file.                                           *)
(*                                                                          *)
(* SQLite is external: its actions are those its file format documents.     *)
EXTENDS Naturals, Sequences, FiniteSetsExt

CONSTANTS
    PageCount,     \* pages of the database; it does not grow here
    Contents,      \* what a page may hold
    MaxFrames,     \* bound on the frames of the log
    None,          \* no such file
    Fresh,         \* a journal of no bytes
    WriterPauses   \* no writer takes a step while a command reads or restores

Pgnos  == 1 .. PageCount
States == [Pgnos -> Contents]
Frames == [pg : Pgnos, to : Contents, commit : BOOLEAN]
Journals == UNION {[P -> Contents] : P \in SUBSET Pgnos}

ASSUME SizesAssumption == PageCount \in Nat \ {0} /\ MaxFrames \in Nat
ASSUME FilesAssumption ==
    /\ None # Fresh /\ Fresh \notin Journals
    /\ None \notin States \cup Journals \cup Seq(Frames)

VARIABLES
    main,       \* the database file
    wal,        \* its -wal: None, or the frames after the header
    journal,    \* its -journal: None, Fresh, or the pages it holds
    tx,         \* the transaction under way: None, or what it will commit
    committed,  \* what the application was last told is in the database
    saved,      \* the states the store holds
    pc,         \* what the litegraft command does next
    cmd,        \* which command it is, with its options
    read        \* the pages it has read

files == <<main, wal, journal>>
vars  == <<main, wal, journal, tx, committed, saved, pc, cmd, read>>

(* guarded: this checkout went through guard_sidecars.                      *)
Cmds == [name : {"snap", "tables", "status", "checkout"}, allowWal : BOOLEAN,
         force : BOOLEAN, guarded : BOOLEAN, target : States \cup {None}]

Idle == [name |-> "tables", allowWal |-> FALSE, force |-> FALSE,
         guarded |-> FALSE, target |-> None]

TypeOK ==
    /\ main \in States \cup {None}
    /\ wal \in Seq(Frames) \cup {None}
    /\ journal \in Journals \cup {None, Fresh}
    /\ tx \in States \cup {None}
    /\ committed \in States \cup {None}
    /\ saved \subseteq States
    /\ pc \in {"idle", "guard", "guard_wal", "read", "save", "answer", "check",
               "swap", "unlink_wal", "unlink_journal"}
    /\ cmd \in Cmds
    /\ read \in Seq(Contents)

Init ==
    /\ main \in States
    /\ wal = None /\ journal = None /\ tx = None
    /\ committed = main
    /\ saved = {}
    /\ pc = "idle" /\ cmd = Idle /\ read = <<>>

---------------------------------------------------------------------------
(* What SQLite finds when it opens the three files.                         *)

HotJournal == journal \notin {None, Fresh}
Log == IF wal = None THEN <<>> ELSE wal

(* Frames count up to the last one that ends a transaction. *)
Durable(frames) ==
    SubSeq(frames, 1, Max({0} \cup {i \in DOMAIN frames : frames[i].commit}))

Overlay(file, frames) ==
    [p \in Pgnos |-> LET hits == {i \in DOMAIN frames : frames[i].pg = p}
                     IN IF hits = {} THEN file[p] ELSE frames[Max(hits)].to]

RolledBack == IF HotJournal
              THEN [p \in Pgnos |-> IF p \in DOMAIN journal THEN journal[p] ELSE main[p]]
              ELSE main

(* Sidecars of a file that does not exist are deleted, not replayed. *)
Seen == IF main = None THEN None ELSE Overlay(RolledBack, Durable(Log))

---------------------------------------------------------------------------
(* SQLite.                                                                  *)

Window == {"guard", "guard_wal", "read", "save", "answer", "check", "swap",
           "unlink_wal", "unlink_journal"}
Unhindered == WriterPauses => pc \notin Window
WriterMay == main # None /\ Unhindered
Litegraft == <<saved, pc, cmd, read>>

(* Rollback mode: journal created, synced, pages overwritten, journal gone. *)
RollbackBegin(state) ==
    /\ WriterMay
    /\ tx = None /\ ~ HotJournal /\ wal = None
    /\ state # main
    /\ tx' = state
    /\ journal' = Fresh
    /\ UNCHANGED <<main, wal, committed, Litegraft>>

InRollback == tx # None /\ wal = None

RollbackSync ==
    /\ WriterMay
    /\ InRollback /\ journal = Fresh
    /\ journal' = [p \in {q \in Pgnos : main[q] # tx[q]} |-> main[p]]
    /\ UNCHANGED <<main, wal, tx, committed, Litegraft>>

RollbackWrite(p) ==
    /\ WriterMay
    /\ InRollback /\ HotJournal
    /\ main[p] # tx[p]
    /\ main' = [main EXCEPT ![p] = tx[p]]
    /\ UNCHANGED <<wal, journal, tx, committed, Litegraft>>

RollbackCommit ==
    /\ WriterMay
    /\ InRollback /\ HotJournal
    /\ main = tx
    /\ journal' = None
    /\ tx' = None
    /\ committed' = main
    /\ UNCHANGED <<main, wal, Litegraft>>

(* Log mode: frames are appended after the last committed one; the last     *)
(* frame of a transaction commits it.                                       *)
AppendFrame(base, state, p) ==
    LET left == {q \in Pgnos : Overlay(main, base)[q] # state[q]}
        last == left = {p}
    IN /\ p \in left
       /\ Len(base) < MaxFrames
       /\ wal' = Append(base, [pg |-> p, to |-> state[p], commit |-> last])
       /\ tx' = IF last THEN None ELSE state
       /\ committed' = IF last THEN state ELSE committed

WalBegin(state, p) ==
    /\ WriterMay
    /\ tx = None /\ ~ HotJournal
    /\ AppendFrame(Durable(Log), state, p)
    /\ UNCHANGED <<main, journal, Litegraft>>

WalFrame(p) ==
    /\ WriterMay
    /\ tx # None /\ wal # None
    /\ AppendFrame(wal, tx, p)
    /\ UNCHANGED <<main, journal, Litegraft>>

Checkpoint(p) ==
    /\ WriterMay
    /\ tx = None /\ ~ HotJournal
    /\ main[p] # Seen[p]
    /\ main' = [main EXCEPT ![p] = Seen[p]]
    /\ UNCHANGED <<wal, journal, tx, committed, Litegraft>>

(* After a checkpoint the log is truncated, or removed by the last closer. *)
WalReset ==
    /\ WriterMay
    /\ tx = None /\ wal # None
    /\ main = Seen
    /\ wal' \in {None, <<>>}
    /\ UNCHANGED <<main, journal, tx, committed, Litegraft>>

(* The next opener plays a hot journal back. *)
Recover ==
    /\ WriterMay
    /\ tx = None /\ HotJournal
    /\ main' = RolledBack
    /\ journal' = None
    /\ UNCHANGED <<wal, tx, committed, Litegraft>>

WriterKilled ==
    /\ tx # None
    /\ tx' = None
    /\ UNCHANGED <<files, committed, Litegraft>>

(* Somebody removes the file, and only the file. *)
RemoveMain ==
    /\ WriterMay
    /\ tx = None
    /\ main' = None
    /\ committed' = None
    /\ UNCHANGED <<wal, journal, tx, Litegraft>>

(* A new database: whatever sidecars lie around are deleted. *)
CreateMain(state) ==
    /\ Unhindered
    /\ tx = None /\ main = None
    /\ main' = state
    /\ committed' = state
    /\ wal' = None /\ journal' = None
    /\ UNCHANGED <<tx, Litegraft>>

Writer ==
    \/ \E state \in States : RollbackBegin(state) \/ CreateMain(state)
    \/ \E state \in States, p \in Pgnos : WalBegin(state, p)
    \/ \E p \in Pgnos : RollbackWrite(p) \/ WalFrame(p) \/ Checkpoint(p)
    \/ RollbackSync \/ RollbackCommit \/ WalReset \/ Recover
    \/ WriterKilled \/ RemoveMain

---------------------------------------------------------------------------
(* The commands of litegraft.                                               *)

Sqlite == <<tx, committed>>

Proceed(label, command) == pc' = label /\ cmd' = command
Finish == Proceed("idle", Idle) /\ read' = <<>>

(* snap and tables open the file, look at its sidecars and read it; status  *)
(* and diff (state_of_file) read it first.                                  *)
OpenToRead(name, allowWal) ==
    /\ pc = "idle" /\ main # None
    /\ Proceed(IF name \in {"snap", "tables"} THEN "guard" ELSE "read",
               [Idle EXCEPT !.name = name, !.allowWal = allowWal])
    /\ UNCHANGED <<files, Sqlite, saved, read>>

(* checkout looks at a file that exists, unless --force.  It is meant for a *)
(* database nobody writes: the rename would leave a writer on the old file. *)
OpenToRestore(target, force) ==
    /\ pc = "idle" /\ target \in saved
    /\ WriterPauses => tx = None
    /\ Proceed(IF main = None \/ force THEN "swap" ELSE "read",
               [Idle EXCEPT !.name = "checkout", !.target = target, !.force = force])
    /\ UNCHANGED <<files, Sqlite, saved, read>>

ReadPage ==
    /\ pc = "read" /\ Len(read) < PageCount
    /\ read' = Append(read, main[Len(read) + 1])
    /\ UNCHANGED <<files, Sqlite, saved, pc, cmd>>

ReadDone ==
    /\ pc = "read" /\ Len(read) = PageCount
    /\ Proceed(CASE cmd.name = "snap" -> "save"
                 [] cmd.name = "tables" -> "answer"
                 [] OTHER -> "guard", cmd)
    /\ UNCHANGED <<files, Sqlite, saved, read>>

(* Mutant: a journal is not looked for. *)
BugGuardJournal ==
    /\ pc = "guard"
    /\ Proceed("guard_wal", cmd)
    /\ UNCHANGED <<files, Sqlite, saved, read>>

(* hot_journal: there is no option to pass it. *)
GuardJournal ==
    /\ pc = "guard"
    /\ \/ HotJournal /\ Finish
       \/ ~ HotJournal /\ Proceed("guard_wal", cmd) /\ UNCHANGED read
    /\ UNCHANGED <<files, Sqlite, saved>>

(* wal_state: anything behind the header counts as a frame. *)
WalPending == wal # None /\ Len(wal) > 0

GuardWal ==
    /\ pc = "guard_wal"
    /\ \/ WalPending /\ ~ cmd.allowWal /\ Finish
       \/ /\ ~ WalPending \/ cmd.allowWal
          /\ Proceed(CASE cmd.name \in {"snap", "tables"} -> "read"
                       [] cmd.name = "status" -> "answer"
                       [] OTHER -> "check", [cmd EXCEPT !.guarded = TRUE])
          /\ UNCHANGED read
    /\ UNCHANGED <<files, Sqlite, saved>>

SnapSave ==
    /\ pc = "save"
    /\ saved' = saved \cup {read}
    /\ Finish
    /\ UNCHANGED <<files, Sqlite>>

Answer ==
    /\ pc = "answer"
    /\ Finish
    /\ UNCHANGED <<files, Sqlite, saved>>

(* Mutant: any state the guard lets through may be replaced. *)
BugCheckoutCheck ==
    /\ pc = "check"
    /\ Proceed("swap", cmd)
    /\ UNCHANGED <<files, Sqlite, saved, read>>

CheckoutCheck ==
    /\ pc = "check"
    /\ \/ read \in saved /\ Proceed("swap", cmd) /\ UNCHANGED read
       \/ read \notin saved /\ Finish
    /\ UNCHANGED <<files, Sqlite, saved>>

(* restore: the rename, then the sidecars one by one. *)
Swap ==
    /\ pc = "swap"
    /\ main' = cmd.target
    /\ committed' = cmd.target
    /\ Proceed("unlink_wal", cmd)
    /\ UNCHANGED <<wal, journal, tx, saved, read>>

UnlinkWal ==
    /\ pc = "unlink_wal"
    /\ wal' = None
    /\ Proceed("unlink_journal", cmd)
    /\ UNCHANGED <<main, journal, Sqlite, saved, read>>

(* Mutant: the journal is left where it is. *)
BugUnlinkJournal ==
    /\ pc = "unlink_journal"
    /\ Finish
    /\ UNCHANGED <<files, Sqlite, saved>>

UnlinkJournal ==
    /\ pc = "unlink_journal"
    /\ journal' = None
    /\ Finish
    /\ UNCHANGED <<main, wal, Sqlite, saved>>

(* A checkout that has renamed the file, may have left a sidecar with       *)
(* content beside it, and has not removed it yet.                           *)
Exposed == pc \in {"unlink_wal", "unlink_journal"} /\ ~ cmd.guarded

(* litegraft is killed, or a call fails.  From an exposed restore SQLite    *)
(* goes on with what it makes of the files that are there.                  *)
Killed ==
    /\ pc # "idle"
    /\ Finish
    /\ committed' = IF Exposed THEN Seen ELSE committed
    /\ UNCHANGED <<files, tx, saved>>

Command ==
    \/ \E name \in {"snap", "tables", "status"}, allowWal \in BOOLEAN :
           OpenToRead(name, allowWal)
    \/ \E target \in saved, force \in BOOLEAN : OpenToRestore(target, force)
    \/ ReadPage \/ ReadDone \/ GuardJournal \/ GuardWal \/ SnapSave \/ Answer
    \/ CheckoutCheck \/ Swap \/ UnlinkWal \/ UnlinkJournal \/ Killed

Next == Writer \/ Command

Spec == Init /\ [][Next]_vars

---------------------------------------------------------------------------
(* What snap saves and status, diff, tables and checkout go by is what      *)
(* SQLite would read: never half a transaction, never a file whose newest   *)
(* commits are still in the log, also after writers were killed anywhere,   *)
(* and also when the command starts in the middle of a transaction ("it     *)
(* never silently snapshots a file that SQLite considers incomplete",       *)
(* CONTRIBUTING.md).                                                        *)
ReadsCommitted ==
    pc \in {"save", "answer", "check"} /\ ~ cmd.allowWal => read = committed

(* checkout without --force replaces only a database whose last commit is   *)
(* in the store, wherever that commit is: in the file or in a sidecar.      *)
SparesCommits ==
    pc = "swap" /\ ~ cmd.force => committed \in saved \cup {None}

(* SQLite finds in the database what was last committed or checked out,     *)
(* although commands are killed anywhere, in particular between the rename  *)
(* and the removal of the sidecars.  It does not hold there for a checkout  *)
(* that skipped the guard (--force, or no database file): see README.       *)
SqliteFindsCommitted == ~ Exposed => Seen = committed
=============================================================================
