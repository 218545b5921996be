------------------------- MODULE WorkingFile_proofs -------------------------
(* Commands read and replace committed states only, and SQLite finds what   *)
(* was last committed or restored: proofs for every number of pages and     *)
(* frames, as long as no writer works while a command does.                 *)
EXTENDS WorkingFile, SequenceTheorems, WellFoundedInduction, TLAPS

---------------------------------------------------------------------------
(* The log.                                                                 *)

LEMMA MaxOfSome ==
    ASSUME NEW n \in Nat, NEW T \in SUBSET (0 .. n), T # {}
    PROVE  Max(T) \in T /\ \A i \in T : i <= Max(T)
<1> DEFINE Gaps == {n - i : i \in T}
<1>1. Gaps \subseteq Nat /\ Gaps # {}
  <2>1. \A i \in T : n - i \in Nat
    OBVIOUS
  <2> QED BY <2>1
<1>2. PICK g \in Gaps : \A h \in Gaps : ~ (<<h, g>> \in OpToRel(<, Nat))
  BY <1>1, NatLessThanWellFounded, WFMin, Zenon
<1>3. \A h \in Gaps : ~ (h < g)
  BY <1>1, <1>2 DEF OpToRel
<1>4. PICK k \in T : g = n - k
  OBVIOUS
<1>5. \A i \in T : k >= i
  BY <1>3, <1>4
<1> QED
  BY <1>5 DEF Max

(* Where the last transaction of a log ends. *)
End(f) == Max({0} \cup {i \in DOMAIN f : f[i].commit})

LEMMA EndOfLog ==
    ASSUME NEW f \in Seq(Frames)
    PROVE  /\ End(f) \in 0 .. Len(f)
           /\ End(f) # 0 => f[End(f)].commit
           /\ \A i \in 1 .. Len(f) : f[i].commit => i <= End(f)
<1> DEFINE T == {0} \cup {i \in DOMAIN f : f[i].commit}
<1>1. T \in SUBSET (0 .. Len(f)) /\ T # {} /\ Len(f) \in Nat
  OBVIOUS
<1>2. Max(T) \in T /\ \A i \in T : i <= Max(T)
  BY <1>1, MaxOfSome
<1> QED
  BY <1>2 DEF End

LEMMA EndIs ==
    ASSUME NEW f \in Seq(Frames), NEW e \in 0 .. Len(f),
           e # 0 => f[e].commit,
           \A i \in 1 .. Len(f) : f[i].commit => i <= e
    PROVE  End(f) = e
BY EndOfLog

LEMMA DurableLog ==
    ASSUME NEW f \in Seq(Frames)
    PROVE  /\ Durable(f) \in Seq(Frames)
           /\ Len(Durable(f)) = End(f)
           /\ \A i \in 1 .. End(f) : Durable(f)[i] = f[i]
<1>1. End(f) \in 0 .. Len(f)
  BY EndOfLog
<1>2. \A i \in 1 .. End(f) : f[i] \in Frames
  BY <1>1
<1>3. Durable(f) = SubSeq(f, 1, End(f))
  BY DEF Durable, End
<1> QED
  BY <1>1, <1>2, <1>3, SubSeqProperties

LEMMA DurableIdempotent ==
    ASSUME NEW f \in Seq(Frames)
    PROVE  Durable(Durable(f)) = Durable(f)
<1> DEFINE d == Durable(f)
<1>1. d \in Seq(Frames) /\ Len(d) = End(f) /\ \A i \in 1 .. End(f) : d[i] = f[i]
  BY DurableLog
<1>2. End(f) \in 0 .. Len(d) /\ (End(f) # 0 => d[End(f)].commit)
  BY <1>1, EndOfLog
<1>3. \A i \in 1 .. Len(d) : d[i].commit => i <= Len(d)
  BY <1>1
<1>4. End(d) = Len(d)
  <2> HIDE DEF d
  <2> QED BY <1>1, <1>2, <1>3, EndIs
<1>5. Durable(d) = SubSeq(d, 1, Len(d))
  BY <1>4 DEF Durable, End
<1> QED
  BY <1>1, <1>5, SubSeqFull

LEMMA DurableAppend ==
    ASSUME NEW f \in Seq(Frames), NEW fr \in Frames
    PROVE  Durable(Append(f, fr)) = IF fr.commit THEN Append(f, fr) ELSE Durable(f)
<1> DEFINE g == Append(f, fr)
<1>1. /\ g \in Seq(Frames) /\ Len(g) = Len(f) + 1 /\ g[Len(f) + 1] = fr
      /\ \A i \in 1 .. Len(f) : g[i] = f[i]
  BY AppendProperties
<1>2. CASE fr.commit
  <2>1. End(g) = Len(g)
    <3> HIDE DEF g
    <3> QED BY <1>1, <1>2, EndIs
  <2>2. Durable(g) = SubSeq(g, 1, Len(g))
    BY <2>1 DEF Durable, End
  <2> QED
    BY <1>1, <1>2, <2>2, SubSeqFull
<1>3. CASE ~ fr.commit
  <2>0. End(f) \in 0 .. Len(f) /\ (End(f) # 0 => f[End(f)].commit)
        /\ \A i \in 1 .. Len(f) : f[i].commit => i <= End(f)
    BY EndOfLog
  <2>1. End(g) = End(f)
    <3>1. End(f) \in 0 .. Len(g) /\ (End(f) # 0 => g[End(f)].commit)
      <4> HIDE DEF g
      <4> QED BY <1>1, <2>0
    <3>2. \A i \in 1 .. Len(g) : g[i].commit => i <= End(f)
      <4> HIDE DEF g
      <4> QED BY <1>1, <1>3, <2>0
    <3> HIDE DEF g
    <3> QED BY <1>1, <3>1, <3>2, EndIs
  <2>2. Durable(g) = SubSeq(g, 1, End(f)) /\ Durable(f) = SubSeq(f, 1, End(f))
    BY <2>1 DEF Durable, End
  <2>3. SubSeq(g, 1, End(f)) = SubSeq(f, 1, End(f))
    <3> HIDE DEF g
    <3> QED BY <1>1, <2>0
  <2> QED
    BY <1>3, <2>2, <2>3
<1> QED
  BY <1>2, <1>3

LEMMA DurableEmpty == Durable(<<>>) = <<>>
<1>1. <<>> \in Seq(Frames) /\ Len(<<>>) = 0
  BY EmptySeq
<1>2. End(<<>>) = 0
  <2>1. ASSUME NEW f \in Seq(Frames), Len(f) = 0
        PROVE  End(f) = 0
    <3>1. End(f) \in 0 .. Len(f)
      BY EndOfLog
    <3> QED BY <2>1, <3>1
  <2>2. \A f \in Seq(Frames) : Len(f) = 0 => End(f) = 0
    BY <2>1
  <2> QED BY <1>1, <2>2
<1>3. Durable(<<>>) = SubSeq(<<>>, 1, 0)
  BY <1>2 DEF Durable, End
<1> QED
  BY <1>3, SubSeqEmpty

(* The frames that hold a page. *)
Hits(f, p) == {i \in DOMAIN f : f[i].pg = p}

LEMMA LastHit ==
    ASSUME NEW f \in Seq(Frames), NEW p, Hits(f, p) # {}
    PROVE  /\ Max(Hits(f, p)) \in Hits(f, p)
           /\ \A i \in Hits(f, p) : i <= Max(Hits(f, p))
<1>1. Hits(f, p) \in SUBSET (0 .. Len(f)) /\ Len(f) \in Nat
  BY DEF Hits
<1> QED
  BY <1>1, MaxOfSome

LEMMA OverlayPage ==
    ASSUME NEW file, NEW f, NEW p \in Pgnos
    PROVE  Overlay(file, f)[p] = IF Hits(f, p) = {} THEN file[p] ELSE f[Max(Hits(f, p))].to
BY DEF Overlay, Hits

LEMMA OverlayIs ==
    ASSUME NEW file, NEW f, NEW state \in States,
           \A p \in Pgnos : Overlay(file, f)[p] = state[p]
    PROVE  Overlay(file, f) = state
BY DEF Overlay, States

LEMMA OverlayEmpty ==
    ASSUME NEW file \in States
    PROVE  Overlay(file, <<>>) = file
<1>1. ASSUME NEW p \in Pgnos
      PROVE  Overlay(file, <<>>)[p] = file[p]
  <2>1. Hits(<<>>, p) = {}
    BY DEF Hits
  <2> QED BY <2>1, OverlayPage
<1> QED
  BY <1>1, OverlayIs

LEMMA OverlayIsState ==
    ASSUME NEW file \in States, NEW f \in Seq(Frames)
    PROVE  Overlay(file, f) \in States
<1>1. ASSUME NEW p \in Pgnos
      PROVE  Overlay(file, f)[p] \in Contents
  <2>1. file[p] \in Contents
    BY DEF States
  <2>2. ASSUME Hits(f, p) # {}
        PROVE  f[Max(Hits(f, p))].to \in Contents
    <3>1. Max(Hits(f, p)) \in DOMAIN f
      BY <2>2, LastHit DEF Hits
    <3>2. f[Max(Hits(f, p))] \in Frames
      BY <3>1
    <3> QED BY <3>2 DEF Frames
  <2> QED BY <2>1, <2>2, OverlayPage
<1> QED
  BY <1>1 DEF Overlay, States

(* A frame more changes its page. *)
LEMMA OverlayAppend ==
    ASSUME NEW file \in States, NEW f \in Seq(Frames), NEW fr \in Frames
    PROVE  \A p \in Pgnos : Overlay(file, Append(f, fr))[p]
                             = IF p = fr.pg THEN fr.to ELSE Overlay(file, f)[p]
<1> DEFINE g == Append(f, fr)
<1>1. /\ g \in Seq(Frames) /\ Len(g) = Len(f) + 1 /\ g[Len(f) + 1] = fr
      /\ \A i \in 1 .. Len(f) : g[i] = f[i]
  BY AppendProperties
<1> HIDE DEF g
<1> SUFFICES ASSUME NEW p \in Pgnos
             PROVE  Overlay(file, g)[p] = IF p = fr.pg THEN fr.to ELSE Overlay(file, f)[p]
  BY DEF g
<1>2. CASE p = fr.pg
  <2>1. Len(g) \in Hits(g, p)
    BY <1>1, <1>2 DEF Hits
  <2>2. Max(Hits(g, p)) \in Hits(g, p) /\ Len(g) <= Max(Hits(g, p))
    BY <1>1, <2>1, LastHit
  <2>3. Max(Hits(g, p)) \in 1 .. Len(g)
    BY <1>1, <2>2 DEF Hits
  <2>4. Max(Hits(g, p)) = Len(g)
    BY <2>2, <2>3
  <2>5. Overlay(file, g)[p] = g[Len(g)].to
    BY <2>1, <2>4, OverlayPage
  <2> QED
    BY <1>1, <1>2, <2>5
<1>3. CASE p # fr.pg
  <2>1. Hits(g, p) = Hits(f, p)
    BY <1>1, <1>3 DEF Hits
  <2>2. Overlay(file, g)[p] = IF Hits(f, p) = {} THEN file[p] ELSE g[Max(Hits(f, p))].to
    BY <2>1, OverlayPage
  <2>3. Hits(f, p) # {} => g[Max(Hits(f, p))] = f[Max(Hits(f, p))]
    <3>1. Hits(f, p) # {} => Max(Hits(f, p)) \in Hits(f, p)
      BY LastHit
    <3>2. Hits(f, p) \subseteq 1 .. Len(f)
      BY DEF Hits
    <3> QED BY <1>1, <3>1, <3>2
  <2> QED
    BY <1>3, <2>2, <2>3, OverlayPage
<1> QED
  BY <1>2, <1>3

(* A page may be written to the file as the log has it. *)
LEMMA OverlayChecked ==
    ASSUME NEW file \in States, NEW f \in Seq(Frames), NEW q \in Pgnos
    PROVE  Overlay([file EXCEPT ![q] = Overlay(file, f)[q]], f) = Overlay(file, f)
<1> DEFINE now == [file EXCEPT ![q] = Overlay(file, f)[q]]
<1>1. Overlay(file, f) \in States
  BY OverlayIsState
<1>2. \A p \in Pgnos : now[p] = IF p = q THEN Overlay(file, f)[q] ELSE file[p]
  BY DEF States
<1> HIDE DEF now
<1>3. ASSUME NEW p \in Pgnos
      PROVE  Overlay(now, f)[p] = Overlay(file, f)[p]
  BY <1>2, OverlayPage
<1>4. Overlay(now, f) = Overlay(file, f)
  BY <1>1, <1>3, OverlayIs
<1> QED
  BY <1>4 DEF now

---------------------------------------------------------------------------
(* The invariant.  A writer leaves a log or a hot journal, never both, and  *)
(* the journal holds every page that the file has not got from the          *)
(* transaction yet.                                                         *)
WriterInv ==
    /\ HotJournal => wal = None
    /\ tx # None => main # None
    /\ InRollback /\ HotJournal =>
         \A q \in Pgnos : main[q] # tx[q] => q \in DOMAIN journal

(* A command that reads has read a beginning of the file, or all of it, and *)
(* the sidecars are as the guard let them pass.                             *)
Reading  == pc = "read" /\ cmd.name \in {"snap", "tables"}
Resting  == pc \in {"save", "answer", "check"}
Guarding == pc \in {"guard", "guard_wal"}

ReadInv ==
    /\ pc = "idle" => read = <<>>
    /\ pc = "read" => /\ Len(read) <= PageCount
                      /\ \A i \in 1 .. Len(read) : read[i] = main[i]
    /\ Guarding => read = IF cmd.name \in {"snap", "tables"} THEN <<>> ELSE main
    /\ Resting => read = main
    /\ pc = "read" \/ Guarding \/ Resting => main # None

GuardInv ==
    /\ pc = "guard_wal" => ~ HotJournal
    /\ Reading \/ Resting => ~ HotJournal /\ (cmd.allowWal \/ Log = <<>>)
    /\ pc \in {"swap", "unlink_wal", "unlink_journal"} /\ cmd.guarded =>
         ~ HotJournal /\ Log = <<>>

(* A checkout has an old state to restore and no writer beside it.          *)
Restoring == pc \in {"check", "swap", "unlink_wal", "unlink_journal"}

RestoreInv ==
    /\ Restoring => cmd.name = "checkout"
    /\ pc # "idle" /\ cmd.name = "checkout" =>
         tx = None /\ ~ cmd.allowWal /\ cmd.target \in saved
    /\ pc \in {"unlink_wal", "unlink_journal"} => main = committed /\ main # None
    /\ pc = "unlink_journal" => wal = None

FilesInv ==
    /\ TypeOK /\ WriterInv /\ ReadInv /\ GuardInv /\ RestoreInv
    /\ SparesCommits /\ SqliteFindsCommitted

---------------------------------------------------------------------------
(* What SQLite finds.                                                       *)

LEMMA FileTypes ==
    ASSUME TypeOK
    PROVE  /\ None \notin States /\ None \notin Journals /\ None \notin Seq(Frames)
           /\ Fresh \notin Journals /\ None # Fresh
           /\ Log \in Seq(Frames) /\ Durable(Log) \in Seq(Frames)
           /\ main # None => main \in States
           /\ tx # None => tx \in States
           /\ HotJournal => journal \in Journals
<1>1. <<>> \in Seq(Frames)
  BY EmptySeq
<1>2. Log \in Seq(Frames)
  BY <1>1 DEF TypeOK, Log
<1> QED
  BY <1>2, DurableLog, FilesAssumption DEF TypeOK, HotJournal

LEMMA SeenCalm ==
    ASSUME main \in States, None \notin States, ~ HotJournal
    PROVE  Seen = Overlay(main, Durable(Log))
BY DEF Seen, RolledBack

LEMMA SeenCalmNext ==
    ASSUME main' \in States, None \notin States, journal' \in {None, Fresh}
    PROVE  Seen' = Overlay(main', Durable(Log'))
BY DEF Seen, RolledBack, HotJournal

(* Without a log, what is found is the file with the journal over it.       *)
LEMMA SeenNoLog ==
    ASSUME TypeOK, main # None, Log = <<>>
    PROVE  Seen = RolledBack /\ RolledBack \in States
<1>1. RolledBack \in States
  BY FileTypes DEF RolledBack, States, Journals, TypeOK
<1>2. Seen = Overlay(RolledBack, <<>>)
  BY DurableEmpty DEF Seen
<1> QED
  BY <1>1, <1>2, OverlayEmpty

LEMMA SeenNoLogNext ==
    ASSUME TypeOK', main' # None, Log' = <<>>
    PROVE  Seen' = RolledBack' /\ RolledBack' \in States
<1>1. RolledBack' \in States
  BY FilesAssumption DEF RolledBack, States, Journals, TypeOK, HotJournal
<1>2. Seen' = Overlay(RolledBack', <<>>)
  BY DurableEmpty DEF Seen
<1> QED
  BY <1>1, <1>2, OverlayEmpty

LEMMA SeenSame ==
    ASSUME UNCHANGED files
    PROVE  Seen' = Seen /\ (HotJournal' <=> HotJournal) /\ Log' = Log
BY DEF files, Seen, RolledBack, HotJournal, Log

---------------------------------------------------------------------------
(* SQLite, while no command is under way.                                   *)

LEMMA IdleKeeps ==
    ASSUME TypeOK', WriterInv', Seen' = committed', pc' = "idle", read' = <<>>
    PROVE  FilesInv'
BY DEF FilesInv, ReadInv, GuardInv, RestoreInv, Restoring, Reading, Resting,
       Guarding, SparesCommits, SqliteFindsCommitted

LEMMA WriterStarts ==
    ASSUME FilesInv, WriterPauses, Unhindered
    PROVE  /\ pc = "idle" /\ read = <<>> /\ Seen = committed
           /\ TypeOK /\ WriterInv
BY DEF FilesInv, TypeOK, Unhindered, Window, ReadInv, SqliteFindsCommitted, Exposed

LEMMA RollbackBeginKeeps ==
    ASSUME FilesInv, WriterPauses, NEW state \in States, RollbackBegin(state)
    PROVE  FilesInv'
<1>1. pc = "idle" /\ read = <<>> /\ Seen = committed /\ TypeOK /\ WriterInv
  BY WriterStarts DEF RollbackBegin, WriterMay
<1>2. Seen' = Seen
  BY <1>1, FileTypes DEF RollbackBegin, Seen, RolledBack, HotJournal, Log
<1>3. TypeOK'
  BY <1>1 DEF RollbackBegin, TypeOK, Litegraft
<1>4. WriterInv'
  BY <1>1 DEF RollbackBegin, WriterInv, HotJournal, InRollback, WriterMay
<1> QED
  BY <1>1, <1>2, <1>3, <1>4, IdleKeeps DEF RollbackBegin, Litegraft

LEMMA RollbackSyncKeeps ==
    ASSUME FilesInv, WriterPauses, RollbackSync
    PROVE  FilesInv'
<1>1. pc = "idle" /\ read = <<>> /\ Seen = committed /\ TypeOK /\ WriterInv
  BY WriterStarts DEF RollbackSync, WriterMay
<1>2. main \in States /\ tx \in States /\ wal = None
  BY <1>1, FileTypes DEF RollbackSync, InRollback, WriterMay
<1> DEFINE changed == {q \in Pgnos : main[q] # tx[q]}
<1>3. journal' = [q \in changed |-> main[q]]
  BY DEF RollbackSync
<1>4. journal' \in Journals
  <2>1. \A q \in changed : main[q] \in Contents
    BY <1>2 DEF States
  <2>2. changed \in SUBSET Pgnos
    OBVIOUS
  <2>3. journal' \in [changed -> Contents]
    BY <1>3, <2>1
  <2> QED BY <2>2, <2>3 DEF Journals
<1>5. HotJournal'
  BY <1>4, FilesAssumption DEF HotJournal
<1>6. RolledBack' = main /\ RolledBack = main
  BY <1>2, <1>3, <1>5 DEF RolledBack, States, RollbackSync, HotJournal
<1>7. Seen' = Seen
  BY <1>2, <1>6 DEF Seen, Log, RollbackSync
<1>8. TypeOK'
  BY <1>1, <1>4 DEF RollbackSync, TypeOK, Litegraft
<1>9. WriterInv'
  BY <1>1, <1>2, <1>3 DEF RollbackSync, WriterInv, WriterMay
<1> QED
  BY <1>1, <1>7, <1>8, <1>9, IdleKeeps DEF RollbackSync, Litegraft

LEMMA RollbackWriteKeeps ==
    ASSUME FilesInv, WriterPauses, NEW p \in Pgnos, RollbackWrite(p)
    PROVE  FilesInv'
<1>1. pc = "idle" /\ read = <<>> /\ Seen = committed /\ TypeOK /\ WriterInv
  BY WriterStarts DEF RollbackWrite, WriterMay
<1>2. main \in States /\ tx \in States /\ wal = None /\ HotJournal
  BY <1>1, FileTypes DEF RollbackWrite, InRollback, WriterMay
<1>3. main' = [main EXCEPT ![p] = tx[p]] /\ p \in DOMAIN journal
  BY <1>1 DEF RollbackWrite, WriterInv
<1>4. main' \in States
  BY <1>2, <1>3 DEF States
<1>5. RolledBack' = RolledBack
  BY <1>2, <1>3 DEF RolledBack, HotJournal, States, RollbackWrite
<1>6. Seen' = Seen
  BY <1>2, <1>4, <1>5, FilesAssumption DEF Seen, Log, RollbackWrite
<1>7. TypeOK'
  BY <1>1, <1>4 DEF RollbackWrite, TypeOK, Litegraft
<1>8. WriterInv'
  BY <1>1, <1>2, <1>3, <1>4, FilesAssumption
     DEF RollbackWrite, WriterInv, HotJournal, InRollback, States
<1> QED
  BY <1>1, <1>6, <1>7, <1>8, IdleKeeps DEF RollbackWrite, Litegraft

LEMMA RollbackCommitKeeps ==
    ASSUME FilesInv, WriterPauses, RollbackCommit
    PROVE  FilesInv'
<1>1. pc = "idle" /\ read = <<>> /\ Seen = committed /\ TypeOK /\ WriterInv
  BY WriterStarts DEF RollbackCommit, WriterMay
<1>2. main \in States /\ wal = None
  BY <1>1, FileTypes DEF RollbackCommit, InRollback, WriterMay
<1>3. TypeOK'
  BY <1>1, <1>2 DEF RollbackCommit, TypeOK, Litegraft
<1>4. Seen' = RolledBack'
  BY <1>2, <1>3, SeenNoLogNext, FilesAssumption DEF RollbackCommit, Log
<1>5. RolledBack' = main
  BY DEF RolledBack, HotJournal, RollbackCommit
<1>6. WriterInv'
  BY DEF RollbackCommit, WriterInv, HotJournal, InRollback
<1> QED
  BY <1>1, <1>3, <1>4, <1>5, <1>6, IdleKeeps DEF RollbackCommit, Litegraft

(* A frame changes what is found only if it ends its transaction.           *)
LEMMA FrameAppended ==
    ASSUME main \in States, None \notin States,
           NEW base \in Seq(Frames), NEW state \in States, NEW p \in Pgnos,
           AppendFrame(base, state, p)
    PROVE  /\ wal' \in Seq(Frames)
           /\ \/ /\ tx' = None /\ committed' = state
                 /\ Overlay(main, Durable(wal')) = state
              \/ /\ tx' = state /\ committed' = committed
                 /\ Durable(wal') = Durable(base)
<1> DEFINE left == {q \in Pgnos : Overlay(main, base)[q] # state[q]}
           last == left = {p}
           fr   == [pg |-> p, to |-> state[p], commit |-> last]
<1>1. fr \in Frames /\ fr.pg = p /\ fr.to = state[p] /\ fr.commit = last
  <2>1. state[p] \in Contents
    BY DEF States
  <2>2. last \in BOOLEAN
    OBVIOUS
  <2> HIDE DEF last
  <2> QED BY <2>1, <2>2 DEF Frames
<1>2. /\ wal' = Append(base, fr)
      /\ tx' = IF last THEN None ELSE state
      /\ committed' = IF last THEN state ELSE committed
  BY DEF AppendFrame
<1> HIDE DEF fr
<1>3. wal' \in Seq(Frames)
  BY <1>1, <1>2, AppendProperties
<1>4. Durable(wal') = IF last THEN Append(base, fr) ELSE Durable(base)
  <2> HIDE DEF last
  <2> QED BY <1>1, <1>2, DurableAppend
<1>5. ASSUME last
      PROVE  Overlay(main, Append(base, fr)) = state
  <2>1. \A q \in Pgnos : Overlay(main, Append(base, fr))[q]
                        = IF q = p THEN state[p] ELSE Overlay(main, base)[q]
    BY <1>1, OverlayAppend
  <2>2. \A q \in Pgnos : q # p => Overlay(main, base)[q] = state[q]
    BY <1>5
  <2>3. \A q \in Pgnos : Overlay(main, Append(base, fr))[q] = state[q]
    BY <2>1, <2>2
  <2> QED BY <2>3, OverlayIs
<1> HIDE DEF last
<1> QED
  BY <1>2, <1>3, <1>4, <1>5

(* Both ways to append: base is the log up to its last transaction.         *)
LEMMA AppendKeeps ==
    ASSUME FilesInv, WriterPauses, WriterMay, ~ HotJournal,
           NEW base \in Seq(Frames), NEW state \in States, NEW p \in Pgnos,
           Durable(base) = Durable(Log), AppendFrame(base, state, p),
           UNCHANGED <<main, journal, Litegraft>>
    PROVE  FilesInv'
<1>1. pc = "idle" /\ read = <<>> /\ Seen = committed /\ TypeOK /\ WriterInv
  BY WriterStarts DEF WriterMay
<1>2. main \in States /\ None \notin States /\ journal' \in {None, Fresh}
  BY <1>1, FileTypes DEF WriterMay, HotJournal
<1>3. /\ wal' \in Seq(Frames)
      /\ \/ /\ tx' = None /\ committed' = state
            /\ Overlay(main, Durable(wal')) = state
         \/ /\ tx' = state /\ committed' = committed
            /\ Durable(wal') = Durable(base)
  BY <1>2, FrameAppended
<1>4. Log' = wal'
  BY <1>3, FilesAssumption DEF Log
<1>5. Seen' = Overlay(main, Durable(wal')) /\ Seen = Overlay(main, Durable(Log))
  BY <1>2, <1>4, SeenCalm, SeenCalmNext
<1>6. Seen' = committed'
  BY <1>1, <1>3, <1>5
<1>7. TypeOK'
  BY <1>1, <1>3 DEF TypeOK, Litegraft
<1>8. WriterInv'
  BY <1>2, <1>3, FilesAssumption DEF WriterInv, HotJournal, InRollback
<1> QED
  BY <1>1, <1>6, <1>7, <1>8, IdleKeeps DEF Litegraft

LEMMA WalBeginKeeps ==
    ASSUME FilesInv, WriterPauses, NEW state \in States, NEW p \in Pgnos,
           WalBegin(state, p)
    PROVE  FilesInv'
<1>1. Log \in Seq(Frames) /\ Durable(Log) \in Seq(Frames)
  BY FileTypes DEF FilesInv
<1>2. Durable(Durable(Log)) = Durable(Log)
  BY <1>1, DurableIdempotent
<1> QED
  BY <1>1, <1>2, AppendKeeps DEF WalBegin

LEMMA WalFrameKeeps ==
    ASSUME FilesInv, WriterPauses, NEW p \in Pgnos, WalFrame(p)
    PROVE  FilesInv'
<1>1. wal \in Seq(Frames) /\ Log = wal /\ tx \in States /\ ~ HotJournal
  BY FileTypes DEF FilesInv, WalFrame, TypeOK, Log, WriterInv
<1> QED
  BY <1>1, AppendKeeps DEF WalFrame

LEMMA CheckpointKeeps ==
    ASSUME FilesInv, WriterPauses, NEW p \in Pgnos, Checkpoint(p)
    PROVE  FilesInv'
<1>1. pc = "idle" /\ read = <<>> /\ Seen = committed /\ TypeOK /\ WriterInv
  BY WriterStarts DEF Checkpoint, WriterMay
<1>2. /\ main \in States /\ None \notin States /\ Durable(Log) \in Seq(Frames)
      /\ ~ HotJournal
  BY <1>1, FileTypes DEF WriterMay, Checkpoint
<1>3. Seen = Overlay(main, Durable(Log)) /\ Seen \in States
  BY <1>2, SeenCalm, OverlayIsState
<1>4. main' = [main EXCEPT ![p] = Overlay(main, Durable(Log))[p]] /\ Log' = Log
  BY <1>3 DEF Checkpoint, Log
<1>5. main' \in States
  BY <1>2, <1>3, <1>4 DEF States
<1>6. Overlay(main', Durable(Log)) = Overlay(main, Durable(Log))
  BY <1>2, <1>4, OverlayChecked
<1>7. Seen' = Seen
  BY <1>2, <1>3, <1>4, <1>5, <1>6, SeenCalmNext DEF Checkpoint, HotJournal
<1>8. TypeOK'
  BY <1>1, <1>5 DEF Checkpoint, TypeOK, Litegraft
<1>9. WriterInv'
  BY <1>1, <1>5, FilesAssumption DEF Checkpoint, WriterInv, HotJournal, InRollback
<1> QED
  BY <1>1, <1>7, <1>8, <1>9, IdleKeeps DEF Checkpoint, Litegraft

LEMMA WalResetKeeps ==
    ASSUME FilesInv, WriterPauses, WalReset
    PROVE  FilesInv'
<1>1. pc = "idle" /\ read = <<>> /\ Seen = committed /\ TypeOK /\ WriterInv
  BY WriterStarts DEF WalReset, WriterMay
<1>2. main \in States /\ ~ HotJournal
  BY <1>1, FileTypes DEF WriterMay, WalReset, WriterInv
<1>3. TypeOK'
  BY <1>1, EmptySeq DEF WalReset, TypeOK, Litegraft
<1>4. Log' = <<>>
  BY DEF WalReset, Log
<1>5. Seen' = RolledBack' /\ RolledBack' = main
  BY <1>2, <1>3, <1>4, SeenNoLogNext, FilesAssumption
     DEF RolledBack, HotJournal, WalReset
<1>6. WriterInv'
  BY <1>2 DEF WalReset, WriterInv, HotJournal, InRollback
<1> QED
  BY <1>1, <1>3, <1>5, <1>6, IdleKeeps DEF WalReset, Litegraft

LEMMA RecoverKeeps ==
    ASSUME FilesInv, WriterPauses, Recover
    PROVE  FilesInv'
<1>1. pc = "idle" /\ read = <<>> /\ Seen = committed /\ TypeOK /\ WriterInv
  BY WriterStarts DEF Recover, WriterMay
<1>2. Log = <<>> /\ wal = None
  BY <1>1 DEF Recover, WriterInv, Log
<1>3. Seen = RolledBack /\ RolledBack \in States
  BY <1>1, <1>2, SeenNoLog DEF Recover, WriterMay
<1>4. TypeOK' /\ main' # None
  BY <1>1, <1>3, FilesAssumption DEF Recover, TypeOK, Litegraft
<1>5. Seen' = RolledBack' /\ RolledBack' = main'
  BY <1>2, <1>4, SeenNoLogNext DEF RolledBack, HotJournal, Recover, Log
<1>6. WriterInv'
  BY <1>2 DEF Recover, WriterInv, HotJournal, InRollback
<1> QED
  BY <1>1, <1>3, <1>4, <1>5, <1>6, IdleKeeps DEF Recover, Litegraft

LEMMA RemoveMainKeeps ==
    ASSUME FilesInv, WriterPauses, RemoveMain
    PROVE  FilesInv'
<1>1. pc = "idle" /\ read = <<>> /\ Seen = committed /\ TypeOK /\ WriterInv
  BY WriterStarts DEF RemoveMain, WriterMay
<1>2. Seen' = committed'
  BY DEF RemoveMain, Seen
<1>3. TypeOK'
  BY <1>1 DEF RemoveMain, TypeOK, Litegraft
<1>4. WriterInv'
  BY <1>1 DEF RemoveMain, WriterInv, HotJournal, InRollback
<1> QED
  BY <1>1, <1>2, <1>3, <1>4, IdleKeeps DEF RemoveMain, Litegraft

LEMMA CreateMainKeeps ==
    ASSUME FilesInv, WriterPauses, NEW state \in States, CreateMain(state)
    PROVE  FilesInv'
<1>1. pc = "idle" /\ read = <<>> /\ Seen = committed /\ TypeOK /\ WriterInv
  BY WriterStarts DEF CreateMain
<1>2. TypeOK'
  BY <1>1 DEF CreateMain, TypeOK, Litegraft
<1>3. Seen' = RolledBack' /\ RolledBack' = state
  BY <1>2, SeenNoLogNext, FilesAssumption DEF CreateMain, RolledBack, HotJournal, Log
<1>4. WriterInv'
  BY <1>1 DEF CreateMain, WriterInv, HotJournal, InRollback
<1> QED
  BY <1>1, <1>2, <1>3, <1>4, IdleKeeps DEF CreateMain, Litegraft

LEMMA WriterKilledKeeps ==
    ASSUME FilesInv, WriterKilled
    PROVE  FilesInv'
<1>1. Seen' = Seen /\ (HotJournal' <=> HotJournal) /\ Log' = Log
  BY SeenSame DEF WriterKilled
<1>2. TypeOK'
  BY DEF WriterKilled, FilesInv, TypeOK, files, Litegraft
<1>3. WriterInv'
  BY <1>1 DEF WriterKilled, FilesInv, WriterInv, InRollback, files
<1>4. ReadInv' /\ GuardInv' /\ RestoreInv'
  BY <1>1 DEF WriterKilled, FilesInv, ReadInv, GuardInv, RestoreInv, Restoring,
              Reading, Resting, Guarding, files, Litegraft
<1>5. SparesCommits' /\ SqliteFindsCommitted'
  BY <1>1 DEF WriterKilled, FilesInv, SparesCommits, SqliteFindsCommitted, Exposed,
              Litegraft
<1> QED
  BY <1>2, <1>3, <1>4, <1>5 DEF FilesInv

---------------------------------------------------------------------------
(* litegraft, while no writer works.                                        *)

(* A step of a command that touches no file.                                *)
LEMMA LooksKeep ==
    ASSUME FilesInv, UNCHANGED <<files, Sqlite>>,
           pc \notin {"unlink_wal", "unlink_journal"},
           TypeOK', ReadInv', GuardInv', RestoreInv', SparesCommits'
    PROVE  FilesInv'
<1>1. Seen' = Seen /\ (HotJournal' <=> HotJournal)
  BY SeenSame
<1>2. WriterInv'
  BY <1>1 DEF FilesInv, WriterInv, InRollback, files, Sqlite
<1>3. SqliteFindsCommitted'
  BY <1>1 DEF FilesInv, SqliteFindsCommitted, Exposed, Sqlite
<1> QED
  BY <1>2, <1>3 DEF FilesInv

(* A command that ends, whatever it has done to the files.                  *)
LEMMA FinishKeeps ==
    ASSUME FilesInv, Finish, TypeOK', WriterInv', Seen' = committed'
    PROVE  FilesInv'
BY IdleKeeps DEF Finish, Proceed

LEMMA CommandTypes ==
    ASSUME TypeOK
    PROVE  /\ Idle \in Cmds
           /\ \A name \in {"snap", "tables", "status"}, allow \in BOOLEAN :
                 [Idle EXCEPT !.name = name, !.allowWal = allow] \in Cmds
           /\ \A target \in States, force \in BOOLEAN :
                 [Idle EXCEPT !.name = "checkout", !.target = target, !.force = force] \in Cmds
           /\ [cmd EXCEPT !.guarded = TRUE] \in Cmds
           /\ <<>> \in Seq(Contents)
BY EmptySeq DEF TypeOK, Cmds, Idle

LEMMA OpenToReadKeeps ==
    ASSUME FilesInv, NEW name \in {"snap", "tables", "status"}, NEW allow \in BOOLEAN,
           OpenToRead(name, allow)
    PROVE  FilesInv'
<1>1. /\ cmd' = [Idle EXCEPT !.name = name, !.allowWal = allow]
      /\ pc' = IF name \in {"snap", "tables"} THEN "guard" ELSE "read"
      /\ read' = <<>> /\ main' = main /\ main # None /\ Log' = Log
      /\ cmd'.name = name
  BY DEF OpenToRead, Proceed, FilesInv, ReadInv, files, Log, Idle
<1>2. TypeOK'
  BY <1>1, CommandTypes DEF OpenToRead, FilesInv, TypeOK, files, Sqlite
<1>3. ReadInv'
  <2>1. Len(read') = 0
    BY <1>1
  <2> QED BY <1>1, <2>1, SizesAssumption DEF ReadInv, Guarding, Resting
<1>4. GuardInv'
  BY <1>1 DEF GuardInv, Reading, Resting
<1>5. RestoreInv' /\ SparesCommits'
  BY <1>1 DEF RestoreInv, Restoring, SparesCommits
<1> QED
  BY <1>2, <1>3, <1>4, <1>5, LooksKeep DEF OpenToRead

LEMMA OpenToRestoreKeeps ==
    ASSUME FilesInv, WriterPauses, NEW target \in saved, NEW force \in BOOLEAN,
           OpenToRestore(target, force)
    PROVE  FilesInv'
<1>1. /\ cmd' = [Idle EXCEPT !.name = "checkout", !.target = target, !.force = force]
      /\ pc' = IF main = None \/ force THEN "swap" ELSE "read"
      /\ read' = <<>> /\ main' = main /\ Log' = Log
      /\ tx' = None /\ saved' = saved /\ committed' = committed
      /\ pc = "idle"
  BY DEF OpenToRestore, Proceed, FilesInv, ReadInv, files, Sqlite, Log
<1>2. /\ cmd'.name = "checkout" /\ ~ cmd'.allowWal /\ ~ cmd'.guarded
      /\ cmd'.target = target /\ cmd'.force = force
  BY <1>1 DEF Idle
<1>3. target \in States
  BY DEF FilesInv, TypeOK
<1>4. TypeOK'
  BY <1>1, <1>3, CommandTypes DEF OpenToRestore, FilesInv, TypeOK, files, Sqlite
<1>5. ReadInv'
  <2>1. Len(read') = 0
    BY <1>1
  <2> QED BY <1>1, <2>1, SizesAssumption DEF ReadInv, Guarding, Resting
<1>6. GuardInv'
  BY <1>1, <1>2 DEF GuardInv, Reading, Resting
<1>7. RestoreInv'
  BY <1>1, <1>2 DEF RestoreInv, Restoring
<1>8. SparesCommits'
  <2>1. main = None => committed = None
    BY <1>1 DEF FilesInv, SqliteFindsCommitted, Exposed, Seen
  <2> QED BY <1>1, <1>2, <2>1 DEF SparesCommits
<1> QED
  BY <1>1, <1>4, <1>5, <1>6, <1>7, <1>8, LooksKeep DEF OpenToRestore

LEMMA ReadPageKeeps ==
    ASSUME FilesInv, ReadPage
    PROVE  FilesInv'
<1>1. /\ pc = "read" /\ Len(read) < PageCount /\ main \in States
      /\ read \in Seq(Contents) /\ TypeOK
  BY FileTypes DEF FilesInv, ReadPage, TypeOK, ReadInv
<1>2. Len(read) + 1 \in Pgnos
  BY <1>1, SizesAssumption DEF Pgnos
<1>3. main[Len(read) + 1] \in Contents
  BY <1>1, <1>2 DEF States
<1>4. /\ read' \in Seq(Contents) /\ Len(read') = Len(read) + 1
      /\ read'[Len(read) + 1] = main[Len(read) + 1]
      /\ \A i \in 1 .. Len(read) : read'[i] = read[i]
  BY <1>1, <1>3, AppendProperties DEF ReadPage
<1>5. TypeOK'
  BY <1>1, <1>4 DEF ReadPage, TypeOK, files, Sqlite
<1>6. UNCHANGED <<main, journal, wal, pc, cmd, saved, tx, committed>>
  BY DEF ReadPage, files, Sqlite
<1>7. ReadInv'
  <2>1. Len(read') <= PageCount
    BY <1>1, <1>4, SizesAssumption
  <2>2. \A i \in 1 .. Len(read') : read'[i] = main[i]
    BY <1>1, <1>4 DEF FilesInv, ReadInv
  <2> QED BY <1>1, <1>6, <2>1, <2>2 DEF FilesInv, ReadInv, Guarding, Resting
<1>8. GuardInv' /\ RestoreInv' /\ SparesCommits'
  BY <1>6 DEF FilesInv, GuardInv, RestoreInv, SparesCommits, Reading, Resting,
              Restoring, HotJournal, Log
<1> QED
  BY <1>1, <1>5, <1>7, <1>8, LooksKeep DEF ReadPage

LEMMA ReadDoneKeeps ==
    ASSUME FilesInv, ReadDone
    PROVE  FilesInv'
<1>1. pc = "read" /\ main \in States /\ read \in Seq(Contents) /\ cmd \in Cmds
  BY FileTypes DEF FilesInv, ReadDone, TypeOK, ReadInv
<1>2. read = main
  <2>1. \A i \in 1 .. PageCount : read[i] = main[i]
    BY <1>1 DEF FilesInv, ReadInv, ReadDone
  <2>2. read = [i \in 1 .. PageCount |-> read[i]]
    BY <1>1 DEF ReadDone
  <2> QED BY <1>1, <2>1, <2>2 DEF States, Pgnos
<1>3. UNCHANGED <<main, journal, wal, cmd, saved, tx, committed, read>>
  BY DEF ReadDone, Proceed, files, Sqlite
<1>4. pc' = CASE cmd.name = "snap" -> "save"
              [] cmd.name = "tables" -> "answer"
              [] OTHER -> "guard"
  BY DEF ReadDone, Proceed
<1>5. \/ cmd.name = "snap" /\ pc' = "save"
      \/ cmd.name = "tables" /\ pc' = "answer"
      \/ cmd.name \notin {"snap", "tables"} /\ pc' = "guard"
  BY <1>4
<1>6. TypeOK'
  BY <1>3, <1>5 DEF FilesInv, TypeOK
<1>7. ReadInv'
  BY <1>1, <1>2, <1>3, <1>5 DEF FilesInv, ReadInv, Guarding, Resting
<1>8. GuardInv' /\ RestoreInv' /\ SparesCommits'
  BY <1>1, <1>3, <1>5 DEF FilesInv, GuardInv, RestoreInv, SparesCommits, Reading,
              Resting, Restoring, HotJournal, Log
<1> QED
  BY <1>1, <1>6, <1>7, <1>8, LooksKeep DEF ReadDone

(* A command that ends without having touched a file.                       *)
LEMMA LeavesKeep ==
    ASSUME FilesInv, Finish, UNCHANGED <<files, Sqlite>>, saved' \subseteq States,
           pc \notin {"unlink_wal", "unlink_journal"}
    PROVE  FilesInv'
<1>1. Seen' = Seen /\ (HotJournal' <=> HotJournal)
  BY SeenSame
<1>2. TypeOK'
  BY CommandTypes DEF FilesInv, TypeOK, Finish, Proceed, files, Sqlite
<1>3. WriterInv'
  BY <1>1 DEF FilesInv, WriterInv, InRollback, files, Sqlite
<1>4. Seen' = committed'
  BY <1>1 DEF FilesInv, SqliteFindsCommitted, Exposed, Sqlite
<1> QED
  BY <1>2, <1>3, <1>4, FinishKeeps

LEMMA GuardJournalKeeps ==
    ASSUME FilesInv, GuardJournal
    PROVE  FilesInv'
<1>1. CASE Finish
  BY <1>1, LeavesKeep DEF GuardJournal, FilesInv, TypeOK
<1>2. CASE ~ HotJournal /\ Proceed("guard_wal", cmd) /\ UNCHANGED read
  <2>1. /\ pc = "guard" /\ pc' = "guard_wal"
        /\ UNCHANGED <<main, journal, wal, cmd, saved, tx, committed, read>>
    BY <1>2 DEF GuardJournal, Proceed, files, Sqlite
  <2>2. TypeOK' /\ ReadInv' /\ RestoreInv' /\ SparesCommits'
    BY <2>1 DEF FilesInv, TypeOK, ReadInv, RestoreInv, SparesCommits, Guarding,
                Resting, Restoring
  <2>3. GuardInv'
    BY <1>2, <2>1 DEF GuardInv, Reading, Resting, HotJournal
  <2> QED
    BY <2>1, <2>2, <2>3, LooksKeep DEF GuardJournal
<1> QED
  BY <1>1, <1>2 DEF GuardJournal

LEMMA GuardWalKeeps ==
    ASSUME FilesInv, GuardWal
    PROVE  FilesInv'
<1> DEFINE next == CASE cmd.name \in {"snap", "tables"} -> "read"
                     [] cmd.name = "status" -> "answer"
                     [] OTHER -> "check"
<1>1. CASE Finish
  BY <1>1, LeavesKeep DEF GuardWal, FilesInv, TypeOK
<1>2. CASE /\ ~ WalPending \/ cmd.allowWal
           /\ Proceed(next, [cmd EXCEPT !.guarded = TRUE])
           /\ UNCHANGED read
  <2>1. /\ pc = "guard_wal" /\ cmd \in Cmds /\ main # None /\ ~ HotJournal
        /\ read = IF cmd.name \in {"snap", "tables"} THEN <<>> ELSE main
    BY DEF GuardWal, FilesInv, TypeOK, ReadInv, GuardInv, Guarding
  <2>2. UNCHANGED <<main, journal, wal, saved, tx, committed, read>>
    BY <1>2 DEF GuardWal, files, Sqlite
  <2>3. /\ cmd' \in Cmds /\ cmd'.name = cmd.name /\ cmd'.allowWal = cmd.allowWal
        /\ cmd'.target = cmd.target
    BY <1>2, <2>1 DEF Proceed, Cmds
  <2>4. pc' = next
    BY <1>2 DEF Proceed
  <2>5. \/ cmd.name \in {"snap", "tables"} /\ pc' = "read"
        \/ cmd.name = "status" /\ pc' = "answer"
        \/ cmd.name = "checkout" /\ pc' = "check"
    BY <2>1, <2>4 DEF Cmds
  <2>6. ~ HotJournal' /\ (cmd'.allowWal \/ Log' = <<>>)
    <3>1. ~ WalPending => Log = <<>>
      BY EmptySeq DEF WalPending, Log, FilesInv, TypeOK
    <3> QED BY <1>2, <2>1, <2>2, <2>3, <3>1 DEF HotJournal, Log
  <2>7. TypeOK'
    BY <2>2, <2>3, <2>5 DEF FilesInv, TypeOK
  <2>8. ReadInv'
    <3>1. cmd.name \in {"snap", "tables"} => Len(read') = 0
      BY <2>1, <2>2
    <3> QED
      BY <2>1, <2>2, <2>3, <2>5, <3>1, SizesAssumption DEF ReadInv, Guarding, Resting
  <2>9. GuardInv'
    BY <2>5, <2>6 DEF GuardInv, Reading, Resting
  <2>10. RestoreInv' /\ SparesCommits'
    BY <2>1, <2>2, <2>3, <2>5 DEF FilesInv, RestoreInv, SparesCommits, Restoring
  <2> QED
    BY <2>1, <2>7, <2>8, <2>9, <2>10, LooksKeep DEF GuardWal
<1> QED
  BY <1>1, <1>2 DEF GuardWal

LEMMA SnapSaveKeeps ==
    ASSUME FilesInv, SnapSave
    PROVE  FilesInv'
<1>1. read \in States
  BY FileTypes DEF FilesInv, ReadInv, Resting, SnapSave
<1>2. saved' \subseteq States
  BY <1>1 DEF SnapSave, FilesInv, TypeOK
<1> QED
  BY <1>2, LeavesKeep DEF SnapSave

(* What a command goes by is what SQLite would find.                        *)
LEMMA RestIsCommitted ==
    ASSUME FilesInv, Resting, ~ cmd.allowWal
    PROVE  read = committed
<1>1. ~ HotJournal /\ Log = <<>> /\ read = main /\ main # None /\ TypeOK
  BY DEF FilesInv, GuardInv, ReadInv
<1>2. Seen = main
  BY <1>1, SeenNoLog DEF RolledBack
<1> QED
  BY <1>1, <1>2 DEF FilesInv, SqliteFindsCommitted, Exposed, Resting

LEMMA CheckoutCheckKeeps ==
    ASSUME FilesInv, CheckoutCheck
    PROVE  FilesInv'
<1>1. CASE Finish
  BY <1>1, LeavesKeep DEF CheckoutCheck, FilesInv, TypeOK
<1>2. CASE read \in saved /\ Proceed("swap", cmd) /\ UNCHANGED read
  <2>1. /\ pc = "check" /\ pc' = "swap" /\ read \in saved
        /\ UNCHANGED <<main, journal, wal, cmd, saved, tx, committed, read>>
    BY <1>2 DEF CheckoutCheck, Proceed, files, Sqlite
  <2>2. cmd.name = "checkout" /\ ~ cmd.allowWal
    BY <2>1 DEF FilesInv, RestoreInv, Restoring
  <2>3. read = committed
    BY <2>1, <2>2, RestIsCommitted DEF Resting
  <2>4. TypeOK' /\ ReadInv' /\ RestoreInv'
    BY <2>1, <2>2 DEF FilesInv, TypeOK, ReadInv, RestoreInv, Guarding, Resting, Restoring
  <2>5. GuardInv'
    BY <2>1, <2>2 DEF FilesInv, GuardInv, Reading, Resting, HotJournal, Log
  <2>6. SparesCommits'
    BY <2>1, <2>3 DEF SparesCommits
  <2> QED
    BY <2>1, <2>4, <2>5, <2>6, LooksKeep DEF CheckoutCheck
<1> QED
  BY <1>1, <1>2 DEF CheckoutCheck

(* From here on the command changes files.                                  *)
LEMMA SwapKeeps ==
    ASSUME FilesInv, Swap
    PROVE  FilesInv'
<1>1. /\ pc = "swap" /\ pc' = "unlink_wal" /\ cmd' = cmd
      /\ main' = cmd.target /\ committed' = cmd.target
      /\ UNCHANGED <<wal, journal, tx, saved, read>>
  BY DEF Swap, Proceed
<1>2. /\ cmd.name = "checkout" /\ tx = None /\ ~ cmd.allowWal
      /\ cmd.target \in saved /\ cmd.target \in States
  BY <1>1 DEF FilesInv, RestoreInv, Restoring, TypeOK
<1>3. main' # None
  BY <1>1, <1>2, FilesAssumption
<1>4. TypeOK'
  BY <1>1, <1>2 DEF FilesInv, TypeOK
<1>5. WriterInv'
  BY <1>1, <1>2, <1>3 DEF FilesInv, WriterInv, InRollback, HotJournal
<1>6. ReadInv' /\ GuardInv' /\ RestoreInv' /\ SparesCommits'
  BY <1>1, <1>2, <1>3 DEF FilesInv, ReadInv, GuardInv, RestoreInv, SparesCommits,
                          Guarding, Reading, Resting, Restoring, HotJournal, Log
<1>7. SqliteFindsCommitted'
  <2>1. ASSUME ~ Exposed'
        PROVE  Seen' = committed'
    <3>1. ~ HotJournal' /\ Log' = <<>>
      BY <1>1, <2>1 DEF Exposed, FilesInv, GuardInv, HotJournal, Log
    <3>2. Seen' = RolledBack'
      BY <1>3, <1>4, <3>1, SeenNoLogNext
    <3> QED BY <1>1, <3>1, <3>2 DEF RolledBack
  <2> QED BY <2>1 DEF SqliteFindsCommitted
<1> QED
  BY <1>4, <1>5, <1>6, <1>7 DEF FilesInv

LEMMA UnlinkWalKeeps ==
    ASSUME FilesInv, UnlinkWal
    PROVE  FilesInv'
<1>1. /\ pc = "unlink_wal" /\ pc' = "unlink_journal" /\ cmd' = cmd /\ wal' = None
      /\ UNCHANGED <<main, journal, tx, committed, saved, read>>
  BY DEF UnlinkWal, Proceed, Sqlite
<1>2. /\ cmd.name = "checkout" /\ tx = None /\ main = committed /\ main # None
      /\ TypeOK
  BY <1>1 DEF FilesInv, RestoreInv, Restoring
<1>3. Log' = <<>>
  BY <1>1 DEF Log
<1>4. TypeOK'
  BY <1>1 DEF FilesInv, TypeOK
<1>5. WriterInv'
  BY <1>1, <1>2 DEF WriterInv, InRollback
<1>6. ReadInv' /\ GuardInv' /\ RestoreInv' /\ SparesCommits'
  BY <1>1, <1>3 DEF FilesInv, ReadInv, GuardInv, RestoreInv, SparesCommits,
                    Guarding, Reading, Resting, Restoring, HotJournal
<1>7. SqliteFindsCommitted'
  <2>1. ASSUME ~ Exposed'
        PROVE  Seen' = committed'
    <3>1. ~ HotJournal'
      BY <1>1, <2>1 DEF Exposed, FilesInv, GuardInv, HotJournal
    <3>2. Seen' = RolledBack'
      BY <1>1, <1>2, <1>3, <1>4, SeenNoLogNext
    <3> QED BY <1>1, <1>2, <3>1, <3>2 DEF RolledBack
  <2> QED BY <2>1 DEF SqliteFindsCommitted
<1> QED
  BY <1>4, <1>5, <1>6, <1>7 DEF FilesInv

LEMMA UnlinkJournalKeeps ==
    ASSUME FilesInv, UnlinkJournal
    PROVE  FilesInv'
<1>1. /\ pc = "unlink_journal" /\ journal' = None
      /\ UNCHANGED <<main, wal, tx, committed, saved>>
  BY DEF UnlinkJournal, Sqlite
<1>2. main = committed /\ main # None /\ wal = None /\ tx = None
  BY <1>1 DEF FilesInv, RestoreInv, Restoring
<1>3. ~ HotJournal' /\ Log' = <<>>
  BY <1>1, <1>2 DEF HotJournal, Log
<1>4. TypeOK'
  BY <1>1, CommandTypes DEF UnlinkJournal, Finish, Proceed, FilesInv, TypeOK
<1>5. WriterInv'
  BY <1>1, <1>2, <1>3 DEF WriterInv, InRollback
<1>6. Seen' = committed'
  <2>1. Seen' = RolledBack'
    BY <1>1, <1>2, <1>3, <1>4, SeenNoLogNext
  <2> QED BY <1>1, <1>2, <1>3, <2>1 DEF RolledBack
<1> QED
  BY <1>4, <1>5, <1>6, FinishKeeps DEF UnlinkJournal

LEMMA KilledKeeps ==
    ASSUME FilesInv, Killed
    PROVE  FilesInv'
<1>1. Seen' = Seen /\ (HotJournal' <=> HotJournal)
  BY SeenSame DEF Killed
<1>2. Seen' = committed'
  BY <1>1 DEF Killed, FilesInv, SqliteFindsCommitted
<1>3. Seen \in States \cup {None}
  <2>1. CASE main = None
    BY <2>1 DEF Seen
  <2>2. CASE main # None
    <3>1. RolledBack \in States /\ Durable(Log) \in Seq(Frames)
      BY <2>2, FileTypes DEF FilesInv, RolledBack, States, Journals, TypeOK
    <3> QED BY <2>2, <3>1, OverlayIsState DEF Seen
  <2> QED BY <2>1, <2>2
<1>4. TypeOK'
  BY <1>3, CommandTypes DEF Killed, Finish, Proceed, FilesInv, TypeOK, files
<1>5. WriterInv'
  BY <1>1 DEF Killed, FilesInv, WriterInv, InRollback, files
<1> QED
  BY <1>2, <1>4, <1>5, FinishKeeps DEF Killed

---------------------------------------------------------------------------
LEMMA InitFiles == Init => FilesInv
<1> SUFFICES ASSUME Init
             PROVE  FilesInv
  OBVIOUS
<1>1. None # Fresh /\ None \notin States /\ ~ HotJournal /\ Log = <<>> /\ main # None
  BY FilesAssumption DEF Init, HotJournal, Log
<1>2. TypeOK
  BY EmptySeq DEF Init, TypeOK, Cmds, Idle
<1>3. Seen = committed
  BY <1>1, <1>2, SeenNoLog DEF Init, RolledBack
<1> QED
  BY <1>1, <1>2, <1>3
     DEF Init, FilesInv, WriterInv, ReadInv, GuardInv, RestoreInv, SparesCommits,
         SqliteFindsCommitted, Exposed, InRollback, Reading, Resting, Guarding, Restoring

LEMMA NextFiles == WriterPauses /\ FilesInv /\ [Next]_vars => FilesInv'
<1> SUFFICES ASSUME WriterPauses, FilesInv, [Next]_vars
             PROVE  FilesInv'
  OBVIOUS
<1>1. CASE Writer
  BY <1>1, RollbackBeginKeeps, CreateMainKeeps, WalBeginKeeps, RollbackWriteKeeps,
     WalFrameKeeps, CheckpointKeeps, RollbackSyncKeeps, RollbackCommitKeeps,
     WalResetKeeps, RecoverKeeps, WriterKilledKeeps, RemoveMainKeeps DEF Writer
<1>2. CASE Command
  <2>1. ASSUME Answer
        PROVE  FilesInv'
    BY <2>1, LeavesKeep DEF Answer, FilesInv, TypeOK
  <2> QED
    BY <1>2, <2>1, OpenToReadKeeps, OpenToRestoreKeeps, ReadPageKeeps, ReadDoneKeeps,
       GuardJournalKeeps, GuardWalKeeps, SnapSaveKeeps, CheckoutCheckKeeps, SwapKeeps,
       UnlinkWalKeeps, UnlinkJournalKeeps, KilledKeeps DEF Command
<1>3. CASE UNCHANGED vars
  <2>1. Seen' = Seen /\ (HotJournal' <=> HotJournal) /\ Log' = Log
    BY <1>3, SeenSame DEF vars, files
  <2> QED
    BY <1>3, <2>1
       DEF vars, FilesInv, TypeOK, WriterInv, ReadInv, GuardInv, RestoreInv,
           SparesCommits, SqliteFindsCommitted, Exposed, InRollback, Reading, Resting,
           Guarding, Restoring
<1> QED
  BY <1>1, <1>2, <1>3 DEF Next

LEMMA SpecFiles == ASSUME WriterPauses PROVE Spec => []FilesInv
<1>1. WriterPauses /\ FilesInv /\ [Next]_vars => FilesInv'
  BY NextFiles
<1>2. FilesInv /\ [Next]_vars => FilesInv'
  BY <1>1
<1> QED
  BY InitFiles, <1>2, PTL DEF Spec

---------------------------------------------------------------------------
(* Whatever state SQLite left the files in, snap saves, and status, tables  *)
(* and checkout go by, what was last committed (guard_sidecars).            *)
THEOREM OnlyCommittedIsRead == ASSUME WriterPauses PROVE Spec => []ReadsCommitted
<1>1. FilesInv => ReadsCommitted
  BY RestIsCommitted DEF ReadsCommitted, Resting
<1> QED
  BY SpecFiles, <1>1, PTL

(* A checkout without --force replaces only what the store has, wherever    *)
(* the last commit is.                                                      *)
THEOREM CommitsAreSpared == ASSUME WriterPauses PROVE Spec => []SparesCommits
<1>1. FilesInv => SparesCommits
  BY DEF FilesInv
<1> QED
  BY SpecFiles, <1>1, PTL

(* Outside a checkout that skipped the guard, SQLite finds what was last    *)
(* committed or restored, whoever is killed in between.                     *)
THEOREM CommittedIsFound == ASSUME WriterPauses PROVE Spec => []SqliteFindsCommitted
<1>1. FilesInv => SqliteFindsCommitted
  BY DEF FilesInv
<1> QED
  BY SpecFiles, <1>1, PTL
=============================================================================
