------------------------- MODULE AtomicFile_proofs -------------------------
(* A file of the store that one process writes at a time is absent or       *)
(* whole, for any text, any number of readers and a writer killed anywhere. *)
(*                                                                          *)
(* The temporary file belongs to the writer, who has laid down its text up  *)
(* to its offset; the final name and the open readers stand for other,      *)
(* whole inodes, so that truncating and writing the temporary file disturbs *)
(* nobody.                                                                  *)
EXTENDS AtomicFile, TLAPS

OneWriter == \A v, w \in Writers : v = w

Content == Seq(Chunks \cup {Hole})

(* The temporary file holds the text up to the offset of its writer. *)
Written(w) ==
    /\ pc[w] \in {"write", "rename"} => /\ fd[w] = tmp /\ tmp \in Inodes
                                        /\ Len(data[tmp]) = off[w]
                                        /\ \A n \in 1 .. off[w] : data[tmp][n] = Text[w][n]
    /\ pc[w] = "rename" => off[w] = Len(Text[w])
    /\ pc[w] = "write" => off[w] < Len(Text[w])
    /\ pc[w] \notin {"write", "rename"} => off[w] = 0

(* What can be read is whole and is not the temporary file. *)
Readable(i) == i # None => i # tmp /\ Whole(i)

FileInv ==
    /\ TypeOK
    /\ \A w \in Writers : Written(w)
    /\ Readable(path)
    /\ \A r \in Readers : Readable(fd[r])
    /\ ReadsWhole

---------------------------------------------------------------------------
LEMMA TextIsContent ==
    ASSUME NEW w \in Writers
    PROVE  Text[w] \in Content /\ Len(Text[w]) \in Nat \ {0}
<1>1. ToSet(Text[w]) \subseteq Chunks
  BY DEF Chunks
<1>2. Text[w] \in Seq(ToSet(Text[w])) /\ Len(Text[w]) > 0
  BY TextAssumption
<1>3. ASSUME NEW n \in 1 .. Len(Text[w])
      PROVE  Text[w][n] \in Chunks \cup {Hole}
  BY <1>1, <1>2, <1>3
<1> QED
  BY <1>2, <1>3 DEF Content

(* A write at the end of a file appends to it. *)
LEMMA PatchAppends ==
    ASSUME NEW content \in Content, NEW c \in Chunks \cup {Hole},
           NEW o \in Nat, o = Len(content)
    PROVE  LET after == Patched(content, o, c) IN
           /\ after \in Content
           /\ Len(after) = o + 1
           /\ after[o + 1] = c
           /\ \A n \in 1 .. o : after[n] = content[n]
<1> DEFINE after == Patched(content, o, c)
<1>2. after = [n \in 1 .. o + 1 |->
                 IF n = o + 1 THEN c ELSE IF n <= o THEN content[n] ELSE Hole]
  BY DEF Patched
<1>3. ASSUME NEW n \in 1 .. o + 1
      PROVE  after[n] \in Chunks \cup {Hole}
  BY <1>2 DEF Content
<1> HIDE DEF after
<1>4. after \in Content /\ Len(after) = o + 1
  BY <1>2, <1>3 DEF Content
<1>5. after[o + 1] = c /\ \A n \in 1 .. o : after[n] = content[n]
  BY <1>2
<1> QED
  BY <1>4, <1>5 DEF after

LEMMA SameText ==
    ASSUME NEW s \in Content, NEW t \in Content, Len(s) = Len(t),
           \A n \in 1 .. Len(t) : s[n] = t[n]
    PROVE  s = t
BY DEF Content

LEMMA InitFile == Init => FileInv
<1> SUFFICES ASSUME Init
             PROVE  FileInv
  OBVIOUS
<1>1. << >> \in Content
  BY DEF Content
<1>2. TypeOK
  BY <1>1, TextIsContent DEF Init, TypeOK, Content
<1>3. \A w \in Writers : Written(w)
  BY DEF Init, Written
<1>4. Readable(path) /\ (\A r \in Readers : Readable(fd[r])) /\ ReadsWhole
  BY DEF Init, Readable, ReadsWhole
<1> QED
  BY <1>2, <1>3, <1>4 DEF FileInv

---------------------------------------------------------------------------
(* Inodes, by what stands for them. *)
LEMMA FileFacts ==
    ASSUME FileInv
    PROVE  /\ None \notin Inodes
           /\ path \in Inodes \cup {None} /\ tmp \in Inodes \cup {None}
           /\ data \in [Inodes -> Content]
           /\ \A r \in Readers : fd[r] # None => fd[r] \in Inodes /\ fd[r] \notin Unused
           /\ path # None => path \notin Unused
           /\ \A i \in Unused : i \in Inodes
BY InodesAssumption DEF FileInv, TypeOK, Content, Unused

LEMMA EndKeeps ==
    ASSUME FileInv, NEW w \in Writers, NEW result \in {"idle", "ok", "err"},
           End(w, result)
    PROVE  /\ pc' \in [Writers -> {"idle", "create", "write", "rename", "ok", "err"}]
           /\ fd' \in [Writers \cup Readers -> Inodes \cup {None}]
           /\ \A v \in Writers : fd'[v] # None <=> pc'[v] \in {"write", "rename"}
           /\ off' \in [Writers -> Nat] /\ \A v \in Writers : off'[v] <= Len(Text[v])
           /\ \A r \in Readers : fd'[r] = fd[r]
           /\ pc'[w] = result /\ off'[w] = 0
<1>1. \A v \in Writers : Len(Text[v]) \in Nat
  BY TextIsContent
<1> QED
  BY <1>1, ProcessesAssumption DEF FileInv, TypeOK, End

LEMMA CheckKeeps ==
    ASSUME OneWriter, FileInv, NEW w \in Writers, Check(w)
    PROVE  FileInv'
<1>1. UNCHANGED <<path, tmp, data, got>> /\ off[w] = 0
  BY DEF Check, FileInv, Written
<1>2. TypeOK' /\ (\A r \in Readers : fd'[r] = fd[r]) /\ Written(w)'
  <2>1. CASE End(w, "ok")
    <3>1. pc'[w] = "ok" /\ off'[w] = 0 /\ \A r \in Readers : fd'[r] = fd[r]
      BY <2>1, EndKeeps
    <3>2. TypeOK'
      BY <1>1, <2>1, EndKeeps DEF FileInv, TypeOK, Chunks
    <3> QED
      BY <3>1, <3>2 DEF Written
  <2>2. CASE pc' = [pc EXCEPT ![w] = "create"] /\ UNCHANGED <<fd, off>>
    <3>1. pc[w] \in {"idle", "ok", "err"}
      BY DEF Check
    <3> QED
      BY <1>1, <2>2, <3>1 DEF FileInv, TypeOK, Written, Chunks
  <2> QED
    BY <2>1, <2>2 DEF Check
<1>3. \A v \in Writers : Written(v)'
  BY <1>2 DEF OneWriter
<1>4. Readable(path)' /\ \A r \in Readers : Readable(fd[r])'
  BY <1>1, <1>2 DEF FileInv, Readable, Whole
<1>5. ReadsWhole'
  BY <1>1 DEF FileInv, ReadsWhole
<1> QED
  BY <1>2, <1>3, <1>4, <1>5 DEF FileInv

LEMMA CreateKeeps ==
    ASSUME OneWriter, FileInv, NEW w \in Writers, Create(w)
    PROVE  FileInv'
<1>1. PICK i \in IF tmp = None THEN Unused ELSE {tmp} :
        /\ tmp' = i
        /\ data' = [data EXCEPT ![i] = << >>]
        /\ fd' = [fd EXCEPT ![w] = i]
  BY DEF Create
<1>2. /\ pc[w] = "create" /\ pc' = [pc EXCEPT ![w] = "write"]
      /\ UNCHANGED <<path, off, got>>
  BY DEF Create
<1>3. i \in Inodes /\ i # None
  BY <1>1, FileFacts
<1>4. \A j \in Inodes : j # i => data'[j] = data[j]
  BY <1>1, <1>3, FileFacts
<1>5. data'[i] = << >> /\ data' \in [Inodes -> Content]
  <2>1. << >> \in Content
    BY DEF Content
  <2> QED
    BY <1>1, <1>3, <2>1, FileFacts
<1>6. off[w] = 0 /\ Len(Text[w]) \in Nat \ {0}
  BY <1>2, TextIsContent DEF FileInv, Written
<1>7. TypeOK'
  BY <1>1, <1>2, <1>3, <1>5 DEF FileInv, TypeOK, Content, Chunks
<1>8. Written(w)'
  BY <1>1, <1>2, <1>3, <1>5, <1>6 DEF FileInv, TypeOK, Written
<1>9. path # None => path # i
  BY <1>1, FileFacts DEF FileInv, Readable
<1>10. \A r \in Readers : fd'[r] = fd[r] /\ (fd[r] # None => fd[r] # i)
  <2>1. \A r \in Readers : fd'[r] = fd[r]
    BY <1>1, ProcessesAssumption DEF FileInv, TypeOK
  <2>2. \A r \in Readers : fd[r] # None => fd[r] # i
    BY <1>1, FileFacts DEF FileInv, Readable
  <2> QED
    BY <2>1, <2>2
<1>11. Readable(path)' /\ \A r \in Readers : Readable(fd[r])'
  <2>1. Readable(path)'
    BY <1>1, <1>2, <1>4, <1>9, FileFacts DEF FileInv, Readable, Whole
  <2>2. ASSUME NEW r \in Readers PROVE Readable(fd[r])'
    BY <1>1, <1>4, <1>10, FileFacts DEF FileInv, Readable, Whole
  <2> QED
    BY <2>1, <2>2
<1>12. ReadsWhole'
  BY <1>2 DEF FileInv, ReadsWhole
<1>13. \A v \in Writers : Written(v)'
  BY <1>8 DEF OneWriter
<1> QED
  BY <1>7, <1>11, <1>12, <1>13 DEF FileInv

LEMMA WriteChunkKeeps ==
    ASSUME OneWriter, FileInv, NEW w \in Writers, WriteChunk(w)
    PROVE  FileInv'
<1> DEFINE chunk == Text[w][off[w] + 1]
<1>1. /\ pc[w] = "write" /\ off[w] < Len(Text[w])
      /\ data' = [data EXCEPT ![fd[w]] = Patched(@, off[w], chunk)]
      /\ off' = [off EXCEPT ![w] = @ + 1]
      /\ pc' = [pc EXCEPT ![w] = IF off'[w] = Len(Text[w]) THEN "rename" ELSE "write"]
      /\ UNCHANGED <<path, tmp, fd, got>>
  BY DEF WriteChunk
<1>2. /\ fd[w] = tmp /\ tmp \in Inodes
      /\ Len(data[tmp]) = off[w]
      /\ \A n \in 1 .. off[w] : data[tmp][n] = Text[w][n]
  BY <1>1 DEF FileInv, Written
<1>3. off[w] \in Nat /\ Len(Text[w]) \in Nat /\ chunk \in Chunks \cup {Hole}
  BY <1>1, TextIsContent DEF FileInv, TypeOK, Content
<1> HIDE DEF chunk
<1>4. data[tmp] \in Content /\ data'[tmp] = Patched(data[tmp], off[w], chunk)
  BY <1>1, <1>2, FileFacts
<1>5. /\ data'[tmp] \in Content
      /\ Len(data'[tmp]) = off[w] + 1
      /\ data'[tmp][off[w] + 1] = chunk
      /\ \A n \in 1 .. off[w] : data'[tmp][n] = data[tmp][n]
  <2>1. off[w] = Len(data[tmp])
    BY <1>2
  <2> DEFINE after == Patched(data[tmp], off[w], chunk)
  <2>2. /\ after \in Content
        /\ Len(after) = off[w] + 1
        /\ after[off[w] + 1] = chunk
        /\ \A n \in 1 .. off[w] : after[n] = data[tmp][n]
    BY <1>3, <1>4, <2>1, PatchAppends
  <2> QED
    BY <1>4, <2>2
<1>6. off'[w] = off[w] + 1 /\ off' \in [Writers -> Nat]
  BY <1>1, <1>3 DEF FileInv, TypeOK
<1>7. pc'[w] = IF off[w] + 1 = Len(Text[w]) THEN "rename" ELSE "write"
  BY <1>1, <1>6 DEF FileInv, TypeOK
<1>8. TypeOK'
  <2>1. data' \in [Inodes -> Content]
    BY <1>1, <1>2, <1>4, <1>5, FileFacts
  <2>2. pc' \in [Writers -> {"idle", "create", "write", "rename", "ok", "err"}]
    BY <1>1, <1>7 DEF FileInv, TypeOK
  <2>3. \A v \in Writers : off'[v] <= Len(Text[v])
    BY <1>1, <1>3, <1>6 DEF FileInv, TypeOK
  <2>4. \A v \in Writers : fd'[v] # None <=> pc'[v] \in {"write", "rename"}
    BY <1>1, <1>7 DEF FileInv, TypeOK
  <2> QED
    BY <1>1, <1>6, <2>1, <2>2, <2>3, <2>4 DEF FileInv, TypeOK, Content, Chunks
<1>9. Written(w)'
  <2>1. ASSUME NEW n \in 1 .. off[w] + 1
        PROVE  data'[tmp][n] = Text[w][n]
    <3>1. CASE n = off[w] + 1
      BY <1>5, <3>1 DEF chunk
    <3>2. CASE n \in 1 .. off[w]
      BY <1>2, <1>5, <3>2
    <3> QED
      BY <1>3, <3>1, <3>2
  <2> QED
    BY <1>1, <1>2, <1>3, <1>5, <1>6, <1>7, <2>1 DEF Written
<1>10. \A i \in Inodes : i # tmp => data'[i] = data[i]
  BY <1>1, <1>2, FileFacts
<1>11. Readable(path)' /\ \A r \in Readers : Readable(fd[r])'
  BY <1>1, <1>10, FileFacts DEF FileInv, Readable, Whole
<1>12. ReadsWhole'
  BY <1>1 DEF FileInv, ReadsWhole
<1>13. \A v \in Writers : Written(v)'
  BY <1>9 DEF OneWriter
<1> QED
  BY <1>8, <1>11, <1>12, <1>13 DEF FileInv
LEMMA RenameKeeps ==
    ASSUME OneWriter, FileInv, NEW w \in Writers, Rename(w)
    PROVE  FileInv' /\ (pc'[w] = "ok" => path' # None)
<1>1. /\ fd[w] = tmp /\ tmp \in Inodes /\ tmp # None
      /\ Len(data[tmp]) = Len(Text[w])
      /\ \A n \in 1 .. Len(Text[w]) : data[tmp][n] = Text[w][n]
  BY FileFacts DEF Rename, FileInv, Written
<1>2. /\ path' = tmp /\ tmp' = None /\ End(w, "ok")
      /\ UNCHANGED <<data, got>>
  BY <1>1 DEF Rename
<1>3. data[tmp] = Text[w]
  <2>1. data[tmp] \in Content /\ Text[w] \in Content
    BY <1>1, FileFacts, TextIsContent
  <2> QED
    BY <1>1, <2>1, SameText
<1>4. TypeOK'
  BY <1>1, <1>2, EndKeeps DEF FileInv, TypeOK, Chunks
<1>5. \A v \in Writers : Written(v)'
  <2>1. pc'[w] = "ok" /\ off'[w] = 0
    BY <1>2, EndKeeps
  <2> QED
    BY <2>1 DEF OneWriter, Written
<1>6. Readable(path)'
  BY <1>1, <1>2, <1>3 DEF Readable, Whole
<1>7. \A r \in Readers : Readable(fd[r])'
  BY <1>2, EndKeeps DEF FileInv, Readable, Whole
<1>8. ReadsWhole'
  BY <1>2 DEF FileInv, ReadsWhole
<1> QED
  BY <1>1, <1>2, <1>4, <1>5, <1>6, <1>7, <1>8 DEF FileInv

LEMMA CrashKeeps ==
    ASSUME OneWriter, FileInv, NEW w \in Writers, Crash(w)
    PROVE  FileInv'
<1>1. UNCHANGED <<path, tmp, data, got>> /\ End(w, "idle")
  BY DEF Crash
<1>2. TypeOK'
  BY <1>1, EndKeeps DEF FileInv, TypeOK, Chunks
<1>3. \A v \in Writers : Written(v)'
  <2>1. pc'[w] = "idle" /\ off'[w] = 0
    BY <1>1, EndKeeps
  <2> QED
    BY <2>1 DEF OneWriter, Written
<1>4. Readable(path)' /\ \A r \in Readers : Readable(fd[r])'
  BY <1>1, EndKeeps DEF FileInv, Readable, Whole
<1>5. ReadsWhole'
  BY <1>1 DEF FileInv, ReadsWhole
<1> QED
  BY <1>2, <1>3, <1>4, <1>5 DEF FileInv

LEMMA ReadKeeps ==
    ASSUME FileInv, NEW r \in Readers, ReadOpen(r) \/ ReadAll(r)
    PROVE  FileInv'
<1>1. UNCHANGED <<path, tmp, data, pc, off>>
  BY DEF ReadOpen, ReadAll
<1>2. PICK i \in {None, path} : fd' = [fd EXCEPT ![r] = i]
  BY DEF ReadOpen, ReadAll
<1>3. fd'[r] = i /\ \A p \in (Writers \cup Readers) \ {r} : fd'[p] = fd[p]
  BY <1>2 DEF FileInv, TypeOK
<1>4. r \notin Writers
  BY ProcessesAssumption
<1>5. TypeOK'
  BY <1>1, <1>2, <1>3, <1>4 DEF FileInv, TypeOK, Chunks, ReadOpen, ReadAll
<1>6. \A v \in Writers : Written(v)'
  BY <1>1, <1>3, <1>4 DEF FileInv, Written
<1>7. Readable(path)' /\ \A q \in Readers : Readable(fd[q])'
  BY <1>1, <1>3 DEF FileInv, Readable, Whole
<1>8. ReadsWhole'
  <2>1. ASSUME NEW q \in Readers
        PROVE  got'[q] = None \/ \E w \in Writers : got'[q] = Text[w]
    <3>1. CASE ReadOpen(r)
      BY <3>1 DEF ReadOpen, FileInv, TypeOK, ReadsWhole
    <3>2. CASE ReadAll(r)
      <4>1. PICK w \in Writers : data[fd[r]] = Text[w]
        BY <3>2 DEF ReadAll, FileInv, Readable, Whole
      <4> QED
        BY <3>2, <4>1 DEF ReadAll, FileInv, TypeOK, ReadsWhole
    <3> QED
      BY <3>1, <3>2
  <2> QED
    BY <2>1 DEF ReadsWhole
<1> QED
  BY <1>5, <1>6, <1>7, <1>8 DEF FileInv

LEMMA UnlinkKeeps == FileInv /\ Unlink => FileInv'
<1> SUFFICES ASSUME FileInv, Unlink
             PROVE  FileInv'
  OBVIOUS
<1>1. path' = None /\ UNCHANGED <<tmp, data, pc, fd, off, got>>
  BY DEF Unlink
<1>2. TypeOK'
  BY <1>1 DEF FileInv, TypeOK, Chunks
<1>3. \A v \in Writers : Written(v)'
  BY <1>1 DEF FileInv, Written
<1>4. Readable(path)' /\ \A r \in Readers : Readable(fd[r])'
  BY <1>1 DEF FileInv, Readable, Whole
<1>5. ReadsWhole'
  BY <1>1 DEF FileInv, ReadsWhole
<1> QED
  BY <1>2, <1>3, <1>4, <1>5 DEF FileInv

LEMMA NextFile == OneWriter /\ FileInv /\ [Next]_vars => FileInv'
<1> SUFFICES ASSUME OneWriter, FileInv, [Next]_vars
             PROVE  FileInv'
  OBVIOUS
<1>1. ASSUME NEW w \in Writers, Write(w) \/ Crash(w)
      PROVE  FileInv'
  BY <1>1, CheckKeeps, CreateKeeps, WriteChunkKeeps, RenameKeeps, CrashKeeps DEF Write
<1>2. CASE UNCHANGED vars
  <2>1. TypeOK' /\ ReadsWhole'
    BY <1>2 DEF FileInv, TypeOK, ReadsWhole, Chunks, vars
  <2>2. Readable(path)' /\ \A r \in Readers : Readable(fd[r])'
    BY <1>2 DEF FileInv, Readable, Whole, vars
  <2>3. \A w \in Writers : Written(w)'
    BY <1>2 DEF FileInv, Written, vars
  <2> QED
    BY <2>1, <2>2, <2>3 DEF FileInv
<1> QED
  BY <1>1, <1>2, ReadKeeps, UnlinkKeeps DEF Next

---------------------------------------------------------------------------
LEMMA SpecFile == ASSUME OneWriter PROVE Spec => []FileInv
<1>1. Init => FileInv
  BY InitFile
<1>2. FileInv /\ [Next]_vars => FileInv'
  BY NextFile
<1> QED
  BY <1>1, <1>2, PTL DEF Spec

(* Whatever the writer writes and wherever it is killed, a reader gets the  *)
(* whole text or finds no file.                                             *)
THEOREM ReadersSeeWhole == ASSUME OneWriter PROVE Spec => []ReadsWhole
<1>1. FileInv => ReadsWhole
  BY DEF FileInv
<1> QED
  BY <1>1, SpecFile, PTL

(* An object or manifest file is absent or whole at every moment, which is  *)
(* what Litegraft takes writing one in a single step from.                  *)
THEOREM FileIsWhole == ASSUME OneWriter PROVE Spec => ImplementsWholeFile
<1>1. Init => Promise!Init
  BY DEF Init, Promise!Init
<1>2. ASSUME FileInv, FileInv', [Next]_vars
      PROVE  [Promise!Next]_(IF path = None THEN "absent"
                             ELSE IF Whole(path) THEN "whole" ELSE "torn")
  BY <1>2 DEF FileInv, Readable, Promise!Next, Promise!Write, Promise!Remove
<1> QED
  BY <1>1, <1>2, SpecFile, PTL DEF Spec, ImplementsWholeFile, Promise!Spec

(* write_object returns success only when the object is there and whole,    *)
(* also after a writer that was killed.                                     *)
THEOREM OkIsWhole == ASSUME OneWriter PROVE Spec => OkMeansWhole
<1>1. ASSUME FileInv, FileInv', NEW w \in Writers, NEW v \in Writers,
             Write(v) \/ Crash(v), pc'[w] = "ok", pc[w] # "ok"
      PROVE  path' # None
  <2>1. v = w /\ pc \in [Writers -> {"idle", "create", "write", "rename", "ok", "err"}]
    BY <1>1 DEF OneWriter, FileInv, TypeOK
  <2>2. CASE Check(w)
    BY <1>1, <2>1, <2>2 DEF Check
  <2>3. CASE Create(w) \/ WriteChunk(w)
    BY <1>1, <2>1, <2>3 DEF Create, WriteChunk
  <2>4. CASE Rename(w)
    BY <1>1, <2>4, RenameKeeps
  <2>5. CASE Crash(w)
    BY <1>1, <2>1, <2>5 DEF Crash, End
  <2> QED
    BY <1>1, <2>1, <2>2, <2>3, <2>4, <2>5 DEF Write
<1>2. ASSUME FileInv, FileInv', [Next]_vars, NEW w \in Writers, pc'[w] = "ok", pc[w] # "ok"
      PROVE  path' # None /\ Whole(path)'
  <2>1. \E v \in Writers : Write(v) \/ Crash(v)
    BY <1>2 DEF Next, ReadOpen, ReadAll, Unlink, vars
  <2> QED
    BY <1>1, <1>2, <2>1 DEF FileInv, Readable
<1>3. FileInv /\ FileInv' /\ [Next]_vars =>
        [\A w \in Writers : pc'[w] = "ok" /\ pc[w] # "ok" => path' # None /\ Whole(path)']_vars
  BY <1>2
<1> QED
  BY <1>3, SpecFile, PTL DEF Spec, OkMeansWhole
=============================================================================
