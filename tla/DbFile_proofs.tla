---------------------------- MODULE DbFile_proofs ----------------------------
(* A database that opens can be saved, viewed and restored, for every page  *)
(* size, reserved space, in-header count and length of the file, if it has  *)
(* a page; one that opens with none is refused from then on.                *)
(*                                                                          *)
(* The count comes from the header or from the length.  The view and the    *)
(* restored file repeat the parse with another length, size times count,    *)
(* which gives back the count it was made of; a rest of a page behind the   *)
(* counted ones is lost to all of them.                                     *)
EXTENDS DbFile, TLAPS

(* What an opened header is, whatever length it was opened with. *)
Sized(h) ==
    /\ HeaderOk(first)
    /\ h = [size |-> PageSize(first), usable |-> PageSize(first) - first.reserved,
            count |-> h.count, autovacuum |-> first.autovacuum]
    /\ h.count \in 0 .. CountLimit - 1
    /\ first.count # 0 /\ first.current => h.count = first.count

(* What each step leaves to the next. *)
DbInv ==
    /\ first \in FirstPages /\ length \in Nat
    /\ pc \in {"open", "snap", "view", "restore", "reopen", "end"}
    /\ pc = "open" => header = None
    /\ pc \in {"snap", "view", "restore", "reopen"} => header \notin Refused
    /\ header \notin Refused => Sized(header)
    /\ pc \in {"snap", "view", "restore"} => header.size * header.count <= length
    /\ pc \in {"open", "snap"} => manifest = None /\ view = None
    /\ pc = "view" => view = None
    /\ pc # "end" => again = None
    /\ pc \in {"view", "restore", "reopen"} =>
         manifest = [size |-> header.size, count |-> header.count]
    /\ pc = "reopen" => length = header.size * header.count
    /\ pc = "end" /\ header \in Refused => view = None /\ again = None
    /\ pc = "end" /\ header \notin Refused =>
         /\ manifest = [size |-> header.size, count |-> header.count]
         /\ length = header.size * header.count
         /\ again = Opened(first, length)
    /\ view = None \/ (view = IF manifest.count > 0 THEN header ELSE Bad)

---------------------------------------------------------------------------
LEMMA DivExact ==
    ASSUME NEW s \in Nat, s > 0, NEW c \in Nat
    PROVE  s * c \in Nat /\ (s * c) \div s = c
OBVIOUS

LEMMA DivBelow ==
    ASSUME NEW s \in Nat, s > 0, NEW n \in Nat, NEW c \in Nat, n \div s >= c
    PROVE  s * c <= n
OBVIOUS

LEMMA SizeFacts ==
    ASSUME first \in FirstPages, HeaderOk(first)
    PROVE  /\ PageSize(first) \in Nat /\ PageSize(first) >= 480
           /\ PageSize(first) - first.reserved \in Nat
           /\ first.count \in 0 .. CountLimit - 1
           /\ first.current \in BOOLEAN /\ first.autovacuum \in BOOLEAN
<1>1. /\ first.size \in SizeFields /\ first.reserved \in ReservedBytes
      /\ first.count \in CountFields
      /\ first.current \in BOOLEAN /\ first.autovacuum \in BOOLEAN
  BY DEF FirstPages
<1>2. first.size \in Nat /\ first.reserved \in Nat /\ first.count \in 0 .. CountLimit - 1
  BY <1>1, FieldsAssumption
<1>3. PageSize(first) \in Nat
  BY <1>2 DEF PageSize
<1>4. PageSize(first) - first.reserved >= 480
  BY DEF HeaderOk
<1> QED
  BY <1>1, <1>2, <1>3, <1>4

(* A header that is accepted counts pages that are in the file. *)
LEMMA OpenedFits ==
    ASSUME first \in FirstPages, NEW len \in Nat, Opened(first, len) # Bad
    PROVE  /\ Opened(first, len) \notin Refused
           /\ Sized(Opened(first, len))
           /\ Opened(first, len).size * Opened(first, len).count <= len
<1> DEFINE h == Parsed(first, len)
<1>1. Opened(first, len) = h /\ HeaderOk(first) /\ len \div PageSize(first) >= h.count
  BY DEF Opened
<1>2. /\ PageSize(first) \in Nat /\ PageSize(first) > 0
      /\ first.count \in 0 .. CountLimit - 1
      /\ len \div PageSize(first) \in Nat /\ CountLimit \in Nat \ {0}
  BY <1>1, SizeFacts, FieldsAssumption
<1>3. h.count \in 0 .. CountLimit - 1 /\ h.size = PageSize(first)
  <2>1. \A n \in Nat : n % CountLimit \in 0 .. CountLimit - 1
    BY <1>2
  <2> QED
    BY <1>2, <2>1 DEF Parsed
<1>4. h.size * h.count <= len
  BY <1>1, <1>2, <1>3, DivBelow
<1>5. Sized(h)
  BY <1>1, <1>3 DEF Sized, Parsed
<1>6. h \in Headers
  BY <1>1, <1>3, SizeFacts DEF Parsed, Headers
<1> HIDE DEF h
<1> QED
  BY <1>1, <1>4, <1>5, <1>6, FieldsAssumption DEF Refused

(* To parse the header again with the length of the counted pages changes   *)
(* nothing, and the file that long is accepted.                             *)
LEMMA ParsedAgain ==
    ASSUME first \in FirstPages, NEW h, Sized(h), h.count > 0
    PROVE  /\ Parsed(first, h.size * h.count) = h
           /\ Opened(first, h.size * h.count) = h
<1> DEFINE len == h.size * h.count
<1>1. /\ PageSize(first) \in Nat /\ PageSize(first) >= 480 /\ first.count \in Nat
      /\ h.size = PageSize(first) /\ h.count \in 0 .. CountLimit - 1
      /\ CountLimit \in Nat \ {0}
  BY SizeFacts, FieldsAssumption DEF Sized
<1>2. len \in Nat /\ (len \div PageSize(first)) % CountLimit = h.count
      /\ len \div PageSize(first) = h.count
  BY <1>1, DivExact
<1>3. len >= HeaderLen
  BY <1>1 DEF HeaderLen
<1> HIDE DEF len
<1>4. Parsed(first, len) = h
  BY <1>1, <1>2 DEF Parsed, Sized
<1>5. Opened(first, len) = h
  BY <1>1, <1>2, <1>3, <1>4 DEF Opened, Sized
<1> QED
  BY <1>4, <1>5 DEF len

(* A file without a byte is refused. *)
LEMMA EmptyRefused ==
    ASSUME NEW s \in Nat
    PROVE  Opened(first, s * 0) = Bad
<1>1. ~ (s * 0 >= HeaderLen)
  BY DEF HeaderLen
<1> QED
  BY <1>1 DEF Opened
---------------------------------------------------------------------------
LEMMA InitDb == Init => DbInv
BY FieldsAssumption DEF Init, DbInv, Refused

LEMMA OpenFileKeeps == DbInv /\ OpenFile => DbInv'
<1> SUFFICES ASSUME DbInv, OpenFile
             PROVE  DbInv'
  OBVIOUS
<1>1. /\ header' = Opened(first, length)
      /\ pc' = IF header' = Bad THEN "end" ELSE "snap"
      /\ UNCHANGED <<first, length, manifest, view, again>>
      /\ manifest = None /\ view = None /\ again = None
  BY DEF OpenFile, DbInv
<1>2. CASE header' = Bad
  BY <1>1, <1>2 DEF DbInv, Refused
<1>3. CASE header' # Bad
  <2>1. /\ header' \notin Refused
        /\ Sized(header)'
        /\ header'.size * header'.count <= length
    BY <1>1, <1>3, OpenedFits DEF DbInv, Sized
  <2> QED
    BY <1>1, <1>3, <2>1 DEF DbInv, Refused, Sized
<1> QED
  BY <1>2, <1>3

LEMMA SnapKeeps == DbInv /\ Snap => DbInv'
BY DEF DbInv, Snap, Sized, Refused

LEMMA OpenSnapshotKeeps == DbInv /\ OpenSnapshot => DbInv'
<1> SUFFICES ASSUME DbInv, OpenSnapshot
             PROVE  DbInv'
  OBVIOUS
<1>1. /\ Sized(header) /\ first \in FirstPages
      /\ manifest = [size |-> header.size, count |-> header.count]
  BY DEF OpenSnapshot, DbInv
<1>2. view' = IF manifest'.count > 0 THEN header' ELSE Bad
  BY <1>1, ParsedAgain DEF OpenSnapshot, Sized
<1> QED
  BY <1>2 DEF OpenSnapshot, DbInv, Sized, Refused

LEMMA RestoreKeeps == DbInv /\ Restore => DbInv'
<1> SUFFICES ASSUME DbInv, Restore
             PROVE  DbInv'
  OBVIOUS
<1>1. Sized(header) /\ header.size \in Nat /\ header.count \in Nat
  BY SizeFacts DEF Restore, DbInv, Sized
<1>2. header.size * header.count \in Nat
  BY <1>1
<1> QED
  BY <1>1, <1>2 DEF Restore, DbInv, Sized, Refused

LEMMA ReopenKeeps == DbInv /\ Reopen => DbInv'
BY DEF DbInv, Reopen, Sized, Refused

LEMMA SpecDb == Spec => []DbInv
<1>1. DbInv /\ UNCHANGED vars => DbInv'
  BY DEF DbInv, Sized, Refused, vars
<1>2. DbInv /\ [Next]_vars => DbInv'
  BY <1>1, OpenFileKeeps, SnapKeeps, OpenSnapshotKeeps, RestoreKeeps, ReopenKeeps DEF Next
<1> QED
  BY <1>2, InitDb, PTL DEF Spec

---------------------------------------------------------------------------
(* Every page an opened header counts is in the file, before and after a    *)
(* checkout.                                                                *)
THEOREM PagesAlwaysInFile == Spec => []PagesInFile
<1>1. DbInv => PagesInFile
  <2> SUFFICES ASSUME DbInv
               PROVE  PagesInFile
    OBVIOUS
  <2>1. ASSUME pc \notin {"open", "reopen"}, header \notin Refused
        PROVE  header.size * header.count <= length
    <3>1. header.size * header.count \in Nat
      BY <2>1, SizeFacts DEF DbInv, Sized
    <3> QED
      BY <2>1, <3>1 DEF DbInv
  <2>2. ASSUME again \notin Refused
        PROVE  again.size * again.count <= length
    BY <2>2, OpenedFits DEF DbInv, Refused
  <2> QED
    BY <2>1, <2>2 DEF PagesInFile
<1> QED
  BY <1>1, SpecDb, PTL

(* The snapshot of a database is walked with the header its file had, or    *)
(* refused if it has no pages.                                              *)
THEOREM ViewAlwaysAgrees == Spec => []SnapshotViewAgrees
<1>1. DbInv => SnapshotViewAgrees
  BY DEF DbInv, SnapshotViewAgrees, Refused
<1> QED
  BY <1>1, SpecDb, PTL

(* A restored database opens with the header that was saved, or is refused  *)
(* if nothing was saved of it.                                              *)
THEOREM RestoredAlwaysReopens == Spec => []RestoredReopens
<1>1. DbInv => RestoredReopens
  <2> SUFFICES ASSUME DbInv, again # None
               PROVE  again = IF manifest.count > 0 THEN header ELSE Bad
    BY DEF RestoredReopens
  <2>1. pc = "end" /\ header \notin Refused /\ Sized(header) /\ first \in FirstPages
    BY DEF DbInv
  <2>2. /\ again = Opened(first, header.size * header.count)
        /\ manifest.count = header.count
        /\ header.size \in Nat /\ header.count \in Nat
    BY <2>1, SizeFacts, FieldsAssumption DEF DbInv, Sized
  <2>3. CASE header.count > 0
    BY <2>1, <2>2, <2>3, ParsedAgain
  <2>4. CASE header.count = 0
    BY <2>2, <2>4, EmptyRefused
  <2> QED
    BY <2>2, <2>3, <2>4
<1> QED
  BY <1>1, SpecDb, PTL

---------------------------------------------------------------------------
(* Pointer maps.  A slot is its own slot, and a page is a slot exactly when *)
(* the distance to the first map is a multiple of the span.                 *)
LEMMA DivMod ==
    ASSUME NEW s \in Nat, s > 0, NEW n \in Nat
    PROVE  n \div s \in Nat /\ n % s \in Nat /\ n = s * (n \div s) + (n % s)
<1>1. n \div s \in Nat
  OBVIOUS
<1>2. n % s \in Nat
  OBVIOUS
<1>3. n = s * (n \div s) + (n % s)
  OBVIOUS
<1> QED
  BY <1>1, <1>2, <1>3

LEMMA DivTwo ==
    ASSUME NEW s \in Nat, s > 0, NEW n \in Nat, 2 * s <= n
    PROVE  n \div s \in Nat /\ n \div s >= 2
OBVIOUS

LEMMA SlotIsSlot ==
    ASSUME NEW h, h.usable \in Nat, NEW p \in Nat, p >= 2
    PROVE  /\ Slot(h, p) \in Nat /\ Slot(h, p) >= 2
           /\ Slot(h, Slot(h, p)) = Slot(h, p)
           /\ (p - 2) % (h.usable \div 5 + 1) = 0 <=> Slot(h, p) = p
<1> DEFINE span == h.usable \div 5 + 1
           q == (p - 2) \div span
<1>1. span \in Nat /\ span > 0
  OBVIOUS
<1>2. q \in Nat /\ (p - 2) % span \in Nat /\ p - 2 = span * q + ((p - 2) % span)
  <2> HIDE DEF span
  <2> QED BY <1>1, DivMod DEF q
<1>3. Slot(h, p) = q * span + 2
  BY DEF Slot
<1>4. \A at \in Nat : Slot(h, at) = ((at - 2) \div span) * span + 2
  BY DEF Slot
<1> HIDE DEF q, span
<1>5. q * span \in Nat /\ q * span = span * q /\ (span * q) \div span = q
  BY <1>1, <1>2, DivExact
<1>6. Slot(h, p) \in Nat /\ Slot(h, p) - 2 = span * q
  BY <1>3, <1>5
<1>7. Slot(h, Slot(h, p)) = Slot(h, p)
  BY <1>3, <1>4, <1>5, <1>6
<1>8. (p - 2) % span = 0 <=> Slot(h, p) = p
  <2> DEFINE r == (p - 2) % span
             m == span * q
  <2>1. r \in Nat /\ m \in Nat /\ p - 2 = m + r /\ Slot(h, p) = m + 2
    BY <1>2, <1>3, <1>5
  <2> HIDE DEF r, m
  <2>2. r = 0 <=> m + 2 = p
    BY <2>1
  <2> QED BY <2>1, <2>2 DEF r
<1> QED
  BY <1>3, <1>5, <1>7, <1>8 DEF span

(* The page behind a slot is mapped from that slot. *)
LEMMA DivNext ==
    ASSUME NEW s \in Nat, s > 1, NEW q \in Nat
    PROVE  (s * q + 1) \div s = q
OBVIOUS

LEMMA NextInSlot ==
    ASSUME NEW h, h.usable \in Nat, h.usable >= 480, NEW p \in Nat, p >= 2,
           Slot(h, p) = p
    PROVE  Slot(h, p + 1) = p
<1> DEFINE span == h.usable \div 5 + 1
           q == (p - 2) \div span
<1>1. span \in Nat /\ span > 1
  OBVIOUS
<1>2. q \in Nat
  <2> HIDE DEF span
  <2> QED BY <1>1, DivMod DEF q
<1>3. p = q * span + 2
  BY DEF Slot
<1>4. Slot(h, p + 1) = (((p + 1) - 2) \div span) * span + 2
  BY DEF Slot
<1> HIDE DEF q, span
<1>5. q * span = span * q /\ span * q \in Nat
  BY <1>1, <1>2
<1>6. (p + 1) - 2 = span * q + 1
  BY <1>3, <1>5
<1>7. (span * q + 1) \div span = q
  BY <1>1, <1>2, DivNext
<1> QED
  BY <1>3, <1>4, <1>6, <1>7

LEMMA KindAsLaid ==
    ASSUME NEW h, h.usable \in Nat, h.usable >= 480, h.autovacuum \in BOOLEAN,
           h.count \in Nat, LockBytePage(h) \in Nat, LockBytePage(h) >= 2,
           NEW p \in Nat, 2 <= p, p <= h.count
    PROVE  KindOf(h, p) = IF Meet(h) /\ p = LockBytePage(h) THEN "ptrmap"
                          ELSE IF Meet(h) /\ p = LockBytePage(h) + 1 THEN "unattributed"
                          ELSE SqliteKindOf(h, p)
<1> DEFINE lock == LockBytePage(h)
           at == Slot(h, p)
<1>1. at \in Nat /\ Slot(h, at) = at
  BY SlotIsSlot
<1>2. IsPtrMap(h, p) <=> h.autovacuum /\ at = p
  BY SlotIsSlot DEF IsPtrMap
<1>3. SqlitePtrMap(h, p) <=> h.autovacuum /\ p = IF at = lock THEN at + 1 ELSE at
  BY DEF SqlitePtrMap
<1>4. at = lock /\ h.autovacuum => Meet(h)
  BY <1>1 DEF Meet
<1>5. Meet(h) => h.autovacuum /\ Slot(h, lock) = lock
  BY DEF Meet
<1>6. Meet(h) /\ p = lock + 1 => at = lock
  BY NextInSlot DEF Meet
<1> HIDE DEF at
<1>7. CASE Meet(h) /\ p = lock
  BY <1>2, <1>5, <1>7 DEF KindOf, at
<1>8. CASE Meet(h) /\ p = lock + 1
  BY <1>2, <1>6, <1>8 DEF KindOf
<1>9. CASE ~ (Meet(h) /\ p \in {lock, lock + 1})
  <2>1. IsPtrMap(h, p) <=> SqlitePtrMap(h, p)
    BY <1>1, <1>2, <1>3, <1>4, <1>9
  <2> QED
    BY <1>9, <2>1 DEF KindOf, SqliteKindOf
<1> QED
  BY <1>7, <1>8, <1>9

(* For every header, pages without data are where SQLite has them, but for  *)
(* a map that would be on the lock-byte page.                               *)
THEOREM LayoutAlwaysAsSqlite == Spec => []PtrMapsAsSqlite
<1>1. DbInv => PtrMapsAsSqlite
  <2> SUFFICES ASSUME DbInv, header \notin Refused, NEW p \in 2 .. header.count
               PROVE  KindOf(header, p) =
                        IF Meet(header) /\ p = LockBytePage(header) THEN "ptrmap"
                        ELSE IF Meet(header) /\ p = LockBytePage(header) + 1
                        THEN "unattributed" ELSE SqliteKindOf(header, p)
    BY DEF PtrMapsAsSqlite
  <2>1. Sized(header) /\ first \in FirstPages
    BY DEF DbInv
  <2>2. /\ header.size = PageSize(first) /\ header.usable = PageSize(first) - first.reserved
        /\ header.count \in Nat /\ header.autovacuum = first.autovacuum
    BY <2>1, FieldsAssumption DEF Sized
  <2>3. header.usable \in Nat /\ header.usable >= 480 /\ header.autovacuum \in BOOLEAN
    BY <2>1, <2>2, SizeFacts DEF Sized, HeaderOk
  <2>4. LockBytePage(header) \in Nat /\ LockBytePage(header) >= 3
    <3>1. header.size \in Nat /\ header.size >= 480
      BY <2>1, <2>2, SizeFacts DEF Sized
    <3>2. header.size <= 65536
      BY <2>1, <2>2, FieldsAssumption DEF PageSize, FirstPages
    <3>3. PendingByte \div header.size \in Nat /\ PendingByte \div header.size >= 2
      BY <3>1, <3>2, DivTwo, FieldsAssumption
    <3> QED BY <3>3 DEF LockBytePage
  <2>5. p \in Nat /\ 2 <= p /\ p <= header.count
    BY <2>2
  <2> QED
    BY <2>2, <2>3, <2>4, <2>5, KindAsLaid
<1> QED
  BY <1>1, SpecDb, PTL
=============================================================================
