------------------------------- MODULE DbFile -------------------------------
(* What litegraft takes a database file to be: the header is parsed, the    *)
(* pages are counted, saved, viewed through the object store and written    *)
(* back by checkout, and the result is opened again.  Pages are counted     *)
(* here, their contents are those of Litegraft.                             *)
EXTENDS Naturals

CONSTANTS
    SizeFields,     \* values of the 16-bit page size field
    ReservedBytes,  \* values of the reserved space field
    CountFields,    \* values of the in-header page count
    Lengths,        \* lengths of the file on disk
    CountLimit,     \* 2^32: page counts are of 32 bits
    PendingByte,    \* 2^30: where SQLite takes its locks
    None, Bad       \* not opened yet; refused

(* The fields of the first page that are read: "current" says that the page *)
(* count was written together with the change counter.                      *)
FirstPages == [size : SizeFields, reserved : ReservedBytes, count : CountFields,
               current : BOOLEAN, autovacuum : BOOLEAN]

(* A header as parsed. *)
Headers == [size : Nat, usable : Nat, count : Nat, autovacuum : BOOLEAN]

ASSUME FieldsAssumption ==
    /\ \A n \in SizeFields : n \in Nat /\ n <= 65535
    /\ \A n \in ReservedBytes : n \in Nat /\ n <= 255
    /\ \A n \in Lengths : n \in Nat
    /\ CountLimit \in Nat \ {0} /\ \A n \in CountFields : n \in 0 .. CountLimit - 1
    /\ PendingByte \in Nat /\ PendingByte >= 2 * 65536
    /\ None # Bad
    /\ None \notin Headers /\ Bad \notin Headers

VARIABLES
    first,     \* the first page of the database
    length,    \* the length of the file
    pc,        \* what happens next
    header,    \* the header as parsed when the file was opened
    manifest,  \* page size and number of pages of the snapshot
    view,      \* the header as parsed when the snapshot is opened
    again      \* the header of the restored file

vars == <<first, length, pc, header, manifest, view, again>>

HeaderLen == 100

TypeOK ==
    /\ first \in FirstPages
    /\ length \in Nat
    /\ pc \in {"open", "snap", "view", "restore", "reopen", "end"}
    /\ header = None \/ header = Bad \/ header.size \in {2 ^ n : n \in 9 .. 16}

Init ==
    /\ first \in FirstPages
    /\ length \in Lengths
    /\ pc = "open"
    /\ header = None /\ manifest = None /\ view = None /\ again = None

---------------------------------------------------------------------------
(* DbHeader::parse.  A count taken from the length is cut to 32 bits.       *)

PageSize(page) == IF page.size = 1 THEN 65536 ELSE page.size

HeaderOk(page) ==
    /\ PageSize(page) \in {2 ^ n : n \in 9 .. 16}
    /\ PageSize(page) - page.reserved >= 480

Parsed(page, len) ==
    [size |-> PageSize(page),
     usable |-> PageSize(page) - page.reserved,
     count |-> IF page.count # 0 /\ page.current THEN page.count
               ELSE (len \div PageSize(page)) % CountLimit,
     autovacuum |-> page.autovacuum]

(* Mutant: a file shorter than its pages is opened. *)
BugOpened(page, len) ==
    IF len >= HeaderLen /\ HeaderOk(page) THEN Parsed(page, len) ELSE Bad

(* DbFile::open.  A file of a header and less than a page may open, as one  *)
(* of no pages.                                                             *)
Opened(page, len) ==
    IF /\ len >= HeaderLen
       /\ HeaderOk(page)
       /\ len \div PageSize(page) >= Parsed(page, len).count
    THEN Parsed(page, len)
    ELSE Bad

---------------------------------------------------------------------------
OpenFile ==
    /\ pc = "open"
    /\ header' = Opened(first, length)
    /\ pc' = IF header' = Bad THEN "end" ELSE "snap"
    /\ UNCHANGED <<first, length, manifest, view, again>>

(* Mutant: the last page is not saved. *)
BugSnap ==
    /\ pc = "snap"
    /\ header.count > 0
    /\ manifest' = [size |-> header.size, count |-> header.count - 1]
    /\ pc' = "view"
    /\ UNCHANGED <<first, length, header, view, again>>

Snap ==
    /\ pc = "snap"
    /\ manifest' = [size |-> header.size, count |-> header.count]
    /\ pc' = "view"
    /\ UNCHANGED <<first, length, header, view, again>>

(* Mutant: the length of the first page is taken for that of the file. *)
BugOpenSnapshot ==
    /\ pc = "view"
    /\ view' = Parsed(first, manifest.size)
    /\ pc' = "restore"
    /\ UNCHANGED <<first, length, header, manifest, again>>

(* SnapshotSource::open parses the first saved page. *)
OpenSnapshot ==
    /\ pc = "view"
    /\ view' = IF manifest.count > 0 /\ HeaderOk(first)
               THEN Parsed(first, manifest.size * manifest.count)
               ELSE Bad
    /\ pc' = "restore"
    /\ UNCHANGED <<first, length, header, manifest, again>>

(* restore writes the saved pages, and nothing else, over the file; it does *)
(* so of no pages as well.                                                  *)
Restore ==
    /\ pc = "restore"
    /\ length' = manifest.size * manifest.count
    /\ pc' = "reopen"
    /\ UNCHANGED <<first, header, manifest, view, again>>

Reopen ==
    /\ pc = "reopen"
    /\ again' = Opened(first, length)
    /\ pc' = "end"
    /\ UNCHANGED <<first, length, header, manifest, view>>

Next == OpenFile \/ Snap \/ OpenSnapshot \/ Restore \/ Reopen

Spec == Init /\ [][Next]_vars

---------------------------------------------------------------------------
(* The pages that hold no data, as attribute_pages lays them: the pointer   *)
(* maps over the lock-byte page.                                            *)

LockBytePage(h) == PendingByte \div h.size + 1

(* Mutant: a map covers a whole page, the reserved bytes included. *)
BugIsPtrMap(h, p) ==
    /\ h.autovacuum
    /\ p \in 2 .. h.count
    /\ (p - 2) % (h.size \div 5 + 1) = 0

IsPtrMap(h, p) ==
    /\ h.autovacuum
    /\ p \in 2 .. h.count
    /\ (p - 2) % (h.usable \div 5 + 1) = 0

KindOf(h, p) == IF IsPtrMap(h, p) THEN "ptrmap"
                ELSE IF p = LockBytePage(h) THEN "lockbyte" ELSE "unattributed"

---------------------------------------------------------------------------
Refused == {None, Bad}

(* Every page that the header of an opened file counts is in the file, also *)
(* once the file has been replaced by what was saved of it.                 *)
PagesInFile ==
    /\ pc \notin {"open", "reopen"} /\ header \notin Refused
       => header.size * header.count <= length
    /\ again \notin Refused => again.size * again.count <= length

(* The walker sees the same pages, page size and layout through the object  *)
(* store as in the file ("the walker must behave identically over the       *)
(* object store", tests/format.rs), whether or not the in-header page count *)
(* was current.  A snapshot of no pages, which snap takes, is refused.      *)
SnapshotViewAgrees ==
    view # None => view = IF manifest.count > 0 THEN header ELSE Bad

(* What checkout restored opens with the header that was saved: status then *)
(* finds the file clean.  A file that was opened as one of no pages is      *)
(* saved as nothing: checkout puts an empty file in its place, which cannot *)
(* be opened any more.                                                      *)
RestoredReopens ==
    again # None => again = IF manifest.count > 0 THEN header ELSE Bad

(* Where SQLite puts its pointer maps (ptrmapPageno of SQLite): each at the *)
(* head of the pages it maps, one further if that is the lock-byte page.    *)
Slot(h, p) == LET span == h.usable \div 5 + 1 IN ((p - 2) \div span) * span + 2

SqlitePtrMap(h, p) ==
    LET at == Slot(h, p)
    IN  h.autovacuum /\ p = IF at = LockBytePage(h) THEN at + 1 ELSE at

SqliteKindOf(h, p) == IF SqlitePtrMap(h, p) THEN "ptrmap"
                      ELSE IF p = LockBytePage(h) THEN "lockbyte" ELSE "unattributed"

(* The lock-byte page is where a pointer map would be. *)
Meet(h) == h.autovacuum /\ Slot(h, LockBytePage(h)) = LockBytePage(h)

(* Every page of the file that is a pointer map or the lock-byte page is    *)
(* laid as SQLite has it, and no other page is.  Where the two meet the     *)
(* code and SQLite part: the lock-byte page is taken for the map, and the   *)
(* map, which SQLite moved one page on, for a page like any other.          *)
PtrMapsAsSqlite ==
    header \notin Refused => \A p \in 2 .. header.count :
        KindOf(header, p) =
            IF Meet(header) /\ p = LockBytePage(header) THEN "ptrmap"
            ELSE IF Meet(header) /\ p = LockBytePage(header) + 1 THEN "unattributed"
            ELSE SqliteKindOf(header, p)
=============================================================================
