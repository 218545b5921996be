# litegraft: specifications and proofs

litegraft is a command line tool that snapshots SQLite database files page by
page into a content-addressed store beside the file (`app.db.litegraft/`), with
branches, checkout, log, page attribution, verify and gc.  It has no server, no
lock and no transaction: every command is one process doing file operations,
and whatever is correct about it is correct because of the order of those
operations and of the checks between them.  The modules here say what that
order guarantees, what it does not, and prove most of it.

Run a check with `tlc -config <cfg> <module>`, a proof with `tlapm <module>.tla`.

## Inventory

| Component | Source | State | Operations | What makes it correct | Where |
|---|---|---|---|---|---|
| Store directory, HEAD, refs | `store.rs` | marker file, `HEAD`, `refs/heads/*` | init, open, head, set_head, branch_head, set_branch | ids written anywhere name snapshots | `Litegraft` |
| Names | `store.rs`, `cli.rs` | branch files and the directories above them | validate_branch_name, branch_exists, resolve, list_branches | what is listed resolves; nothing is overwritten; a ref does not change its meaning | `Refs` |
| Objects and manifests as files | `store.rs` | `objects/`, `snaps/`, temporary files | write_object, read_object, write_manifest, read_manifest, remove_object | a reader finds a file absent or whole | `AtomicFile`, `WholeFile` |
| Manifest text | `store.rs` | none | state_id, write_manifest, parse_manifest, escape_line, unescape_line | round trip; a mixture of two texts is refused | `ManifestText` |
| snap | `snapshot.rs` | the open file, the page at hand, the parent read | snap | snapshots complete, history acyclic, first creation kept | `Litegraft` |
| checkout | `cli.rs`, `snapshot.rs` | target, page at hand, temporary file | cmd_checkout, restore | never replaces unsaved work, finds all pages, HEAD agrees with the file | `Litegraft`, `Refs` |
| Sidecar guards | `snapshot.rs`, `dbfile.rs` | `-wal`, `-journal` | guard_sidecars, wal_state, hot_journal, removal by restore | what is read is what was committed; SQLite finds what was restored | `WorkingFile` |
| branch, log | `cli.rs` | cursor of the walk | cmd_branch, cmd_log | the walk ends | `Litegraft`, `Refs` |
| gc | `cli.rs` | live set, listed objects | cmd_gc | removes nothing referenced, and everything else | `Litegraft` |
| verify | `cli.rs` | none | cmd_verify | of what it accepts, every branch can be restored | operators of `Litegraft` |
| Header, file, snapshot view | `dbfile.rs`, `snapshot.rs` | parsed header, length | DbHeader::parse, DbFile::open, SnapshotSource::open, restore | file, view and restored file agree | `DbFile` |
| Page attribution | `btree.rs` | owner map, stack, visited set, guards | freelist_pages, walk_btree, collect_overflow, read_schema, attribute_pages | ends on every file, accepts exactly the sound ones, every page to its owner | `Btree` |
| Cell geometry | `btree.rs` | bytes remaining of a payload | local_len, chain loop | nothing wraps, chains end where the payload ends | `CellGeometry` |
| status, diff, tables | `diff.rs`, `cli.rs` | none | diff_hashes, diff_sources, cmd_status, print_tables | a diff is a patch, its rollup adds up, status agrees with itself | `PageDiff` |
| Varints, records | `record.rs` | none | read_varint, write_varint, decode_record | decoding inverts encoding, no read past the end | `Varint` |
| SHA-256 | `sha256.rs` | buffered block, length | update, finish | independent of how the input is cut | `Sha256` (blocks and padding) |
| Arguments, output | `cli.rs` | none | parse_args, printing | wording | not modelled |

How they interact: a command opens the store, reads HEAD and refs, opens the
database through `DbFile`, writes objects and manifests through the store and
ends by rewriting one ref or HEAD.  Two processes meet only in the file system,
and so do litegraft and SQLite.  `status`, `diff` and `tables` only read; they
compose `DbFile` or `SnapshotSource` with the walker of `btree.rs`.

What is hard: interleavings of two commands (gc against snap, two snaps of one
state, two checkouts), a process killed between truncating and writing a ref or
between replacing the database and removing its log, temporary files shared by
name, transactions interrupted anywhere, names that are paths and prefixes at
once, and files whose pointers are damaged.  `PROJECT.json` lists each hazard at
its line with the properties that would notice.

## Modules

`Repository` is the abstract specification of the store, `WholeFile` that of one
of its files.  `Litegraft` uses the files as `WholeFile` promises them and
implements `Repository`; `AtomicFile` implements `WholeFile`; `WorkingFile`,
`Refs` and `DbFile` each open up something `Litegraft` takes as one value (the
database, a name, a page count).  `Codecs` calls the pure functions of `Varint`,
`ManifestText`, `PageDiff` and `Sha256`.  An `MC` module gives a module its
constants, a `_proofs` module its theorems.

### Litegraft: the commands on the store

State: the marker file, `HEAD`, `heads` (refs/heads), `snaps` and `parentOf`
(the manifests), `objects`, the database file `db`, and for each process its
next step `pc` and locals `at`.  A database file is the sequence of its pages;
a page content is a model value that also stands for its hash, and a state (a
sequence of pages) stands for its id.  SHA-256 is thus injective, and the page
size is a part of the contents.

One action is one file operation with the decisions taken on its result:

| Actions | Code |
|---|---|
| `InitOpen` `InitCreate` `InitFill` | `cmd_init`, `Store::init` (marker truncated, written, then `set_head`) |
| `HeadTruncate` `HeadWrite` | `Store::set_head` (`fs::write`: truncate, then write) |
| `SnapOpen` ... `SnapManifest` | `snapshot::snap`: open, HEAD, parent, one object per step, the three outcomes, manifest |
| `RefTruncate` `RefWrite` | `Store::set_branch`, for snap and branch |
| `BranchOpen` | `cmd_branch` (creation) |
| `CheckoutOpen` ... `CheckoutHead` | `cmd_checkout`, `restore`: resolve, compare, read manifest, one object per step, rename, second `read_manifest`, `set_head` |
| `GcMark` `GcList` `GcSweep` `GcDone` | `cmd_gc` |
| `LogOpen` `LogStep` | `cmd_log` |
| `Edit` | an application writes or removes the database |
| `Crash` | a process is killed, or one of its calls fails and `?` returns |

Decisions of the model:

- A file being rewritten in place reads as `Blank` between truncation and
  write.  If two processes truncate before either writes, the second line is
  laid over the first: `Landing` gives the new line or, when the old one may be
  longer, `Garbled`.  An id line is taken to be the longest line; between two
  branch lines both outcomes are allowed, which includes the real one.
- `write_object` and `write_manifest` are one step each.  `AtomicFile` shows
  when that is right: one writer of a file at a time.  With several, the loser
  of the shared temporary name gets an error (a `Crash` step here) or, for a
  moment, shows readers a torn file, which is not represented here.
- `Edit` happens only while no command uses the file: the contract of
  README.md, "snapshot when no writer is active".
- `GcExclusive` is an operational assumption, not something the code enforces:
  users run gc only while no snap is writing.  Run `gc_race` shows why.
- Merged reads: `BranchOpen` reads HEAD and a branch in one step (branch files
  are never removed); `GcMark` reads all manifests in one step (manifests are
  never removed and their page lists never change); `CheckoutCheck` hashes the
  file and looks for the snapshot in one step (`snaps` only grows, and
  meanwhile only another checkout may change the file).
- `--limit` and the list mode of branch change no state.
- verify changes nothing either; it is there for a store that something else has
  damaged.  Its counts are operators over `Remains`, what a disk may leave of the
  store while no command runs: objects and manifests lost, object bytes that no
  longer hash to their name, manifests that no longer match the id they record.
  `VerifySound` quantifies over all of it.  Verify does not look at parents, at
  HEAD or at a manifest's other lines (id and pages are hashed, parent, branch,
  date and message are not), nor does it compare a manifest's id with the name
  of its file (`read_manifest` recomputes the id inside): a whole manifest under
  the name of another passes, and so does a lost parent, at which log then stops.
  Neither is in `VerifySound`.
- Left-over temporary files are invisible to every listing of the store and
  are not represented.  (No command collects them.)

Properties: `HistoryAcyclic`, `NoDanglingIds`, `NoWorkLost` hold whatever runs
concurrently and wherever it is killed; `SnapshotsComplete`, `GcReclaims`,
`GcDeletesOnlyUnreferenced` and `ImplementsRepository` as long as gc and snap do
not overlap; `FirstCreationRecorded`, `VerifySound` and `CheckoutLandsOnHead` for
one command at a time, the last two with none killed; `CommandsEnd` under
fairness.  `NoDanglingIds` is about ids: a blank or garbled line, which a kill or a
second writer may leave in a ref or HEAD, is none and is admitted.

### Repository: what the store promises

Saved states that stay saved and can be restored at any time, a forest of
parents, and branches that stand for saved states if for anything.  The
refinement maps `saved` to the snapshots all of whose pages are in `objects`,
and whatever is not the id of a snapshot (a torn line) to no state.  A lost
object would take a state out of `saved`, which no step of `Repository` does.

### AtomicFile and WholeFile: one file of the store

`AtomicFile` is `write_object`/`write_manifest` at the level of inodes:
existence check, `File::create` on the temporary name (truncating whatever
another writer has open), writes at the writer's own offset, rename; readers
that hold an open inode; gc's unlink; killed writers.  `WholeFile` is what the
rest of the program relies on (absent or whole), and `ImplementsWholeFile` is the
refinement.

### WorkingFile: the database between SQLite and litegraft

State: the database file, its log (frames after the header) and its rollback
journal, the transaction under way, what was last `committed`, and one litegraft
command.  SQLite is external and modelled from its file format: rollback
transactions (journal created, synced, pages overwritten, journal removed), log
transactions (frames, the last of which commits), checkpoints, log reset,
recovery, kills.  `Seen` is what SQLite reads from the three files.

| Actions | Code |
|---|---|
| `OpenToRead` `ReadPage` `ReadDone` | `DbFile::open` and the page loops of snap, tables and `state_of_file`; who looks at the sidecars first and who reads first |
| `GuardJournal` `GuardWal` | `guard_sidecars`, `hot_journal`, `wal_state`, `--allow-wal` |
| `SnapSave` `Answer` `CheckoutCheck` | what the commands do with what they read |
| `OpenToRestore` `Swap` `UnlinkWal` `UnlinkJournal` | `cmd_checkout`, `restore`: the rename, then the sidecars one by one |
| `Killed` | a killed command or a failing call |

`WriterPauses` is README.md's contract: no writer takes a step while a command
works.  It may be killed, and the command may start in the middle of what a
writer left.  A checkout waits for the end of a transaction besides: the rename
would leave a writer on the old file.

`SqliteFindsCommitted` excludes the window `Exposed`: a checkout past its rename
that did not go through the guard, because of `--force` or because there was no
database file (`db.exists()` is false while a log or journal of it remain).
Killed there, SQLite replays what belongs to the old file into the restored one.
The comment at snapshot.rs:165-168 and CHANGELOG.md:18 say that stale sidecars
cannot be replayed; that holds of checkouts that passed the guard, or were not
killed.

### Refs: names

A ref is what a user types, split at its slashes.  `files` and `dirs` are
`refs/heads`; `Found` is what opening a path gives (`a//b` and `a/./b` are
`a/b`); `Resolve` is `Store::resolve` with branches before ids and prefixes;
`Snap`, `Branch`, `Checkout` and their killed forms do with names what the
commands do, one at a time.  What the model shows and no property excludes:

- a snap killed between the first manifest and the first branch leaves `main`
  without a file; `branch main/x --at <id>` then makes `main` a directory and
  every later snap fails;
- a branch command killed after creating directories leaves them, and a
  directory blocks a branch of its name;
- a directory with the name of a prefix makes that prefix unresolvable;
- HEAD keeps the spelling it was checked out under, so `list_branches` puts no
  star at a branch checked out as `a//b`;
- the check for `@` in `validate_branch_name` never fires: the allowed
  characters exclude it.

### Btree: page attribution

`attribute_pages` with everything it calls, as one sequential program whose
steps are a trunk page, a page popped, a cell, a schema page, an object.  A page
is what the walk reads of it: its b-tree type, right pointer and cells, or the
page number in its first four bytes and its freelist leaves.  A b-tree page read
as a link gives a number outside the file, which is what its type byte makes of
it.  `SoundFile`, `Objects` and `Claims` define the expected result over the
whole file, without stack, visited set or counters: the pages of a tree are the
least set that has its root and is closed under the pointers to children
(`Tree`), and it is a proper tree if no two of its pointers lead to one page.
Cells that reach outside their page appear as cells whose chain is missing.  The
text encoding check of `read_schema` is left out.

### DbFile: headers, lengths, page counts

`DbHeader::parse` and `DbFile::open`, the page count a snapshot records, the
header `SnapshotSource` derives from it, and the length `restore` writes.
A count taken from the length is cut to 32 bits (`CountLimit`).

A file of a header and less than a page may open, as a database of no pages, when
its header has no trusted count.  Commands then part: snap saves it, as a snapshot
of nothing; `SnapshotSource` refuses that snapshot; `checkout` accepts it and puts
an empty file in place of the database, which no command can read any more.  The same
goes for a file whose count wraps to nothing.  `SnapshotViewAgrees` and
`RestoredReopens` state both halves.  (No page-level reading of such a file works:
attribution starts at page 1.)

`PtrMapsAsSqlite` compares, for every page, the layout of pointer-map and lock-byte
pages in `attribute_pages` with SQLite's own formula, and says what happens to the
two pages where a map would fall on the lock-byte page (`Meet`).  `PendingByte` is
the offset of the lock byte, 1 GiB in the code; a constant, so that the run can have
files of some hundred pages that reach it.  The page numbers of `ptrmap_pages` are
not cut to 32 bits, which would take a file of almost 2^32 pages.

### CellGeometry: payloads and chains

`CellGeometry` and the loop of `collect_overflow`, with the byte counts that
`Btree` abstracts to the field `need`.

### Codecs: the pure functions

One call per behaviour, over every input of `MCCodecs`.  `Varint`: groups of
base `Group` instead of 128 and `MaxBytes` instead of 9, so that every integer is
an input; a record is decoded from what SQLite's record format says, written
independently of the decoder.  SQLite stores the bytes of a text unchecked, and
`decode_value` repairs what is not UTF-8 (`String::from_utf8_lossy`, external):
`FromUtf8Lossy` keeps the characters and puts `Replacement` for each longest
beginning of one, over any prefix-free set of characters `Chars`.  So a record
comes back as it was stored but for such texts, which come back as texts that are
UTF-8.  `ManifestText`: a text is a sequence of tokens,
of which newline, carriage return, space, backslash, `n` and the digits of a hash are
single characters, a key is one token, and a number is the word that `Decimal` gives
for it;
`Overlaid` is what two writers of one temporary file leave.  `PageDiff`: states
as hashes with owners.  `Sha256`: `update` and `finish` as a loop over a buffered
block; the compression function is left out, as a digest is a function of the
blocks handed to it.  What the models show and no property excludes: the
carriage return at the end of a message is lost (`str::lines`); the rollup is by
label, so a table named `(freelist)` and the freelist are one line.

A state may have no pages (see `DbFile`).  diff and tables refuse it, since
attribution starts at page 1.  status does not, and calls a file of no pages dirty
with no page to count when the branch has no snapshot, or one of no pages of another
page size; `StatusAgrees` names the case (`NothingToCount`).

## Runs

| Run | Shows | Bounds |
|---|---|---|
| `concurrent` | `TypeOK`, `HistoryAcyclic`, `NoDanglingIds`, `SnapshotsComplete`, `NoWorkLost`, `GcReclaims`, `GcDeletesOnlyUnreferenced`, `ImplementsRepository` | 2 processes, init, snap, branch, checkout and gc, kills, 2 states that share a page, 1 branch, gc kept apart from snap |
| `sequential` | `VerifySound`, `CheckoutLandsOnHead`, `FirstCreationRecorded` | 1 process, all commands, 3 states, 2 branches, any damage to objects and manifests |
| `history` | `CommandsEnd` | 2 processes, init, snap, branch, gc and log, 2 states, 2 branches, fairness |
| `one_writer` | `ReadsWhole`, `ImplementsWholeFile`, `OkMeansWhole` | 1 writer called again and again, 2 readers, kills, gc, 2 chunks |
| `working_file` | `ReadsCommitted`, `SparesCommits`, `SqliteFindsCommitted` | 2 pages of 2 contents, 3 frames, journal and log, kills of both sides |
| `refs` | `ListedResolves`, `HeadNamesBranch`, `NothingOverwritten`, `NeverRetargets` | 3 ids of 2 digits, prefixes of 1, 13 refs that are directories, prefixes, ids or spellings of each other |
| `attribution` | `AcceptsExactlySound`, `AttributionExact`, `SchemaReadRepeatsWalk`, `AttributionEnds` | every file of 4 pages put together from 7 schema pages, 20 second and 9 other shapes, and freelists of any shape beside a tree; a pointer map and a lock-byte page; fairness |
| `small` | `PagesInFile`, `SnapshotViewAgrees`, `RestoredReopens`, `PtrMapsAsSqlite` | page sizes 512, 1024, 65536 and two that are refused, counts 0 to 3, lengths around every boundary, from nothing to 400 pages, where counts wrap; the lock byte on page 311, 156 or 3, where it meets a map or not |
| `codecs` | `VarintRoundTrip`, `RecordRoundTrip`, `ManifestRoundTrip`, `MixtureRejected`, `DiffIsPatch`, `RollupAddsUp`, `StatusAgrees`, `DigestOfWhole` | integers of 9 bits in varints of at most 4 bytes, records of 2 columns of every serial type and of text that is UTF-8 or not, with characters of 1 to 3 bytes, messages of 3 tokens, states of 0 to 3 pages, inputs of up to 15 bytes in blocks of 6, cut anywhere |
| `spills` | `LocalFits`, `ChainFits` | 6 usable sizes from the smallest, payloads 0 to 4200 |

Why the bounds are enough.  Two processes: no code path waits for or reacts to
more than one other process, and each race found needs two.  Two states suffice
for a shared page, a page of one's own and a parent that may be rewritten both
ways; three states (`sequential`) give a forest with a choice of parents.
`concurrent` has one branch: two would multiply its states beyond what can be
checked in minutes, and what a second branch adds (forks, HEAD on either) is in
`sequential`.  Two pages let a transaction be half done, in the file, the
journal and the log; three frames give a committed transaction and an
interrupted one behind it; the theorems hold for any number of either.
Four pages give a schema page, a tree of two levels, a chain of two, and a page
shared between any two of them.  A block of 6 with a length of 2 has every
position of the padding against the block that a block of 64 with a length of 8
has: no room for the length, just room, a full block.  `MaxFrames` is the one
bound in a guard; every other counter is finite by itself.

The symmetry of `concurrent` (processes) and `working_file` (contents) is sound:
neither checks liveness, and nothing in them singles out an element.

Every state machine has a type invariant.  `concurrent` checks that of
`Litegraft`, which is proved like those of `Refs` and `Btree`;
those of `AtomicFile`, `DbFile` and `WorkingFile` are parts of the inductive
invariants of their proofs.

These runs find a counterexample to something the documents say; the behaviour
and the quoted line are in `PROJECT.json` under `findings`:

| Run | What fails |
|---|---|
| `gc_race` | gc beside a snap removes an object the new snapshot references |
| `verify_blind` | an interrupted `set_branch` leaves an empty ref, and verify does not see it |

Other places where code and documents disagree, known from the models and
described here without a run of their own:

- snap of a state that was saved before moves the branch to that old snapshot
  (snapshot.rs:147), whose parents it has: the snapshots made since leave the
  log.  store-format.md:60-61 says that snap "just fast-forwards the branch".
- Two writers of one object share its temporary name (store.rs:148): in
  `AtomicFile` with two writers, a reader gets a part of the object, which the
  comment at store.rs:134-135 excludes.
- A file of no pages is saved, restored as an empty file and then refused (`DbFile`):
  the contract of checkout, to put the saved state back, ends in a database that
  neither status nor snap opens.
- If a pointer map would be on the lock-byte page, SQLite moves it one page on;
  btree.rs:507 takes the lock-byte page for a map and the map for a page of
  data.  README.md:105 has both "attributed correctly".
- Nothing is fsynced: after a loss of power an object may have holes under its
  final name.  The comment above store.rs:144 calls that cheap to repair by
  another snap, but `write_object` sees that the object exists and skips it.

The properties of `sequential` are about one command at a time for a reason.
With `MayCrash = TRUE` in that configuration, an interrupted `set_branch` leaves
an empty line that the next snap records as a parent, and an init killed between
marker and HEAD leaves a store without HEAD that will not be initialised again.
With a second process, two checkouts garble HEAD and two snaps of one state
rewrite its metadata.

`CHECK_DEADLOCK FALSE` appears only where the program ends: `Btree`, `DbFile`,
`CellGeometry` and `Codecs` are sequential.

## Fairness

`Litegraft`: weak fairness of `Step(k)` for every process, that is, the
operating system goes on running a process that can run.  Starting commands,
edits and kills are not fair: nobody has to.  `CommandsEnd` is then about the
loops: `log` has no bound and ends only because parents form no cycle even while
they are rewritten.  `Btree`: weak fairness of `Next`, a sequential program goes
on as long as it can.  No other module states fairness.

## Proofs

All for every value of the constants, from the named assumptions of the modules
(states are sequences of pages; branches, ids and marks are distinct; texts are
not empty and have no holes; fields have the width of the format).  A condition
in the last column is an assumption of the theorem.

| Theorem | Module | States |
|---|---|---|
| `TypeCorrect` | `Litegraft_proofs` | `TypeOK` is invariant |
| `IdsNameSnapshots` | `Litegraft_proofs` | `NoDanglingIds` |
| `HistoryNeverLoops` | `Litegraft_proofs` | `HistoryAcyclic` |
| `FirstCreationStays` | `Litegraft_proofs` | `FirstCreationRecorded`, if there is one process (kills included) |
| `CheckoutAlwaysLands` | `Litegraft_proofs` | `CheckoutLandsOnHead`, if there is one process and none is killed |
| `VerifyIsSound` | `Litegraft_proofs` | `VerifySound`, whatever is lost or altered, if there is one process and none is killed |
| `ObjectsComplete` | `Litegraft_proofs` | `SnapshotsComplete`, if `GcExclusive` |
| `RestoreNeverFails` | `Litegraft_proofs` | a restore finds every page it reads (`RestoreFindsPages`), if `GcExclusive` |
| `GcSparesReferenced` | `Litegraft_proofs` | `GcDeletesOnlyUnreferenced`, if `GcExclusive` |
| `GcLeavesNothing` | `Litegraft_proofs` | `GcReclaims`, if `GcExclusive` |
| `WorkNeverLost` | `Litegraft_proofs` | `NoWorkLost` |
| `StoreIsRepository` | `Litegraft_proofs` | `ImplementsRepository`, if `GcExclusive` |
| `ReadersSeeWhole` | `AtomicFile_proofs` | `ReadsWhole`, if `OneWriter` |
| `FileIsWhole` | `AtomicFile_proofs` | `ImplementsWholeFile`, if `OneWriter` |
| `OkIsWhole` | `AtomicFile_proofs` | `OkMeansWhole`, if `OneWriter` |
| `OnlyCommittedIsRead` | `WorkingFile_proofs` | `ReadsCommitted`, if `WriterPauses` |
| `CommitsAreSpared` | `WorkingFile_proofs` | `SparesCommits`, if `WriterPauses` |
| `CommittedIsFound` | `WorkingFile_proofs` | `SqliteFindsCommitted`, if `WriterPauses` |
| `PagesAlwaysInFile` | `DbFile_proofs` | `PagesInFile` |
| `ViewAlwaysAgrees` | `DbFile_proofs` | `SnapshotViewAgrees` |
| `RestoredAlwaysReopens` | `DbFile_proofs` | `RestoredReopens` |
| `LayoutAlwaysAsSqlite` | `DbFile_proofs` | `PtrMapsAsSqlite`, for every page |
| `RefsTypeCorrect` | `Refs_proofs` | `TypeOK` is invariant |
| `HeadAlwaysNamesBranch` | `Refs_proofs` | `HeadNamesBranch` |
| `ListedAlwaysResolves` | `Refs_proofs` | `ListedResolves` |
| `NothingIsOverwritten` | `Refs_proofs` | `NothingOverwritten` |
| `NothingRetargets` | `Refs_proofs` | `NeverRetargets` |
| `BtreeTypeCorrect` | `Btree_proofs` | `TypeOK` is invariant |
| `AcceptsSoundFiles` | `Btree_proofs` | `AcceptsExactlySound` |
| `OwnersAreExact` | `Btree_proofs` | `AttributionExact` |
| `SchemaReadIsWalk` | `Btree_proofs` | `SchemaReadRepeatsWalk` |
| `HashesPaddedInput` | `Codecs_proofs` | `DigestOfWhole` |
| `DiffPatchesOld` | `Codecs_proofs` | `DiffIsPatch` |
| `StatusTellsPages` | `Codecs_proofs` | `StatusAgrees` |
| `VarintsReadBack` | `Codecs_proofs` | `VarintRoundTrip` |
| `RecordsReadBack` | `Codecs_proofs` | `RecordRoundTrip` |
| `ManifestsReadBack` | `Codecs_proofs` | `ManifestRoundTrip` |
| `MixturesRejected` | `Codecs_proofs` | `MixtureRejected` |
| `CountsEveryPage` | `Codecs_proofs` | `RollupAddsUp` |
| `LocalAlwaysFits`, `ChainAlwaysFits` | `CellGeometry_proofs` | `LocalFits`, `ChainFits` for every page size and payload |

Why `HistoryAcyclic` is no accident.  Two snaps of one state may both find no
manifest; the later rename replaces the parent of a snapshot that already has
descendants.  `HistoryAcyclic` is not inductive: nothing in it says that the new
parent is not one of those descendants.  `HistoryInv` adds what makes it so.
The parents that processes have decided to write are edges of the graph as well,
and recorded and pending edges together have no cycle (`NoLoop`); writing a
manifest turns a pending edge into a recorded one and adds none.  A process adds
a pending edge only when it finds its state unsaved, and every parent, recorded
or pending, is a saved state (`SavedIds`, which says the same of every other id
that a process carries): so nothing points at the state the new edge leaves.
`WritesNew` says the rest for one process: a state found unsaved is still
unsaved when its manifest is written.  `KnowsWhere`, for a checkout: its ref
still means the state it was resolved to when it started, and HEAD is empty when
it is written.  `Settled`, for verify: a branch file is empty only between the
two steps of the one process that writes it, and what follows is a saved id.  So
no branch is blank when nothing runs, the count of broken refs finds every
manifest that a branch has lost, that of missing objects every page one has lost,
and that of corrupt objects every page that was altered.

`ObjectInv` says how far each snap has come: the pages before its page counter
are in `objects`, all of them once it is about to write the manifest; and a gc
holds no page of a snapshot in its list.  This is where `GcExclusive` enters:
without it a page may be found present and be swept before the manifest appears.
`GcCovers` is the other half: what a gc does not hold in its list is live or
gone, whatever killed snaps had stored before.  `WorkSaved` says that past
`CheckoutCheck` the file is a snapshot: `Edit` is excluded and other checkouts
put snapshots there.  For `StoreIsRepository`, `ObjectInv` makes every snapshot
restorable, so a manifest is a `Save` and a written branch a `Point`, `NoLoop`
makes the new parents a forest, and no other step shows.

`FileInv`: the temporary file holds the text up to its writer's offset; what the
final name and the open readers stand for is whole and is another inode, so
truncating and writing disturbs nobody.

`FilesInv`: a writer, killed or not, leaves a log with frames or a hot journal,
never both; the journal holds the old content of every page that has been
overwritten, so rolling back gives `committed`; frames after the last commit
count for nothing (`DurableAppend`), those before it overlay the file.  A
command past the guard finds no hot journal and, without `--allow-wal`, an empty
log: there the file alone is `committed`, and what was read of it is its prefix.
The last frame of a page is a maximum of a set of numbers, which `MaxOfSome`
gets from the well-foundedness of the naturals.

`DbInv`: the count of an opened header times the page size fits in the file, and
parsing the same first page with that length gives the same count back.  For
`PtrMapsAsSqlite` the arithmetic of the code (a remainder) and that of SQLite (a
quotient) are shown to choose the same pages (`SlotIsSlot`), and the page behind a
map that was moved to be no map of its own (`NextInSlot`); a restored file of no
pages is too short for a header (`EmptyRefused`).
`RefsInv`: branch files and directories form a tree, every parent of either is a
directory and no branch is one, every path is one that a name leads to, and HEAD
is what `HeadNamesBranch` says.  A valid name never leads nowhere and its path
names the file again (`PathFacts`), so what is listed resolves; a full id is no
valid name, so no branch hides it.  `Path` drops the parts of a name that go
nowhere, one by one.

`AttributionInv`: the walk keeps a stack and a set of visited pages, the result
is defined by reachability, and what connects them is where the numbers on the
stack come from.  `Walked` says that the pointers of the visited pages, and one
more that stands for the root, correspond one to one to the entries of the stack
and the visited b-tree pages together.  A page that comes up a second time is
then the goal of two pointers, so the tree is none and the error is deserved
(`PopFails`; `CellFails` for the links of chains); when the stack is empty, the
visited pages are closed, have the root, and are all reachable, so they are the
tree, and no two pointers of it meet (`WalkEnds`).  `WalkAt` adds the cells of the
current page that are still ahead, whose pointers and links have not been met.
`ReadAt` says the same of `read_schema`: the pages it has read are as many as it
has counted and, the tree being one, fewer than there are in the file while the
stack holds another.  `LoopAt` says of the map that it is exact for the objects
walked so far, and that these, the one under way and the rows to come are all
there are; `FreeAt`, that the trunks passed are the first of the chain.

`ChainInv` of the geometry: while bytes remain, the pages passed were all filled.

`ShaInv` says where the hash is: the compressed blocks end at a multiple `c` of the
block length, the buffer is what was passed from `c` on and is shorter than a block,
and the rest of the slice is what is still to come (`CutAt`).  While `finish` runs,
the same holds of the padded input: the zeros stop just where the length completes
a block (`PaddingFits`).  The length field is assumed to
have a byte and to be shorter than a block: with none, `finish` would wait for a
full buffer, which `update` never leaves.

The functions of `PageDiff` return in one step, so their invariant (`Returned`)
only says that a result is that of the call.  What is to be shown is about the
function: `ByPageSorts`, that sorting deltas of different pages gives each of them
once and in order, and that `Deltas` has one for each page that differs.
`CallsAssumption` is what the callers guarantee: HEAD names at most one snapshot,
and pages with one hash have one size, which is the injectivity of SHA-256 (page contents of different
length are different contents).  Without the last, a file could be dirty by its
page size alone and have no changed page.

So it is for varints and records, where the recursion of the code is a function
of a number and the lemmas are by induction over it.  A varint: its groups are the
quotients of the value by powers of the base, so shifting them in gives the value
back (`DigitsRead`), in the short form as in the long one, whose last group is a
byte; it has at most one end, whatever follows (`OneEnd`), and only bytes that all
say "go on" have none (`NoEnd`).  A record: the header counts its own length, and
there is one length to choose because a longer header never has a shorter varint
(`OwnIs`); before its `k`-th turn, what the loop of `decode_record` has left is the
header and body of the record without their first `k` parts (`Turn`, `TurnIsStep`),
so with the whole body it ends with the columns and with less in an error; and a
payload too short for the header's length is refused there (`CutShort`).  Integers
are read in two's complement from as many bytes as the serial type says (`IntRead`).
What a text is repaired to is a concatenation of characters, and therefore UTF-8
(`LossyIsUtf8`, `JoinedIsUtf8`).
`CallsAssumption` has buffers of bytes, values of the width of a varint, and columns
as the record format has them (`IsColumn`), no more than a varint can count.

`MapThenSumSet` sums over a set in an order nobody knows.  `TotalIs` ties it to one
function on the subsets of its domain, by induction over a set of numbers, and from
there a sum depends on nothing but its terms (`SumsAgree`) and can be taken fiber by
fiber (`SumOfFibers`).  A rollup is then a count by owner and kind of change
(`RollupIs`, `CountsBy`): every reported page is in one fiber, so nothing is counted
twice or left out (`CountedTwice`), and a count is of the pages of that owner in the
state that has the page (`CountIsOfPages`).  `CallsAssumption` has an owner for every
page of a state and for no other number, which is what `AttributionExact` of `Btree`
says of `attribute_pages`.

For the manifest the proof follows the text.  Lines without a newline, each ended by
one, are cut apart where they were put together, whatever is behind them, and what is
behind them is at least one more line (`LinesEndAt`, `LineEnds`, `UnlinesRead`).  No
line of a manifest has a newline, since branch and parent have none and an escaped
message has none (`NoNewline`, `PiecesAre`).  A line is only as good as `str::lines`
leaves it: a carriage return before the newline goes with it, and this touches the
message alone, because no other value ends in one (`ValuesTyped`), and no escaped
character but the carriage return itself does (`SansReturnEscapes`).  `split_once` cuts
a field behind its key, which has no space, so no value can look like `--` or like
another key (`FieldRead`, `GetIs`).  `UnescapesEscaped` goes through the escaped message
from its end: where the piece of a character begins, `unescape_line` gives that
character and goes on at the next piece.  That is the whole manifest, with as many
pages as it declares, when nothing is behind its text; with a rest there are more
lines than declared and `parse_manifest` refuses (`ParseIs`).  `IsManifest`
says what `snap` writes: the id of the pages, hashes of one length, a branch and a
parent of one line without a carriage return, any message at all.  `WordsAssumption` is
about the alphabet: hexadecimal digits and numbers are neither newline nor carriage
return, and different numbers are written differently.

Only model-checked: `CommandsEnd` and `AttributionEnds`, as liveness is out of the
prover's reach, and the two runs that expect a violation.  Every other property of a
run has a theorem.

The library's theorems of induction over data cannot be applied, so the lemmas are by
induction over a set of numbers (`NatInd`).  What is recursive in the models is
a function of a number (the path of a name, the concatenation of the children of a page,
the chain of trunks, the groups of a varint, the characters of a message), and the folds
of the community modules are unfolded into one (`TotalIs`, `FlattenJoins`).

## Not modelled

- Arguments and output: parsing of options, JSON and text, wording.
- The compression function of SHA-256: published test vectors, no state worth
  exploring.  Elsewhere the digest is taken to be injective.
- Loss of power (store.rs:144): nothing is fsynced and the documents promise
  only that verify detects the damage.
- The byte offsets of cells in a page, `payload_len` near 2^64 (btree.rs:203),
  the text encoding check of `read_schema`, and of the header the magic number,
  encoding and freelist fields.
- diff opens the working file a second time after the guard.

## Plan

What is left is a fault model for loss of power: written but not synced files that
lose their tail under their final name, and what verify makes of them.
