------------------------------- MODULE Codecs -------------------------------
(* The functions litegraft computes with, each called on one input: varints *)
(* and records (Varint), manifests (ManifestText), differences (PageDiff)   *)
(* and the hash, the only one with a state of its own (Sha256).             *)
EXTENDS Sha256, Varint, ManifestText, PageDiff

CONSTANTS
    Calls,    \* calls, records that tell the function by the field op
    Pending   \* not returned yet

(* A state may have no pages (DbFile).  attribute_pages finds an owner for  *)
(* each there is (AttributionExact of Btree).  HEAD stands for one snapshot *)
(* at most.  SHA-256 is taken injective: pages of one hash are of one size. *)
IsState(s) == /\ s.hashes \in Seq(Range(s.hashes))
              /\ DOMAIN s.owners = DOMAIN s.hashes

PagesTellSize(s, t) == \A p \in DOMAIN s.hashes \cap DOMAIN t.hashes :
                          s.hashes[p] = t.hashes[p] => s.size = t.size

(* No more columns than a header can tell the length of. *)
IsColumns(columns) ==
    /\ columns \in Seq(Range(columns))
    /\ \A i \in DOMAIN columns : IsColumn(columns[i])
    /\ MaxBytes * (Len(columns) + 1) < VarintLimit

(* What snap writes: the id is that of the pages, the parent an id or "-",  *)
(* the branch a name that validate_branch_name takes; a message may be      *)
(* anything.                                                                *)
IsWord(s) == s \in Seq(Range(s)) /\ {NL, CR} \cap Range(s) = {}

IsManifest(m) ==
    /\ m = [id |-> StateId(m.pagesize, m.pages), parent |-> m.parent, branch |-> m.branch,
            created |-> m.created, message |-> m.message, pagesize |-> m.pagesize,
            pages |-> m.pages]
    /\ IsWord(m.parent) /\ IsWord(m.branch)
    /\ m.message \in Seq(Range(m.message))
    /\ {m.created, m.pagesize, Len(m.pages)} \subseteq Numbers
    /\ m.pages \in Seq(Range(m.pages))
    /\ \A p \in Range(m.pages) : p \in Seq(HexDigits) /\ Len(p) = HashLen

ASSUME CallsAssumption == \A c \in Calls :
    /\ c.op = "write_varint" => c.value \in 0 .. VarintLimit - 1 /\ c.rest \in Seq(0 .. ByteBase - 1)
    /\ c.op = "read_varint"  => c.buf \in Seq(0 .. ByteBase - 1)
    /\ c.op \in {"record", "truncated"} =>
         /\ IsColumns(c.columns)
         /\ c.op = "record" => c.rest \in Seq(0 .. ByteBase - 1)
    /\ c.op = "manifest" => IsManifest(c.manifest)
    /\ c.op = "overlaid" => IsManifest(c.first) /\ IsManifest(c.last)
    /\ c.op = "diff"   => IsState(c.old) /\ IsState(c.new)
    /\ c.op = "tables" => IsState(c.file)
    /\ c.op = "status" => /\ IsState(c.file)
                          /\ \A h \in c.head : IsState(h) /\ PagesTellSize(h, c.file)
                          /\ \A g, h \in c.head : g = h

VARIABLES
    call,     \* the call
    result    \* what it returned: a set of at most one value, once it is over

codecVars == <<call, result, shaVars>>

Init ==
    /\ call \in Calls
    /\ result = Pending
    /\ ShaInit
    /\ call.op # "hash" => message = << >>

Return(op, value) ==
    /\ call.op = op /\ result = Pending
    /\ result' = value
    /\ UNCHANGED <<call, shaVars>>

CallWriteVarint  == Return("write_varint", ReadVarint(WriteVarint(call.value) \o call.rest))
CallReadVarint   == Return("read_varint", ReadVarint(call.buf))
CallRecord       == Return("record", DecodeRecord(SqliteRecord(call.columns) \o call.rest))
CallTruncated    ==
    LET record == SqliteRecord(call.columns)
    IN  Return("truncated", UNION {DecodeRecord(SubSeq(record, 1, n)) : n \in 0 .. Len(record) - 1})
CallManifest     == Return("manifest", ParseManifest(ManifestText(call.manifest)))
CallOverlaid     == Return("overlaid", ParseManifest(Overlaid(ManifestText(call.first),
                                                              ManifestText(call.last))))
CallDiff         == Return("diff", DiffSources(call.old, call.new))
CallStatus       == Return("status", {Status(call.head, call.file)})
CallTables       == Return("tables", PrintTables(call.file))

CallHash ==
    /\ call.op = "hash"
    /\ ShaNext
    /\ UNCHANGED <<call, result>>

Next ==
    \/ CallWriteVarint \/ CallReadVarint \/ CallRecord \/ CallTruncated
    \/ CallManifest \/ CallOverlaid
    \/ CallDiff \/ CallStatus \/ CallTables
    \/ CallHash

Spec == Init /\ [][Next]_codecVars

Over(op) == call.op = op /\ result # Pending

---------------------------------------------------------------------------
(* A varint is read back as it was written, whatever follows it, over every *)
(* boundary of its length.  Of any bytes, reading fails only for want of a  *)
(* last byte, a value has the width of the integer it is put in, and the    *)
(* writer would have used no more bytes for it.                             *)
VarintRoundTrip ==
    /\ Over("write_varint") =>
         result = {[value |-> call.value, used |-> Len(WriteVarint(call.value))]}
    /\ Over("read_varint") =>
         /\ result = {} <=> Len(call.buf) < MaxBytes
                            /\ \A i \in DOMAIN call.buf : call.buf[i] >= Group
         /\ \A v \in result : /\ v.value < VarintLimit
                              /\ v.used <= Len(call.buf)
                              /\ Len(WriteVarint(v.value)) <= v.used

(* What is read of a value: a text that is not UTF-8 is repaired. *)
ReadsAs(read, value) ==
    IF value.kind = "text" /\ ~ IsUtf8(value.is)
    THEN read = [kind |-> "text", is |-> read.is] /\ IsUtf8(read.is)
    ELSE read = value

(* A record SQLite wrote is decoded to its columns, with the length of a    *)
(* header on either side of one byte and integers of either sign; only a    *)
(* text that is not UTF-8 becomes another text, one that is.  Bytes behind  *)
(* the end are not looked at, and without its last bytes (a chain that      *)
(* ended early) a record is refused, never decoded to something else.       *)
RecordRoundTrip ==
    /\ Over("record") =>
         /\ result # {}
         /\ \A values \in result :
              /\ DOMAIN values = DOMAIN call.columns
              /\ \A i \in DOMAIN values : ReadsAs(values[i], call.columns[i].value)
    /\ Over("truncated") => result = {}

---------------------------------------------------------------------------
(* A manifest is read back as it was written: no message, whatever it is    *)
(* made of, fakes a line or loses a newline or a backslash.  A carriage     *)
(* return at its end is all that is lost: str::lines takes it for a part of *)
(* the line end.                                                            *)
ManifestRoundTrip ==
    Over("manifest") =>
        result = {[call.manifest EXCEPT !.message = SansReturn(@)]}

(* Two writers of one manifest in the same temporary file: what is left of  *)
(* a longer text behind a shorter one makes the file unreadable, and never  *)
(* a manifest that nobody wrote.                                            *)
MixtureRejected ==
    Over("overlaid") =>
        IF Len(ManifestText(call.first)) <= Len(ManifestText(call.last))
        THEN result = {[call.last EXCEPT !.message = SansReturn(@)]}
        ELSE result = {}

---------------------------------------------------------------------------
(* That page for page, deltas make the new hashes of the old. *)
IsPatch(deltas, old, new) ==
    LET told(p, cs) == \E i \in DOMAIN deltas :
                          deltas[i].pgno = p /\ deltas[i].change \in cs
    IN  /\ \A i, j \in DOMAIN deltas : i < j => deltas[i].pgno < deltas[j].pgno
        /\ DOMAIN new = {p \in DOMAIN old : ~told(p, {"removed"})}
                        \cup {p \in 1 .. 2 * Len(new) : told(p, {"added"})}
        /\ \A p \in DOMAIN old \cap DOMAIN new : old[p] # new[p] <=> told(p, {"changed"})

(* The reported pages are all that changed: with them replaced, the old     *)
(* state is the new one.  They come in order, each once.                    *)
DiffIsPatch ==
    Over("diff") =>
        \A report \in result : IsPatch(report.deltas, call.old.hashes, call.new.hashes)

(* The rollup of a diff counts each reported page once, under the owner it  *)
(* has in the state it is in, and names nobody who has none; tables counts  *)
(* every page of a state once, under the same labels.                       *)
Total(f)     == MapThenSumSet(LAMBDA x : f[x], DOMAIN f)
Totals(rows) == Total([l \in DOMAIN rows |-> Total(rows[l])])

PagesWith(deltas, c) == {deltas[i].pgno : i \in {i \in DOMAIN deltas : deltas[i].change = c}}
PagesOf(s, l)        == {p \in DOMAIN s.owners : OwnerLabel(s.owners[p]) = l}

Reported(report, change, state, label) ==
    Cardinality(PagesWith(report.deltas, change) \cap PagesOf(state, label))

RollupAddsUp ==
    /\ Over("diff") => \A report \in result :
         LET rows == report.byOwner
         IN  /\ Totals(rows) = Len(report.deltas)
             /\ \A l \in DOMAIN rows :
                  /\ Total(rows[l]) > 0
                  /\ rows[l]["removed"] = Reported(report, "removed", call.old, l)
                  /\ rows[l]["added"]   = Reported(report, "added", call.new, l)
                  /\ rows[l]["changed"] = Reported(report, "changed", call.new, l)
    /\ Over("tables") => \A rows \in result : Totals(rows) = Len(call.file.hashes)

(* status calls a file dirty exactly when it counts a page that differs,    *)
(* though one is told from the id and the other from the pages: also when   *)
(* the page size changed.  The two disagree about a file of no pages, which *)
(* is dirty with nothing to count while there is no snapshot, or none but   *)
(* one of no pages of another size.                                         *)
NothingToCount(head, file) ==
    /\ file.hashes = << >>
    /\ \A h \in head : h.hashes = << >> /\ h.size # file.size

StatusAgrees ==
    Over("status") => \A s \in result :
        s.dirty <=> s.changed > 0 \/ NothingToCount(call.head, call.file)
=============================================================================
