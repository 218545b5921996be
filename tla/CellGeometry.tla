---------------------------- MODULE CellGeometry ----------------------------
(* How many bytes of a payload stay in its cell and how many overflow pages *)
(* hold the rest: CellGeometry and the arithmetic of collect_overflow in    *)
(* src/btree.rs.  The walk knows where a chain ends only from this count,   *)
(* not from the file.                                                       *)
EXTENDS Naturals

CONSTANTS
    Usable,     \* usable sizes of a page
    Payloads    \* lengths of a payload

(* A header leaves at least 480 usable bytes (DbHeader::parse). *)
ASSUME UsableAssumption == \A u \in Usable : u \in Nat /\ 480 <= u /\ u <= 65536
ASSUME PayloadsAssumption == Payloads \subseteq Nat

VARIABLES
    usable, payload, maxLocal,   \* of the page, of the cell, of the cell's kind
    remaining,                   \* payload bytes not yet accounted for
    chain                        \* overflow pages passed

vars == <<usable, payload, maxLocal, remaining, chain>>

MaxLocalTable(u) == u - 35

MaxLocalIndex(u) == ((u - 12) * 64) \div 255 - 23

MinLocal(u) == ((u - 12) * 32) \div 255 - 23

(* What must stay for the chain to end on a full page. *)
Surplus(u, p) == MinLocal(u) + ((p - MinLocal(u)) % (u - 4))

(* Mutant: what must stay is not compared with the threshold. *)
BugLocalLen(u, p, x) == IF p <= x THEN p ELSE Surplus(u, p)

LocalLen(u, p, x) ==
    IF p <= x THEN p
    ELSE IF Surplus(u, p) <= x THEN Surplus(u, p) ELSE MinLocal(u)

Capacity == usable - 4

Init ==
    /\ usable \in Usable /\ payload \in Payloads
    /\ maxLocal \in {MaxLocalTable(usable), MaxLocalIndex(usable)}
    /\ remaining = payload - LocalLen(usable, payload, maxLocal)
    /\ chain = 0

(* Mutant: a page of the chain is taken to hold as much as a table cell. *)
BugFollow ==
    /\ remaining > 0
    /\ remaining' = IF remaining > MaxLocalTable(usable)
                    THEN remaining - MaxLocalTable(usable) ELSE 0
    /\ chain' = chain + 1
    /\ UNCHANGED <<usable, payload, maxLocal>>

(* One page of the chain (saturating_sub). *)
Follow ==
    /\ remaining > 0
    /\ remaining' = IF remaining > Capacity THEN remaining - Capacity ELSE 0
    /\ chain' = chain + 1
    /\ UNCHANGED <<usable, payload, maxLocal>>

Next == Follow

Spec == Init /\ [][Next]_vars

---------------------------------------------------------------------------
Local == LocalLen(usable, payload, maxLocal)

(* What stays in the cell fits its kind of cell, and a payload that spills  *)
(* leaves something to spill: no subtraction of walk_btree wraps.           *)
LocalFits ==
    /\ Local <= maxLocal
    /\ payload > maxLocal => MinLocal(usable) <= Local /\ Local < payload
    /\ 0 < MinLocal(usable) /\ MinLocal(usable) <= maxLocal

(* The pages passed hold the spilled bytes and not one page more is passed: *)
(* the walk claims no page behind the end of a chain, where SQLite may have *)
(* left any pointer.                                                        *)
ChainFits ==
    remaining = 0 =>
        /\ payload - Local <= chain * Capacity
        /\ chain > 0 => (chain - 1) * Capacity < payload - Local
=============================================================================
