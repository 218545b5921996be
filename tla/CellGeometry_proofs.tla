------------------------ MODULE CellGeometry_proofs ------------------------
(* Theorems about CellGeometry, for any page sizes and payload lengths.     *)
EXTENDS CellGeometry, TLAPS

(* On every page that a header admits, the thresholds are in order.         *)
LEMMA ThresholdsOrdered ==
    ASSUME NEW u \in Nat, 480 <= u
    PROVE  /\ MinLocal(u) \in Nat /\ 0 < MinLocal(u)
           /\ MaxLocalIndex(u) \in Nat /\ MinLocal(u) <= MaxLocalIndex(u)
           /\ MaxLocalTable(u) \in Nat /\ MinLocal(u) <= MaxLocalTable(u)
BY DEF MinLocal, MaxLocalIndex, MaxLocalTable

(* A remainder is what is left after taking away whole multiples.           *)
LEMMA RemainderBounds ==
    ASSUME NEW n \in Nat, NEW d \in Nat \ {0}
    PROVE  n % d \in Nat /\ n % d <= n
OBVIOUS

(* What stays in a cell: no more than its kind allows, at least the         *)
(* minimum, and less than the payload once it spills.                       *)
LEMMA LocalBounds ==
    ASSUME NEW u \in Nat, 480 <= u, NEW p \in Nat, NEW x \in Nat,
           MinLocal(u) \in Nat, MinLocal(u) <= x
    PROVE  /\ LocalLen(u, p, x) \in Nat /\ LocalLen(u, p, x) <= x
           /\ p > x => MinLocal(u) <= LocalLen(u, p, x) /\ LocalLen(u, p, x) < p
<1>1. CASE p <= x
  BY <1>1 DEF LocalLen
<1>2. CASE p > x
  <2>1. p - MinLocal(u) \in Nat /\ u - 4 \in Nat \ {0}
    BY <1>2
  <2>2. (p - MinLocal(u)) % (u - 4) \in Nat
    BY <2>1, RemainderBounds
  <2>3. Surplus(u, p) \in Nat /\ MinLocal(u) <= Surplus(u, p)
    BY <2>2 DEF Surplus
  <2> QED
    BY <1>2, <2>3 DEF LocalLen
<1> QED
  BY <1>1, <1>2

(* The page, the payload and the kind of cell stay what they were. *)
Given ==
    /\ usable \in Nat /\ 480 <= usable
    /\ payload \in Nat
    /\ maxLocal = MaxLocalTable(usable) \/ maxLocal = MaxLocalIndex(usable)

LEMMA GivenStays == Given /\ [Next]_vars => Given'
<1> SUFFICES ASSUME Given, [Next]_vars PROVE Given'
  OBVIOUS
<1>1. usable' = usable /\ payload' = payload /\ maxLocal' = maxLocal
  BY DEF Next, Follow, vars
<1> QED
  BY <1>1 DEF Given, MaxLocalTable, MaxLocalIndex

LEMMA InitGiven == Init => Given
<1> SUFFICES ASSUME Init PROVE Given
  OBVIOUS
<1>1. usable \in Nat /\ 480 <= usable /\ payload \in Nat
  <2>1. usable \in Usable /\ payload \in Payloads
    BY Zenon DEF Init
  <2> QED
    BY <2>1, UsableAssumption, PayloadsAssumption
<1>2. maxLocal = MaxLocalTable(usable) \/ maxLocal = MaxLocalIndex(usable)
  BY Zenon DEF Init
<1> QED
  BY <1>1, <1>2 DEF Given

(* Whatever the page size, the reserved space and the length of a payload,  *)
(* the bytes kept in its cell fit there and no subtraction of walk_btree    *)
(* goes below zero.                                                         *)
THEOREM LocalAlwaysFits == Spec => []LocalFits
<1>1. Init => Given
  BY InitGiven
<1>2. Given => LocalFits
  <2> SUFFICES ASSUME Given PROVE LocalFits
    OBVIOUS
  <2>1. usable \in Nat /\ 480 <= usable /\ payload \in Nat
    BY DEF Given
  <2>2. /\ MinLocal(usable) \in Nat /\ 0 < MinLocal(usable)
        /\ maxLocal \in Nat /\ MinLocal(usable) <= maxLocal
    BY <2>1, ThresholdsOrdered DEF Given
  <2>3. /\ Local <= maxLocal
        /\ payload > maxLocal => MinLocal(usable) <= Local /\ Local < payload
    BY <2>1, <2>2, LocalBounds DEF Local
  <2> QED
    BY <2>2, <2>3 DEF LocalFits
<1> QED
  BY <1>1, <1>2, GivenStays, PTL DEF Spec

---------------------------------------------------------------------------
(* The chain.                                                               *)

Spilled == payload - Local

(* While bytes remain, every page passed was filled. *)
ChainInv ==
    /\ Given
    /\ remaining \in Nat /\ chain \in Nat /\ Spilled \in Nat
    /\ remaining > 0 => Spilled = remaining + chain * Capacity
    /\ ChainFits

LEMMA ProductStep ==
    ASSUME NEW n \in Nat, NEW c \in Nat
    PROVE  n * c \in Nat /\ (n + 1) * c = n * c + c
OBVIOUS

LEMMA SpilledNat == Given => Spilled \in Nat /\ Capacity \in Nat \ {0}
<1> SUFFICES ASSUME Given PROVE Spilled \in Nat /\ Capacity \in Nat \ {0}
  OBVIOUS
<1>1. Capacity \in Nat \ {0}
  BY DEF Given, Capacity
<1>2. usable \in Nat /\ 480 <= usable /\ payload \in Nat
  BY DEF Given
<1>3. /\ MinLocal(usable) \in Nat
      /\ maxLocal \in Nat /\ MinLocal(usable) <= maxLocal
  BY <1>2, ThresholdsOrdered DEF Given
<1>4. Local \in Nat /\ Local <= maxLocal /\ (payload > maxLocal => Local < payload)
  BY <1>2, <1>3, LocalBounds DEF Local
<1>5. Local <= payload
  <2>1. CASE payload > maxLocal
    BY <2>1, <1>2, <1>4
  <2>2. CASE ~ (payload > maxLocal)
    BY <2>2, <1>2, <1>3 DEF Local, LocalLen
  <2> QED
    BY <2>1, <2>2
<1> QED
  BY <1>1, <1>2, <1>4, <1>5 DEF Spilled

LEMMA ChainStarts == Init /\ Given => ChainInv
<1> SUFFICES ASSUME Init, Given PROVE ChainInv
  OBVIOUS
<1>1. remaining = Spilled /\ chain = 0
  BY DEF Init, Spilled, Local
<1>2. Spilled \in Nat /\ Capacity \in Nat \ {0}
  BY SpilledNat
<1>3. chain * Capacity = 0
  BY <1>1, <1>2
<1> QED
  BY <1>1, <1>2, <1>3 DEF ChainInv, ChainFits, Spilled

LEMMA ChainStep == ChainInv /\ [Next]_vars => ChainInv'
<1> SUFFICES ASSUME ChainInv, [Next]_vars PROVE ChainInv'
  OBVIOUS
<1>1. Given'
  BY GivenStays DEF ChainInv
<1>2. Spilled' = Spilled /\ Capacity' = Capacity
  <2>1. usable' = usable /\ payload' = payload /\ maxLocal' = maxLocal
    BY DEF Next, Follow, vars
  <2> QED
    BY <2>1 DEF Spilled, Local, Capacity, LocalLen, Surplus, MinLocal
<1>3. CASE Follow
  <2>1. /\ remaining \in Nat \ {0} /\ chain \in Nat
        /\ Spilled \in Nat /\ Capacity \in Nat \ {0}
        /\ Spilled = remaining + chain * Capacity
    BY <1>3, SpilledNat DEF ChainInv, Follow
  <2>2. /\ chain * Capacity \in Nat
        /\ (chain + 1) * Capacity = chain * Capacity + Capacity
    BY <2>1, ProductStep
  <2>3. chain' = chain + 1
    BY <1>3 DEF Follow
  <2>4. CASE remaining > Capacity
    <3>1. remaining' = remaining - Capacity
      BY <1>3, <2>4 DEF Follow
    <3>2. remaining' \in Nat \ {0} /\ Spilled' = remaining' + chain' * Capacity'
      BY <3>1, <2>1, <2>2, <2>3, <2>4, <1>2
    <3> QED
      BY <3>2, <1>1, <1>2, <2>1, <2>3 DEF ChainInv, ChainFits, Spilled
  <2>5. CASE ~ (remaining > Capacity)
    <3>1. remaining' = 0
      BY <1>3, <2>5 DEF Follow
    <3>2. chain' - 1 = chain
      BY <2>1, <2>3
    <3>3. /\ Spilled' <= chain' * Capacity'
          /\ (chain' - 1) * Capacity' < Spilled'
      BY <3>2, <2>1, <2>2, <2>3, <2>5, <1>2
    <3> QED
      BY <3>1, <3>3, <1>1, <1>2, <2>1, <2>3 DEF ChainInv, ChainFits, Spilled
  <2> QED
    BY <2>4, <2>5
<1>4. CASE UNCHANGED vars
  BY <1>1, <1>2, <1>4 DEF ChainInv, ChainFits, Spilled, vars
<1> QED
  BY <1>3, <1>4 DEF Next

(* The walk passes as many overflow pages as the spilled bytes need and not *)
(* one more, whatever the page size and the length of the payload.          *)
THEOREM ChainAlwaysFits == Spec => []ChainFits
<1>1. Init => Given
  BY InitGiven
<1>2. Init => ChainInv
  BY <1>1, ChainStarts
<1>3. ChainInv => ChainFits
  BY DEF ChainInv
<1> QED
  BY <1>2, <1>3, ChainStep, PTL DEF Spec
=============================================================================
