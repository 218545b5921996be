---------------------------- MODULE Btree_proofs ----------------------------
(* Page attribution is exact: proofs about Btree.                           *)
(*                                                                          *)
(* A walk keeps a stack of page numbers and a set of pages; what it should  *)
(* find is defined by reachability.  The argument that they agree follows   *)
(* where the numbers on the stack come from: each is the goal of a pointer  *)
(* of a page visited, or is the root, and each such pointer stands for one  *)
(* entry of the stack or for one page visited (Walked).  A page that comes  *)
(* up twice is then the goal of two pointers, so the tree is none; a stack  *)
(* that runs empty leaves a set that is closed, has the root, and holds     *)
(* only pages reached: the tree.  The same holds of read_schema, of the     *)
(* links of overflow chains, and of the trunks of the freelist.             *)
EXTENDS Btree, FiniteSetTheorems, SequenceTheorems, WellFoundedInduction, TLAPS

(* Induction over the numbers, for a set of them. *)
LEMMA NatInd ==
    ASSUME NEW S, 0 \in S, \A n \in Nat : n \in S => n + 1 \in S
    PROVE  Nat \subseteq S
<1> DEFINE Out == Nat \ S
<1> SUFFICES ASSUME Out # {} PROVE FALSE
  OBVIOUS
<1>1. Out \subseteq Nat
  OBVIOUS
<1>2. PICK m \in Out : \A k \in Out : ~ (<<k, m>> \in OpToRel(<, Nat))
  BY <1>1, NatLessThanWellFounded, WFMin, Zenon
<1>3. \A k \in Out : ~ (k < m)
  BY <1>1, <1>2 DEF OpToRel
<1>4. m \in Nat /\ m \notin S /\ m # 0
  OBVIOUS
<1>5. m - 1 \in Nat /\ m - 1 \in S
  BY <1>3, <1>4
<1> QED
  BY <1>4, <1>5

----------------------------------------------------------------------------
(* The stack of a walk, and where each page number on it comes from: a      *)
(* pointer of a page (a slot), or the root, for which the slot Origin       *)
(* stands.                                                                  *)

Origin == <<0, 0>>

Goal(f, root, s) == IF s = Origin THEN root ELSE Target(f, s)

(* The entries of the stack are the goals of E, one for each.               *)
Matches(f, root, st, E) ==
    /\ st \in Seq(Nat)
    /\ \E src \in [1 .. Len(st) -> E] :
           /\ \A i, j \in 1 .. Len(st) : src[i] = src[j] => i = j
           /\ \A s \in E : \E i \in 1 .. Len(st) : src[i] = s
           /\ \A i \in 1 .. Len(st) : st[i] = Goal(f, root, src[i])

LEMMA FrontLast ==
    ASSUME NEW T, NEW st \in Seq(T), st # <<>>
    PROVE  /\ Len(st) \in Nat \ {0}
           /\ Last(st) = st[Len(st)]
           /\ Last(st) \in T
           /\ Front(st) \in Seq(T)
           /\ Len(Front(st)) = Len(st) - 1
           /\ \A i \in 1 .. Len(st) - 1 : Front(st)[i] = st[i]
<1>1. Len(st) \in Nat \ {0}
  OBVIOUS
<1> QED
  BY <1>1 DEF Front, Last

LEMMA MatchPop ==
    ASSUME NEW f, NEW root, NEW st, NEW E, Matches(f, root, st, E), st # <<>>
    PROVE  \E s \in E : /\ Goal(f, root, s) = Last(st)
                        /\ Matches(f, root, Front(st), E \ {s})
<1> DEFINE G(s) == Goal(f, root, s)
           l == Len(st)
<1>1. PICK src \in [1 .. Len(st) -> E] :
           /\ \A i, j \in 1 .. Len(st) : src[i] = src[j] => i = j
           /\ \A s \in E : \E i \in 1 .. Len(st) : src[i] = s
           /\ \A i \in 1 .. Len(st) : st[i] = G(src[i])
  BY DEF Matches
<1>2. /\ st \in Seq(Nat)
      /\ l \in Nat \ {0}
      /\ Last(st) = st[l]
      /\ Front(st) \in Seq(Nat) /\ Len(Front(st)) = l - 1
      /\ \A i \in 1 .. l - 1 : Front(st)[i] = st[i]
  BY FrontLast DEF Matches
<1> DEFINE src2 == [i \in 1 .. l - 1 |-> src[i]]
<1> HIDE DEF G
<1>3. src[l] \in E /\ G(src[l]) = Last(st)
  BY <1>1, <1>2
<1>4. src2 \in [1 .. Len(Front(st)) -> E \ {src[l]}]
  BY <1>1, <1>2
<1>5. \A s \in E \ {src[l]} : \E i \in 1 .. Len(Front(st)) : src2[i] = s
  <2> SUFFICES ASSUME NEW s \in E \ {src[l]}
               PROVE  \E i \in 1 .. l - 1 : src2[i] = s
    BY <1>2
  <2>1. PICK i \in 1 .. l : src[i] = s
    BY <1>1
  <2>2. i \in 1 .. l - 1
    BY <2>1, <1>2
  <2> QED BY <2>1, <2>2
<1>6. \A i, j \in 1 .. Len(Front(st)) : src2[i] = src2[j] => i = j
  BY <1>1, <1>2
<1>7. \A i \in 1 .. Len(Front(st)) : Front(st)[i] = G(src2[i])
  BY <1>1, <1>2
<1>8. Matches(f, root, Front(st), E \ {src[l]})
  BY <1>2, <1>4, <1>5, <1>6, <1>7 DEF Matches, G
<1> QED
  BY <1>3, <1>8 DEF G

LEMMA OnePointer ==
    ASSUME NEW pointer \in Pointers, pointer # <<>>
    PROVE  Len(pointer) = 1 /\ pointer[1] \in Nat
<1>1. pointer \in Seq(Nat) /\ Len(pointer) <= 1
  BY DEF Pointers
<1>2. Len(pointer) \in Nat \ {0}
  BY <1>1, EmptySeq
<1> DEFINE n == Len(pointer)
<1> HIDE DEF n
<1>3. n = 1
  <2>1. n \in Nat \ {0} /\ n <= 1
    BY <1>1, <1>2, Zenon DEF n
  <2> QED BY <2>1
<1>4. 1 \in 1 .. n
  BY <1>3
<1> QED
  BY <1>1, <1>3, <1>4, ElementOfSeq, Zenon DEF n

LEMMA PushOne ==
    ASSUME NEW T, NEW st \in Seq(T), NEW pointer \in Seq(T), Len(pointer) = 1
    PROVE  /\ st \o pointer \in Seq(T)
           /\ Len(st) \in Nat
           /\ Len(st \o pointer) = Len(st) + 1
           /\ \A i \in 1 .. Len(st) : (st \o pointer)[i] = st[i]
           /\ (st \o pointer)[Len(st) + 1] = pointer[1]
<1>1. Len(st) \in Nat
  OBVIOUS
<1> QED
  <2>1. /\ st \o pointer \in Seq(T)
        /\ Len(st \o pointer) = Len(st) + 1
        /\ \A i \in 1 .. Len(st) + 1 : (st \o pointer)[i] =
                     IF i <= Len(st) THEN st[i] ELSE pointer[i - Len(st)]
    BY ConcatProperties, SMTT(30)
  <2> DEFINE n == Len(st)
             new == st \o pointer
  <2> HIDE DEF n, new
  <2>2. n \in Nat /\ \A i \in 1 .. n + 1 : new[i] = IF i <= n THEN st[i] ELSE pointer[i - n]
    BY <1>1, <2>1, Zenon DEF n, new
  <2>3. new[n + 1] = pointer[(n + 1) - n] /\ (n + 1) - n = 1
    BY <2>2
  <2>4. \A i \in 1 .. n : new[i] = st[i]
    BY <2>2
  <2> QED
    BY <1>1, <2>1, <2>3, <2>4, Zenon DEF n, new

(* A pointer is pushed, if there is one.                                    *)
LEMMA MatchPush ==
    ASSUME NEW f, NEW root, NEW st, NEW E, Matches(f, root, st, E),
           NEW pointer \in Pointers, NEW s, s \notin E,
           pointer # <<>> => Goal(f, root, s) = pointer[1]
    PROVE  Matches(f, root, st \o pointer, E \cup {x \in {s} : pointer # <<>>})
<1> DEFINE l == Len(st)
           new == st \o pointer
           E2 == E \cup {x \in {s} : pointer # <<>>}
<1>1. PICK src \in [1 .. Len(st) -> E] :
           /\ \A i, j \in 1 .. Len(st) : src[i] = src[j] => i = j
           /\ \A x \in E : \E i \in 1 .. Len(st) : src[i] = x
           /\ \A i \in 1 .. Len(st) : st[i] = Goal(f, root, src[i])
  BY DEF Matches
<1>2. st \in Seq(Nat) /\ l \in Nat /\ pointer \in Seq(Nat) /\ Len(pointer) <= 1
  BY DEF Matches, Pointers
<1>3. CASE pointer = <<>>
  <2>1. new = st /\ E2 = E
    BY <1>2, <1>3
  <2> QED BY <2>1
<1>4. CASE pointer # <<>>
  <2>1. Len(pointer) = 1 /\ pointer[1] \in Nat
    BY <1>4, OnePointer, Zenon
  <2>2. /\ new \in Seq(Nat) /\ Len(new) = l + 1
        /\ \A i \in 1 .. l : new[i] = st[i]
        /\ new[l + 1] = pointer[1]
    BY <1>2, <2>1, PushOne, Zenon
  <2>3. E2 = E \cup {s}
    BY <1>4
  <2> DEFINE src2 == [i \in 1 .. l + 1 |-> IF i = l + 1 THEN s ELSE src[i]]
  <2> HIDE DEF new, E2
  <2>4. src2 \in [1 .. Len(new) -> E2]
    BY <1>1, <1>2, <2>2, <2>3
  <2>5. \A i, j \in 1 .. Len(new) : src2[i] = src2[j] => i = j
    <3>0. \A i \in 1 .. l : i \in 1 .. l + 1 /\ i # l + 1
      BY <1>2
    <3>1. \A i \in 1 .. l : src2[i] = src[i] /\ src[i] \in E
      BY <1>1, <3>0
    <3>2. src2[l + 1] = s
      BY <1>2
    <3>3. \A i \in 1 .. l + 1 : i \in 1 .. l \/ i = l + 1
      BY <1>2
    <3> HIDE DEF src2
    <3> QED BY <1>1, <2>2, <3>1, <3>2, <3>3
  <2>6. \A x \in E2 : \E i \in 1 .. Len(new) : src2[i] = x
    <3>1. src2[l + 1] = s /\ l + 1 \in 1 .. l + 1
      BY <1>2
    <3>2. \A i \in 1 .. l : i \in 1 .. l + 1 /\ src2[i] = src[i]
      BY <1>2
    <3> HIDE DEF src2
    <3> QED BY <1>1, <2>2, <2>3, <3>1, <3>2
  <2>7. \A i \in 1 .. Len(new) : new[i] = Goal(f, root, src2[i])
    BY <1>1, <1>2, <1>4, <2>2
  <2> HIDE DEF src2
  <2>8. Matches(f, root, new, E2)
    BY <2>2, <2>4, <2>5, <2>6, <2>7 DEF Matches
  <2> QED BY <2>8 DEF new, E2
<1> QED
  BY <1>3, <1>4

LEMMA MatchEmpty ==
    ASSUME NEW f, NEW root, NEW E, Matches(f, root, <<>>, E)
    PROVE  E = {}
<1>1. PICK src \in [1 .. Len(<<>>) -> E] :
           \A s \in E : \E i \in 1 .. Len(<<>>) : src[i] = s
  BY DEF Matches
<1>2. 1 .. Len(<<>>) = {}
  OBVIOUS
<1> QED
  BY <1>1, <1>2

(* A walk has visited B, and D are the slots it has met: for some of them   *)
(* (G) it has been at the goal, the goals of the others are on the stack.   *)
Walked(f, root, st, D, B) ==
    \E G \in SUBSET D :
        /\ B = {Goal(f, root, s) : s \in G}
        /\ \A s, t \in G : Goal(f, root, s) = Goal(f, root, t) => s = t
        /\ Matches(f, root, st, D \ G)

LEMMA WalkedBegin ==
    ASSUME NEW f, NEW root \in Nat
    PROVE  Walked(f, root, <<root>>, {Origin}, {})
<1> DEFINE src == [i \in 1 .. 1 |-> Origin]
<1>1. Len(<<root>>) = 1 /\ <<root>> \in Seq(Nat) /\ <<root>>[1] = root
  OBVIOUS
<1>2. src \in [1 .. 1 -> {Origin}] /\ \A i \in 1 .. 1 : i = 1 /\ src[i] = Origin
  OBVIOUS
<1>3. Goal(f, root, Origin) = root
  BY DEF Goal
<1> HIDE DEF src
<1>4. Matches(f, root, <<root>>, {Origin})
  <2>1. src \in [1 .. Len(<<root>>) -> {Origin}]
    BY <1>1, <1>2
  <2>2. \A i, j \in 1 .. Len(<<root>>) : src[i] = src[j] => i = j
    BY <1>1, <1>2
  <2>3. \A s \in {Origin} : \E i \in 1 .. Len(<<root>>) : src[i] = s
    BY <1>1, <1>2
  <2>4. \A i \in 1 .. Len(<<root>>) : <<root>>[i] = Goal(f, root, src[i])
    BY <1>1, <1>2, <1>3
  <2> QED BY <1>1, <2>1, <2>2, <2>3, <2>4 DEF Matches
<1>5. {Origin} \ {} = {Origin} /\ {} \in SUBSET {Origin}
  OBVIOUS
<1> QED
  BY <1>4, <1>5 DEF Walked

(* A page is the goal of a slot met, or of two.                             *)
MetOnce(f, root, D, p) == \E s \in D : Goal(f, root, s) = p

MetTwice(f, root, D, p) ==
    \E s, t \in D : Goal(f, root, s) = p /\ Goal(f, root, t) = p /\ s # t

LEMMA WalkedNext ==
    ASSUME NEW f, NEW root, NEW st, NEW D, NEW B, Walked(f, root, st, D, B), st # <<>>
    PROVE  /\ MetOnce(f, root, D, Last(st))
           /\ Last(st) \in B => MetTwice(f, root, D, Last(st))
           /\ Last(st) \notin B => Walked(f, root, Front(st), D, B \cup {Last(st)})
<1>1. PICK G \in SUBSET D :
        /\ B = {Goal(f, root, s) : s \in G}
        /\ \A s, t \in G : Goal(f, root, s) = Goal(f, root, t) => s = t
        /\ Matches(f, root, st, D \ G)
  BY DEF Walked
<1>2. PICK s \in D \ G : /\ Goal(f, root, s) = Last(st)
                         /\ Matches(f, root, Front(st), (D \ G) \ {s})
  BY <1>1, MatchPop
<1>3. ASSUME Last(st) \in B
      PROVE  MetTwice(f, root, D, Last(st))
  <2>1. PICK t \in G : Goal(f, root, t) = Last(st)
    BY <1>1, <1>3
  <2> QED BY <1>2, <2>1 DEF MetTwice
<1>4. ASSUME Last(st) \notin B
      PROVE  Walked(f, root, Front(st), D, B \cup {Last(st)})
  <2> DEFINE G2 == G \cup {s}
  <2>1. G2 \in SUBSET D /\ D \ G2 = (D \ G) \ {s}
    OBVIOUS
  <2>2. B \cup {Last(st)} = {Goal(f, root, r) : r \in G2}
    BY <1>1, <1>2
  <2>3. \A r, t \in G2 : Goal(f, root, r) = Goal(f, root, t) => r = t
    BY <1>1, <1>2, <1>4
  <2> QED BY <1>2, <2>1, <2>2, <2>3 DEF Walked
<1> QED
  BY <1>2, <1>3, <1>4 DEF MetOnce

LEMMA WalkedPush ==
    ASSUME NEW f, NEW root, NEW st, NEW D, NEW B, Walked(f, root, st, D, B),
           NEW pointer \in Pointers, NEW s, s \notin D,
           pointer # <<>> => Goal(f, root, s) = pointer[1]
    PROVE  Walked(f, root, st \o pointer, D \cup {x \in {s} : pointer # <<>>}, B)
<1>1. PICK G \in SUBSET D :
        /\ B = {Goal(f, root, r) : r \in G}
        /\ \A r, t \in G : Goal(f, root, r) = Goal(f, root, t) => r = t
        /\ Matches(f, root, st, D \ G)
  BY DEF Walked
<1> DEFINE D2 == D \cup {x \in {s} : pointer # <<>>}
<1>2. D2 \ G = (D \ G) \cup {x \in {s} : pointer # <<>>} /\ G \in SUBSET D2
  BY <1>1
<1>3. Matches(f, root, st \o pointer, (D \ G) \cup {x \in {s} : pointer # <<>>})
  BY <1>1, MatchPush
<1> HIDE DEF D2
<1>4. Matches(f, root, st \o pointer, D2 \ G)
  BY <1>2, <1>3
<1>5. Walked(f, root, st \o pointer, D2, B)
  BY <1>1, <1>2, <1>4 DEF Walked
<1> QED
  BY <1>5 DEF D2

LEMMA WalkedEnd ==
    ASSUME NEW f, NEW root, NEW D, NEW B, Walked(f, root, <<>>, D, B)
    PROVE  /\ B = {Goal(f, root, s) : s \in D}
           /\ \A s, t \in D : Goal(f, root, s) = Goal(f, root, t) => s = t
<1>1. PICK G \in SUBSET D :
        /\ B = {Goal(f, root, r) : r \in G}
        /\ \A r, t \in G : Goal(f, root, r) = Goal(f, root, t) => r = t
        /\ Matches(f, root, <<>>, D \ G)
  BY DEF Walked
<1>2. D \ G = {}
  BY <1>1, MatchEmpty
<1>3. G = D
  BY <1>2
<1> QED
  BY <1>1, <1>3

----------------------------------------------------------------------------
(* Recursive functions.                                                     *)

(* The results of n steps, for n up to m.                                   *)
Results(a, step, m, w) ==
    w[0] = a /\ \A n \in 0 .. m - 1 : w[n + 1] = step[n][w[n]]

(* Repeating a step any number of times gives a function of the number.     *)
LEMMA Repeated ==
    ASSUME NEW A, NEW a \in A, NEW step \in [Nat -> [A -> A]], NEW m \in Nat
    PROVE  \E w \in [0 .. m -> A] : Results(a, step, m, w)
<1> DEFINE To(k, w) == /\ w \in [0 .. k -> A]
                       /\ w[0] = a
                       /\ \A n \in 0 .. k - 1 : w[n + 1] = step[n][w[n]]
           Far == {k \in Nat : \E w : To(k, w)}
<1>1. 0 \in Far
  <2> DEFINE w == [n \in 0 .. 0 |-> a]
  <2>1. To(0, w)
    OBVIOUS
  <2> QED BY <2>1
<1>2. ASSUME NEW k \in Nat, k \in Far
      PROVE  k + 1 \in Far
  <2>1. PICK w : To(k, w)
    BY <1>2
  <2> DEFINE x == step[k][w[k]]
             v == [n \in 0 .. k + 1 |-> IF n = k + 1 THEN x ELSE w[n]]
  <2>2. w[k] \in A /\ x \in A
    BY <2>1
  <2> HIDE DEF x
  <2>3. v \in [0 .. k + 1 -> A] /\ v[0] = a /\ v[k + 1] = x
    BY <2>1, <2>2
  <2>4. \A n \in 0 .. k : v[n] = w[n]
    OBVIOUS
  <2>5. \A n \in 0 .. k : n = k \/ (n \in 0 .. k - 1 /\ n + 1 \in 0 .. k)
    OBVIOUS
  <2> HIDE DEF v
  <2>6. \A n \in 0 .. k : v[n + 1] = step[n][v[n]]
    <3> SUFFICES ASSUME NEW n \in 0 .. k PROVE v[n + 1] = step[n][v[n]]
      OBVIOUS
    <3>1. CASE n = k
      BY <2>3, <2>4, <3>1 DEF x
    <3>2. CASE n \in 0 .. k - 1 /\ n + 1 \in 0 .. k
      <4>1. v[n + 1] = w[n + 1] /\ v[n] = w[n]
        BY <2>4, <3>2
      <4>2. w[n + 1] = step[n][w[n]]
        BY <2>1, <3>2
      <4> QED BY <4>1, <4>2
    <3> QED BY <2>5, <3>1, <3>2
  <2>7. (k + 1) - 1 = k
    OBVIOUS
  <2>8. To(k + 1, v)
    BY <2>3, <2>6, <2>7
  <2> HIDE DEF To
  <2> QED BY <2>8
<1>3. Nat \subseteq Far
  <2> HIDE DEF Far
  <2> QED BY <1>1, <1>2, NatInd
<1> QED
  BY <1>3 DEF Results

Flattened(seqs) ==
    CHOOSE flatten : flatten =
        [i \in 1 .. Len(seqs) |-> IF i = 1 THEN seqs[i] ELSE flatten[i - 1] \o seqs[i]]

LEMMA FlattenIs ==
    ASSUME NEW seqs
    PROVE  FlattenSeq(seqs) = IF Len(seqs) = 0 THEN seqs ELSE Flattened(seqs)[Len(seqs)]
BY DEF FlattenSeq, Flattened

(* Flattening appends one sequence after the other.                         *)
LEMMA FlattenSteps ==
    ASSUME NEW T, NEW seqs \in Seq(Seq(T))
    PROVE  \E w \in [0 .. Len(seqs) -> Seq(T)] :
               /\ w[0] = <<>>
               /\ \A n \in 0 .. Len(seqs) - 1 : w[n + 1] = w[n] \o seqs[n + 1]
               /\ FlattenSeq(seqs) = w[Len(seqs)]
<1> DEFINE l == Len(seqs)
           S == Seq(T)
           part(n) == IF n + 1 \in 1 .. l THEN seqs[n + 1] ELSE <<>>
           step == [n \in Nat |-> [x \in S |-> x \o part(n)]]
<1>1. l \in Nat /\ <<>> \in S
  OBVIOUS
<1>2. \A n \in 1 .. l : seqs[n] \in S
  OBVIOUS
<1>3. \A n \in Nat : part(n) \in S
  BY <1>1, <1>2
<1>4. \A u, v \in S : u \o v \in S
  OBVIOUS
<1> HIDE DEF l, S
<1>5. step \in [Nat -> [S -> S]]
  <2> HIDE DEF part
  <2> QED BY <1>3, <1>4
<1>6. PICK w \in [0 .. l -> S] :
          w[0] = <<>> /\ \A n \in 0 .. l - 1 : w[n + 1] = step[n][w[n]]
  <2> HIDE DEF step
  <2>1. \E w \in [0 .. l -> S] : Results(<<>>, step, l, w)
    BY <1>1, <1>5, Repeated
  <2> QED BY <2>1 DEF Results
<1>7. \A n \in 0 .. l - 1 : w[n + 1] = w[n] \o seqs[n + 1]
  <2> SUFFICES ASSUME NEW n \in 0 .. l - 1 PROVE w[n + 1] = w[n] \o seqs[n + 1]
    OBVIOUS
  <2>1. n \in Nat /\ n + 1 \in 1 .. l /\ w[n] \in S
    BY <1>1
  <2>2. part(n) = seqs[n + 1]
    BY <2>1
  <2> HIDE DEF part
  <2>3. step[n][w[n]] = w[n] \o part(n)
    BY <2>1
  <2> HIDE DEF step
  <2> QED BY <1>6, <2>2, <2>3
<1>8. FlattenSeq(seqs) = w[l]
  <2>1. CASE l = 0
    <3>1. seqs = <<>>
      BY <2>1, EmptySeq DEF l
    <3> QED BY <1>6, <2>1, <3>1, FlattenIs DEF l
  <2>2. CASE l # 0
    <3> DEFINE Step(u, i) == IF i = 1 THEN seqs[i] ELSE u[i - 1] \o seqs[i]
               u == [i \in 1 .. l |-> w[i]]
    <3>1. \A i \in 1 .. l : u[i] = Step(u, i)
      <4> SUFFICES ASSUME NEW i \in 1 .. l PROVE u[i] = Step(u, i)
        OBVIOUS
      <4>1. u[i] = w[i] /\ i - 1 \in 0 .. l - 1 /\ (i - 1) + 1 = i
        BY <1>1
      <4>2. w[i] = w[i - 1] \o seqs[i]
        BY <1>7, <4>1
      <4>3. CASE i = 1
        <5>1. seqs[1] \in S
          BY <1>2, <4>3
        <5>2. w[0] \o seqs[1] = seqs[1]
          BY <1>6, <5>1, ConcatEmptySeq DEF S
        <5>3. i - 1 = 0
          BY <4>3
        <5>4. w[i] = w[0] \o seqs[1]
          BY <4>2, <4>3, <5>3, Zenon
        <5> QED BY <4>1, <4>3, <5>2, <5>4, Zenon
      <4>4. CASE i # 1
        <5>1. i - 1 \in 1 .. l
          BY <1>1, <4>4
        <5>2. u[i - 1] = w[i - 1]
          BY <5>1
        <5> QED BY <4>1, <4>2, <4>4, <5>2
      <4> QED BY <4>3, <4>4
    <3>2. u = [i \in 1 .. l |-> Step(u, i)]
      BY <3>1
    <3> DEFINE F == Flattened(seqs)
    <3>3. F = [i \in 1 .. l |-> Step(F, i)]
      <4> HIDE DEF u
      <4> QED BY <3>2, Zenon DEF Flattened, l
    <3> DEFINE Same == {n \in Nat : n + 1 \in 1 .. l => F[n + 1] = w[n + 1]}
    <3> HIDE DEF F
    <3>4. 0 \in Same
      <4>1. 1 \in 1 .. l /\ u[1] = seqs[1] /\ u[1] = w[1]
        BY <1>1, <2>2, <3>1
      <4>2. F[1] = seqs[1]
        BY <3>3, <4>1
      <4> QED BY <4>1, <4>2
    <3>5. ASSUME NEW n \in Nat, n \in Same
          PROVE  n + 1 \in Same
      <4> SUFFICES ASSUME n + 2 \in 1 .. l PROVE F[n + 2] = w[n + 2]
        OBVIOUS
      <4>1. n + 1 \in 1 .. l /\ n + 1 \in 0 .. l - 1 /\ (n + 2) - 1 = n + 1 /\ n + 2 # 1
            /\ (n + 1) + 1 = n + 2
        BY <1>1
      <4>2. F[n + 1] = w[n + 1]
        BY <3>5, <4>1
      <4>3. F[n + 2] = F[n + 1] \o seqs[n + 2]
        BY <3>3, <4>1
      <4>4. w[n + 2] = w[n + 1] \o seqs[n + 2]
        BY <1>7, <4>1
      <4> QED BY <4>2, <4>3, <4>4
    <3>6. Nat \subseteq Same
      <4> HIDE DEF Same
      <4> QED BY <3>4, <3>5, NatInd
    <3>7. l - 1 \in Nat /\ (l - 1) + 1 = l /\ l \in 1 .. l
      BY <1>1, <2>2
    <3>8. F[l] = w[l]
      BY <3>6, <3>7
    <3> QED BY <2>2, <3>8, FlattenIs DEF l, F
  <2> QED BY <2>1, <2>2
<1> QED
  BY <1>6, <1>7, <1>8 DEF l, S

LEMMA ConcatAll ==
    ASSUME NEW T, NEW s \in Seq(T), NEW t \in Seq(T)
    PROVE  s \o t \in Seq(T) /\ ToSet(s \o t) = ToSet(s) \cup ToSet(t)
<1> DEFINE u == s \o t
           m == Len(s)
           n == Len(t)
<1>1. /\ u \in Seq(T) /\ m \in Nat /\ n \in Nat /\ DOMAIN u = 1 .. m + n
      /\ DOMAIN s = 1 .. m /\ DOMAIN t = 1 .. n
  BY ConcatProperties, LenProperties
<1>2. \A i \in 1 .. m + n : u[i] = IF i <= m THEN s[i] ELSE t[i - m]
  BY ConcatProperties
<1> HIDE DEF u, m, n
<1>3. ASSUME NEW i \in 1 .. m + n
      PROVE  u[i] \in ToSet(s) \cup ToSet(t)
  <2>1. CASE i <= m
    <3>1. i \in 1 .. m /\ u[i] = s[i]
      BY <1>1, <1>2, <2>1
    <3> QED BY <1>1, <3>1 DEF ToSet
  <2>2. CASE ~ (i <= m)
    <3>1. i - m \in 1 .. n /\ u[i] = t[i - m]
      BY <1>1, <1>2, <2>2
    <3> QED BY <1>1, <3>1 DEF ToSet
  <2> QED BY <2>1, <2>2
<1>4. ASSUME NEW i \in 1 .. m PROVE s[i] \in ToSet(u)
  <2>1. i \in 1 .. m + n /\ u[i] = s[i]
    BY <1>1, <1>2
  <2> QED BY <1>1, <2>1 DEF ToSet
<1>5. ASSUME NEW i \in 1 .. n PROVE t[i] \in ToSet(u)
  <2>1. i + m \in 1 .. m + n /\ ~ (i + m <= m) /\ (i + m) - m = i
    BY <1>1
  <2>2. u[i + m] = t[i]
    BY <1>2, <2>1
  <2> QED BY <1>1, <2>1, <2>2 DEF ToSet
<1>6. ToSet(u) = ToSet(s) \cup ToSet(t)
  BY <1>1, <1>3, <1>4, <1>5 DEF ToSet
<1> QED
  BY <1>1, <1>6 DEF u

LEMMA FlattenAll ==
    ASSUME NEW T, NEW seqs \in Seq(Seq(T))
    PROVE  /\ FlattenSeq(seqs) \in Seq(T)
           /\ ToSet(FlattenSeq(seqs)) = UNION {ToSet(seqs[i]) : i \in 1 .. Len(seqs)}
<1> DEFINE l == Len(seqs)
<1>1. PICK w \in [0 .. l -> Seq(T)] :
               /\ w[0] = <<>>
               /\ \A n \in 0 .. l - 1 : w[n + 1] = w[n] \o seqs[n + 1]
               /\ FlattenSeq(seqs) = w[l]
  BY FlattenSteps
<1>2. l \in Nat /\ \A i \in 1 .. l : seqs[i] \in Seq(T)
  OBVIOUS
<1> HIDE DEF l
<1> DEFINE Till(n) == UNION {ToSet(seqs[i]) : i \in 1 .. n}
           Good == {n \in Nat : n <= l => ToSet(w[n]) = Till(n)}
<1>3. 0 \in Good
  <2>1. ToSet(<<>>) = {} /\ Till(0) = {}
    BY DEF ToSet
  <2> QED BY <1>1, <2>1
<1>4. ASSUME NEW n \in Nat, n \in Good
      PROVE  n + 1 \in Good
  <2> SUFFICES ASSUME n + 1 <= l PROVE ToSet(w[n + 1]) = Till(n + 1)
    OBVIOUS
  <2>1. n \in 0 .. l - 1 /\ n + 1 \in 1 .. l /\ n \in 0 .. l /\ n <= l
    BY <1>2
  <2>2. w[n + 1] = w[n] \o seqs[n + 1] /\ w[n] \in Seq(T) /\ seqs[n + 1] \in Seq(T)
    BY <1>1, <1>2, <2>1
  <2>3. ToSet(w[n + 1]) = ToSet(w[n]) \cup ToSet(seqs[n + 1])
    BY <2>2, ConcatAll
  <2>4. 1 .. n + 1 = (1 .. n) \cup {n + 1}
    OBVIOUS
  <2>5. Till(n + 1) = Till(n) \cup ToSet(seqs[n + 1])
    BY <2>4, Zenon
  <2>6. ToSet(w[n]) = Till(n)
    BY <1>4, <2>1
  <2> QED BY <2>3, <2>5, <2>6
<1>5. Nat \subseteq Good
  <2> HIDE DEF Good
  <2> QED BY <1>3, <1>4, NatInd
<1>6. l \in Good /\ l <= l /\ l \in 0 .. l
  <2> HIDE DEF Good
  <2> QED BY <1>2, <1>5
<1>7. ToSet(w[l]) = Till(l) /\ w[l] \in Seq(T)
  BY <1>1, <1>6
<1> QED
  BY <1>1, <1>7 DEF l

LEMMA ConcatNumbers ==
    ASSUME NEW s \in Seq(Nat), NEW t \in Seq(Nat), NEW u \in Seq(Nat)
    PROVE  (s \o t) \o u = s \o (t \o u)
BY ConcatAssociative, SMTT(30)

(* The pointers of several cells are pushed.                                *)
Unmet(f, root, D, p, pointers) ==
    \A i \in 1 .. Len(pointers) :
        /\ <<p, i>> \notin D
        /\ pointers[i] # <<>> => Goal(f, root, <<p, i>>) = pointers[i][1]

Pushed(p, pointers) ==
    {<<p, i>> : i \in {j \in 1 .. Len(pointers) : pointers[j] # <<>>}}

LEMMA WalkedPushAll ==
    ASSUME NEW f, NEW root, NEW st, NEW D, NEW B, Walked(f, root, st, D, B),
           NEW p, NEW pointers \in Seq(Pointers), Unmet(f, root, D, p, pointers)
    PROVE  Walked(f, root, st \o FlattenSeq(pointers), D \cup Pushed(p, pointers), B)
<1>0. \A i \in 1 .. Len(pointers) :
          /\ <<p, i>> \notin D
          /\ pointers[i] # <<>> => Goal(f, root, <<p, i>>) = pointers[i][1]
  BY DEF Unmet
<1> DEFINE l == Len(pointers)
           Met(n) == D \cup {<<p, i>> : i \in {j \in 1 .. n : pointers[j] # <<>>}}
<1>1. l \in Nat /\ \A i \in 1 .. l : pointers[i] \in Pointers
  OBVIOUS
<1>2. Pointers \subseteq Seq(Nat) /\ st \in Seq(Nat)
  BY DEF Pointers, Walked, Matches
<1>3. pointers \in Seq(Seq(Nat))
  BY <1>2
<1>4. PICK w \in [0 .. l -> Seq(Nat)] :
               /\ w[0] = <<>>
               /\ \A n \in 0 .. l - 1 : w[n + 1] = w[n] \o pointers[n + 1]
               /\ FlattenSeq(pointers) = w[l]
  BY <1>3, FlattenSteps
<1> HIDE DEF l
<1> DEFINE Good == {n \in Nat : n <= l => Walked(f, root, st \o w[n], Met(n), B)}
<1>5. 0 \in Good
  <2>1. Met(0) = D
    OBVIOUS
  <2>2. st \o w[0] = st
    BY <1>2, <1>4, ConcatEmptySeq
  <2> HIDE DEF Met
  <2> QED BY <2>1, <2>2
<1>6. ASSUME NEW n \in Nat, n \in Good
      PROVE  n + 1 \in Good
  <2> SUFFICES ASSUME n + 1 <= l PROVE Walked(f, root, st \o w[n + 1], Met(n + 1), B)
    OBVIOUS
  <2> DEFINE pointer == pointers[n + 1]
             s == <<p, n + 1>>
  <2>1. n \in 0 .. l - 1 /\ n + 1 \in 1 .. l /\ n \in 0 .. l /\ n <= l
    BY <1>1
  <2>2. w[n + 1] = w[n] \o pointer /\ w[n] \in Seq(Nat) /\ pointer \in Pointers
    BY <1>1, <1>4, <2>1
  <2>3. st \o w[n + 1] = (st \o w[n]) \o pointer
    <3>1. pointer \in Seq(Nat)
      BY <1>2, <2>2
    <3>2. w[n + 1] = w[n] \o pointer /\ w[n] \in Seq(Nat) /\ st \in Seq(Nat)
      BY <1>2, <2>2
    <3> HIDE DEF pointer
    <3>3. (st \o w[n]) \o pointer = st \o (w[n] \o pointer)
      BY <3>1, <3>2, ConcatNumbers, Zenon
    <3> QED BY <3>2, <3>3, Zenon
  <2>4. s \notin Met(n)
    <3>1. s \notin D
      BY <1>0, <2>1 DEF l
    <3>2. \A i \in 1 .. n : i # n + 1
      OBVIOUS
    <3> QED BY <3>1, <3>2
  <2>5. pointer # <<>> => Goal(f, root, s) = pointer[1]
    BY <1>0, <2>1 DEF l
  <2>6. 1 .. n + 1 = (1 .. n) \cup {n + 1}
    OBVIOUS
  <2>7. Met(n + 1) = Met(n) \cup {x \in {s} : pointer # <<>>}
    BY <2>6
  <2>8. Walked(f, root, st \o w[n], Met(n), B)
    BY <1>6, <2>1
  <2> HIDE DEF Met, pointer, s
  <2>9. Walked(f, root, (st \o w[n]) \o pointer, Met(n) \cup {x \in {s} : pointer # <<>>}, B)
    BY <2>2, <2>4, <2>5, <2>8, WalkedPush
  <2> QED BY <2>3, <2>7, <2>9
<1>7. Nat \subseteq Good
  <2> HIDE DEF Good
  <2> QED BY <1>5, <1>6, NatInd
<1>8. l \in Good /\ l <= l
  <2> HIDE DEF Good
  <2> QED BY <1>1, <1>7
<1>9. Walked(f, root, st \o w[l], Met(l), B)
  BY <1>8
<1>10. Met(l) = D \cup Pushed(p, pointers)
  BY DEF Pushed, l
<1> HIDE DEF Met
<1> QED
  BY <1>4, <1>9, <1>10 DEF l

----------------------------------------------------------------------------
(* Files, and what is reached in them.                                      *)

LEMMA PgnoFacts == Pgno \subseteq Nat \ {0} /\ 0 \notin Pgno /\ 1 \in Pgno
BY SizeAssumption DEF Pgno

LEMMA FileFacts ==
    ASSUME NEW f \in Files
    PROVE  /\ f.freelist \in Nat
           /\ \A p \in Pgno :
                  /\ f.pages[p] \in Page
                  /\ f.pages[p].right \in Pointers
                  /\ f.pages[p].cells \in Seq(Cell)
                  /\ Len(f.pages[p].cells) \in Nat
                  /\ DOMAIN f.pages[p].cells = 1 .. Len(f.pages[p].cells)
                  /\ f.pages[p].next \in Nat
                  /\ f.pages[p].leaves \in Seq(Nat)
                  /\ \A i \in 1 .. Len(f.pages[p].cells) :
                         /\ f.pages[p].cells[i] \in Cell
                         /\ f.pages[p].cells[i].left \in Pointers
                         /\ f.pages[p].cells[i].need \in Nat
                         /\ f.pages[p].cells[i].row \in Row
                  /\ f.pages[p].right = <<>> =>
                         \A i \in 1 .. Len(f.pages[p].cells) : f.pages[p].cells[i].left = <<>>
<1>1. f.freelist \in Nat /\ f.pages \in [Pgno -> Page]
  BY FilesAssumption
<1> SUFFICES ASSUME NEW p \in Pgno
             PROVE  /\ f.pages[p] \in Page
                    /\ f.pages[p].right \in Pointers
                    /\ f.pages[p].cells \in Seq(Cell)
                    /\ Len(f.pages[p].cells) \in Nat
                    /\ DOMAIN f.pages[p].cells = 1 .. Len(f.pages[p].cells)
                    /\ f.pages[p].next \in Nat
                    /\ f.pages[p].leaves \in Seq(Nat)
                    /\ \A i \in 1 .. Len(f.pages[p].cells) :
                         /\ f.pages[p].cells[i] \in Cell
                         /\ f.pages[p].cells[i].left \in Pointers
                         /\ f.pages[p].cells[i].need \in Nat
                         /\ f.pages[p].cells[i].row \in Row
                    /\ f.pages[p].right = <<>> =>
                         \A i \in 1 .. Len(f.pages[p].cells) : f.pages[p].cells[i].left = <<>>
  BY <1>1, Zenon
<1> DEFINE page == f.pages[p]
<1>2. page \in Page
  BY <1>1
<1>3. page.right = <<>> => \A i \in DOMAIN page.cells : page.cells[i].left = <<>>
  BY FilesAssumption
<1> HIDE DEF page
<1>4. /\ page.right \in Pointers /\ page.cells \in Seq(Cell)
      /\ page.next \in Nat /\ page.leaves \in Seq(Nat)
  BY <1>2 DEF Page
<1> DEFINE c == page.cells
<1>5. c \in Seq(Cell)
  BY <1>4
<1> HIDE DEF c
<1>6. Len(c) \in Nat /\ DOMAIN c = 1 .. Len(c)
  BY <1>5, LenProperties
<1>7. \A i \in 1 .. Len(c) : c[i] \in Cell
  BY <1>5, ElementOfSeq
<1>8. \A cell \in Cell : cell.left \in Pointers /\ cell.need \in Nat /\ cell.row \in Row
  BY DEF Cell
<1>9. \A i \in 1 .. Len(c) : /\ c[i] \in Cell
                             /\ c[i].left \in Pointers
                             /\ c[i].need \in Nat
                             /\ c[i].row \in Row
  BY <1>7, <1>8, Zenon
<1> QED
  BY <1>2, <1>3, <1>4, <1>6, <1>9, Zenon DEF c, page

LEMMA SlotsAre ==
    ASSUME NEW f, NEW P, NEW s
    PROVE  s \in Slots(f, P) <=>
               \E p \in P \cap Pgno : \E i \in 0 .. Len(f.pages[p].cells) :
                   Down(f, p, i) # <<>> /\ s = <<p, i>>
<1> DEFINE Of(p) == {<<p, i>> : i \in {j \in 0 .. Len(f.pages[p].cells) : Down(f, p, j) # <<>>}}
<1>1. Slots(f, P) = UNION {Of(p) : p \in P \cap Pgno}
  BY DEF Slots
<1>2. s \in Slots(f, P) <=> \E p \in P \cap Pgno : s \in Of(p)
  <2> HIDE DEF Of
  <2> QED BY <1>1
<1>3. \A p : s \in Of(p) <=> \E i \in 0 .. Len(f.pages[p].cells) :
                                 Down(f, p, i) # <<>> /\ s = <<p, i>>
  BY Zenon
<1> HIDE DEF Of
<1> QED
  BY <1>2, <1>3, Zenon

LEMMA LinksAre ==
    ASSUME NEW f, NEW P, NEW k
    PROVE  k \in Links(f, P) <=>
               \E p \in P \cap Pgno : \E i \in DOMAIN f.pages[p].cells :
                   \E j \in 1 .. f.pages[p].cells[i].need : k = <<p, i, j>>
<1> DEFINE OfCell(p, i) == {<<p, i, j>> : j \in 1 .. f.pages[p].cells[i].need}
           Of(p) == UNION {OfCell(p, i) : i \in DOMAIN f.pages[p].cells}
<1>1. Links(f, P) = UNION {Of(p) : p \in P \cap Pgno}
  BY DEF Links
<1>2. \A p, i : k \in OfCell(p, i) <=> \E j \in 1 .. f.pages[p].cells[i].need : k = <<p, i, j>>
  BY Zenon
<1> HIDE DEF OfCell
<1>3. \A p : k \in Of(p) <=> \E i \in DOMAIN f.pages[p].cells : k \in OfCell(p, i)
  BY Zenon
<1> HIDE DEF Of
<1>4. k \in Links(f, P) <=> \E p \in P \cap Pgno : k \in Of(p)
  BY <1>1, Zenon
<1> QED
  BY <1>2, <1>3, <1>4, Zenon

LEMMA SlotsGrow ==
    ASSUME NEW f, NEW P, NEW Q, P \subseteq Q
    PROVE  Slots(f, P) \subseteq Slots(f, Q) /\ Links(f, P) \subseteq Links(f, Q)
<1>1. ASSUME NEW s \in Slots(f, P) PROVE s \in Slots(f, Q)
  <2>1. PICK p \in P \cap Pgno : \E i \in 0 .. Len(f.pages[p].cells) :
                                     Down(f, p, i) # <<>> /\ s = <<p, i>>
    BY SlotsAre
  <2>2. p \in Q \cap Pgno
    OBVIOUS
  <2> QED BY <2>1, <2>2, SlotsAre, Zenon
<1>2. ASSUME NEW k \in Links(f, P) PROVE k \in Links(f, Q)
  <2>1. PICK p \in P \cap Pgno :
            \E i \in DOMAIN f.pages[p].cells :
                \E j \in 1 .. f.pages[p].cells[i].need : k = <<p, i, j>>
    BY LinksAre
  <2>2. p \in Q \cap Pgno
    OBVIOUS
  <2> QED BY <2>1, <2>2, LinksAre, Zenon
<1> QED
  BY <1>1, <1>2

LEMMA OriginIsNone ==
    ASSUME NEW f, NEW P PROVE Origin \notin Slots(f, P)
<1> SUFFICES ASSUME Origin \in Slots(f, P) PROVE FALSE
  OBVIOUS
<1>1. PICK p \in P \cap Pgno : \E i \in 0 .. Len(f.pages[p].cells) : Origin = <<p, i>>
  BY SlotsAre
<1>2. p = 0
  BY <1>1 DEF Origin
<1> QED
  BY <1>2, PgnoFacts

LEMMA SlotGoal ==
    ASSUME NEW f, NEW root, NEW P, NEW s \in Slots(f, P)
    PROVE  Goal(f, root, s) = Target(f, s)
BY OriginIsNone DEF Goal

LEMMA TreeLeast ==
    ASSUME NEW f, NEW root
    PROVE  /\ root \in Tree(f, root)
           /\ Closed(f, Tree(f, root))
           /\ \A P : root \in P /\ Closed(f, P) => Tree(f, root) \subseteq P
<1> DEFINE all == {root} \cup {Target(f, s) : s \in Slots(f, Pgno)}
           tree == {p \in all : \A P \in SUBSET all : root \in P /\ Closed(f, P) => p \in P}
<1>1. Tree(f, root) = tree
  BY DEF Tree
<1>2. root \in tree
  OBVIOUS
<1>3. \A P : Slots(f, P) \subseteq Slots(f, Pgno)
  <2> TAKE P
  <2>1. Slots(f, P) = Slots(f, P \cap Pgno)
    <3>1. (P \cap Pgno) \cap Pgno = P \cap Pgno
      OBVIOUS
    <3> QED BY <3>1 DEF Slots
  <2> QED BY <2>1, SlotsGrow
<1>4. Closed(f, tree)
  <2> SUFFICES ASSUME NEW s \in Slots(f, tree) PROVE Target(f, s) \in tree
    BY DEF Closed
  <2>1. Target(f, s) \in all
    BY <1>3
  <2>2. ASSUME NEW P \in SUBSET all, root \in P, Closed(f, P)
        PROVE  Target(f, s) \in P
    <3>1. tree \subseteq P
      BY <2>2
    <3> HIDE DEF tree
    <3>2. s \in Slots(f, P)
      BY <3>1, SlotsGrow
    <3> QED BY <2>2, <3>2 DEF Closed
  <2> QED BY <2>1, <2>2
<1>5. ASSUME NEW P, root \in P, Closed(f, P)
      PROVE  tree \subseteq P
  <2> DEFINE Q == P \cap all
  <2>1. Q \in SUBSET all /\ root \in Q
    BY <1>5
  <2>2. Closed(f, Q)
    <3> SUFFICES ASSUME NEW s \in Slots(f, Q) PROVE Target(f, s) \in Q
      BY DEF Closed
    <3>1. Q \subseteq P
      OBVIOUS
    <3>2. s \in Slots(f, P) /\ s \in Slots(f, Pgno)
      <4> HIDE DEF Q
      <4> QED BY <1>3, <3>1, SlotsGrow
    <3>3. Target(f, s) \in P
      BY <1>5, <3>2 DEF Closed
    <3> QED BY <3>2, <3>3
  <2>3. \A p \in tree : p \in Q
    BY <2>1, <2>2
  <2> QED BY <2>3
<1> HIDE DEF tree
<1> QED
  BY <1>1, <1>2, <1>4, <1>5

----------------------------------------------------------------------------
(* One walk.                                                                *)

(* What a walk has met that has found the pages B and passed the cells      *)
(* before the n-th of page c.                                               *)
Met(f, B, c, n) == {Origin} \cup {s \in Slots(f, B) : s[1] = c => s[2] < n}

MetLinks(f, B, c, n) == {k \in Links(f, B) : k[1] = c => k[2] < n}

(* The cells ahead are those of page c from the n-th on.                    *)
Ahead(f, ce, B, c, n) ==
    \/ /\ c \in B
       /\ n \in 1 .. Len(f.pages[c].cells) + 1
       /\ ce = SubSeq(f.pages[c].cells, n, Len(f.pages[c].cells))
    \/ B = {} /\ ce = <<>>

(* A walk from root on a file: stack, cells, visited, b-tree and overflow   *)
(* pages.                                                                   *)
WalkAt(f, root, st, ce, vi, B, O) ==
    /\ B \subseteq Tree(f, root) \cap Pgno
    /\ \A p \in B : f.pages[p].type # "other"
    /\ O \subseteq Pgno /\ O \cap B = {} /\ vi = B \cup O
    /\ \E c, n \in Nat :
           /\ Ahead(f, ce, B, c, n)
           /\ Walked(f, root, st, Met(f, B, c, n), B)
           /\ O = {Linked(f, k) : k \in MetLinks(f, B, c, n)}
           /\ \A k, l \in MetLinks(f, B, c, n) : Linked(f, k) = Linked(f, l) => k = l

LEMMA RestFacts ==
    ASSUME NEW T, NEW C \in Seq(T), NEW n \in 1 .. Len(C) + 1
    PROVE  /\ SubSeq(C, n, Len(C)) = <<>> => n = Len(C) + 1
           /\ SubSeq(C, n, Len(C)) # <<>> =>
                  /\ n \in 1 .. Len(C)
                  /\ Head(SubSeq(C, n, Len(C))) = C[n]
                  /\ Tail(SubSeq(C, n, Len(C))) = SubSeq(C, n + 1, Len(C))
           /\ SubSeq(C, 1, Len(C)) = C
<1> DEFINE l == Len(C)
           r == SubSeq(C, n, l)
<1>1. l \in Nat /\ n \in Nat
  OBVIOUS
<1>2. /\ r \in Seq(T) /\ Len(r) = l - n + 1
      /\ \A i \in 1 .. l - n + 1 : r[i] = C[n + i - 1]
  <2>1. n \in 1 .. l + 1 /\ (n <= l \/ n = l + 1)
    BY <1>1
  <2>2. CASE n <= l
    BY <1>1, <2>2
  <2>3. CASE n = l + 1
    <3>1. r = <<>> /\ 1 .. l - n + 1 = {} /\ l - n + 1 = 0
      BY <1>1, <2>3
    <3> QED BY <3>1
  <2> QED BY <2>1, <2>2, <2>3
<1>3. r = <<>> => n = l + 1
  <2> HIDE DEF r, l
  <2>1. r = <<>> => Len(r) = 0
    OBVIOUS
  <2> QED BY <1>1, <1>2, <2>1
<1>4. r # <<>> => n \in 1 .. l
  <2> HIDE DEF r, l
  <2>1. r # <<>> => Len(r) # 0
    BY <1>2, EmptySeq
  <2> QED BY <1>1, <1>2, <2>1
<1>5. r # <<>> => Head(r) = C[n]
  <2> SUFFICES ASSUME r # <<>> PROVE Head(r) = C[n]
    OBVIOUS
  <2>1. n \in 1 .. l /\ 1 \in 1 .. l - n + 1 /\ n + 1 - 1 = n
    BY <1>1, <1>4
  <2>2. r[1] = C[n]
    BY <1>2, <2>1
  <2> QED BY <2>2
<1>6. r # <<>> => Tail(r) = SubSeq(C, n + 1, l)
  <2> SUFFICES ASSUME r # <<>> PROVE Tail(r) = SubSeq(C, n + 1, l)
    OBVIOUS
  <2> QED BY <1>1, <1>4
<1>7. SubSeq(C, 1, l) = C
  BY <1>1
<1> QED
  BY <1>3, <1>4, <1>5, <1>6, <1>7

LEMMA MetInTree ==
    ASSUME NEW f, NEW root, NEW B, B \subseteq Tree(f, root), NEW c, NEW n,
           NEW s \in Met(f, B, c, n)
    PROVE  Goal(f, root, s) \in Tree(f, root)
<1>1. CASE s = Origin
  BY <1>1, TreeLeast DEF Goal
<1>2. CASE s \in Slots(f, B)
  BY <1>2, SlotsGrow, SlotGoal, TreeLeast DEF Closed
<1> QED
  BY <1>1, <1>2 DEF Met

(* A goal met twice is met by two pointers of the tree, or it is the root.  *)
LEMMA TwiceIsImproper ==
    ASSUME NEW f, NEW root, NEW B, B \subseteq Tree(f, root), NEW c, NEW n,
           NEW s \in Met(f, B, c, n), NEW t \in Met(f, B, c, n), s # t,
           Goal(f, root, s) = Goal(f, root, t)
    PROVE  ~ ProperTree(f, root)
<1> SUFFICES ASSUME ProperTree(f, root) PROVE FALSE
  OBVIOUS
<1> DEFINE tree == Tree(f, root)
<1>1. /\ \A r \in Slots(f, tree) : Target(f, r) # root
      /\ \A r, u \in Slots(f, tree) : Target(f, r) = Target(f, u) => r = u
  BY Zenon DEF ProperTree
<1>2. \A r \in Met(f, B, c, n) : r = Origin \/ (r \in Slots(f, tree) /\ r # Origin)
  BY SlotsGrow, OriginIsNone DEF Met
<1>3. \A r \in Slots(f, tree) : Goal(f, root, r) = Target(f, r)
  BY SlotGoal
<1>4. Goal(f, root, Origin) = root
  BY DEF Goal
<1> HIDE DEF tree
<1> QED
  BY <1>1, <1>2, <1>3, <1>4

LEMMA MetAll ==
    ASSUME NEW f \in Files, NEW B, B \subseteq Pgno, NEW c, NEW n, Ahead(f, <<>>, B, c, n)
    PROVE  Met(f, B, c, n) = {Origin} \cup Slots(f, B) /\ MetLinks(f, B, c, n) = Links(f, B)
<1>1. CASE B = {}
  <2>1. Slots(f, B) = {} /\ Links(f, B) = {}
    BY <1>1, SlotsAre, LinksAre
  <2> QED BY <2>1 DEF Met, MetLinks
<1>2. CASE B # {}
  <2>1. /\ c \in B /\ n \in 1 .. Len(f.pages[c].cells) + 1
        /\ SubSeq(f.pages[c].cells, n, Len(f.pages[c].cells)) = <<>>
    BY <1>2 DEF Ahead
  <2>2. f.pages[c].cells \in Seq(Cell) /\ Len(f.pages[c].cells) \in Nat
        /\ DOMAIN f.pages[c].cells = 1 .. Len(f.pages[c].cells)
    BY <2>1, FileFacts
  <2>3. n = Len(f.pages[c].cells) + 1
    BY <2>1, <2>2, RestFacts
  <2>4. ASSUME NEW s \in Slots(f, B), s[1] = c PROVE s[2] < n
    <3>1. PICK p \in B \cap Pgno : \E i \in 0 .. Len(f.pages[p].cells) : s = <<p, i>>
      BY SlotsAre
    <3>2. s[2] \in 0 .. Len(f.pages[c].cells)
      BY <2>4, <3>1
    <3> QED BY <2>2, <2>3, <3>2
  <2>5. ASSUME NEW k \in Links(f, B), k[1] = c PROVE k[2] < n
    <3>1. PICK p \in B \cap Pgno :
              \E i \in DOMAIN f.pages[p].cells :
                  \E j \in 1 .. f.pages[p].cells[i].need : k = <<p, i, j>>
      BY LinksAre
    <3>2. k[2] \in 1 .. Len(f.pages[c].cells)
      BY <2>2, <2>5, <3>1
    <3> QED BY <2>2, <2>3, <3>2
  <2> QED BY <2>4, <2>5 DEF Met, MetLinks
<1> QED
  BY <1>1, <1>2

LEMMA WalkBegins ==
    ASSUME NEW f, NEW root \in Nat
    PROVE  WalkAt(f, root, <<root>>, <<>>, {}, {}, {})
<1>1. Slots(f, {}) = {} /\ Links(f, {}) = {}
  BY SlotsAre, LinksAre
<1>2. Met(f, {}, 0, 0) = {Origin} /\ MetLinks(f, {}, 0, 0) = {}
  BY <1>1 DEF Met, MetLinks
<1>3. Walked(f, root, <<root>>, Met(f, {}, 0, 0), {})
  BY <1>2, WalkedBegin
<1>4. Ahead(f, <<>>, {}, 0, 0)
  BY DEF Ahead
<1>5. \E c, n \in Nat :
           /\ Ahead(f, <<>>, {}, c, n)
           /\ Walked(f, root, <<root>>, Met(f, {}, c, n), {})
           /\ {} = {Linked(f, k) : k \in MetLinks(f, {}, c, n)}
           /\ \A k, l \in MetLinks(f, {}, c, n) : Linked(f, k) = Linked(f, l) => k = l
  BY <1>2, <1>3, <1>4
<1> QED
  BY <1>5 DEF WalkAt

(* With no cell ahead, a page that is popped is one of the tree.            *)
LEMMA PopMeets ==
    ASSUME NEW f \in Files, NEW root, NEW st, NEW vi, NEW B, NEW O,
           WalkAt(f, root, st, <<>>, vi, B, O), st # <<>>
    PROVE  /\ Last(st) \in Tree(f, root)
           /\ Last(st) \in B => ~ ProperTree(f, root)
<1>1. PICK c, n \in Nat : Walked(f, root, st, Met(f, B, c, n), B)
  BY DEF WalkAt
<1>2. B \subseteq Tree(f, root)
  BY DEF WalkAt
<1> DEFINE D == Met(f, B, c, n)
<1> HIDE DEF D
<1>0. Walked(f, root, st, D, B)
  BY <1>1 DEF D
<1>3. PICK s \in D : Goal(f, root, s) = Last(st)
  BY <1>0, WalkedNext DEF MetOnce
<1>4. Last(st) \in Tree(f, root)
  BY <1>2, <1>3, MetInTree DEF D
<1>5. ASSUME Last(st) \in B PROVE ~ ProperTree(f, root)
  <2>1. PICK r, t \in D : /\ Goal(f, root, r) = Last(st)
                                        /\ Goal(f, root, t) = Last(st)
                                        /\ r # t
    <3>1. MetTwice(f, root, D, Last(st))
      BY <1>0, <1>5, WalkedNext
    <3> QED BY <3>1 DEF MetTwice
  <2> QED BY <1>2, <2>1, TwiceIsImproper DEF D
<1> QED
  BY <1>4, <1>5

(* The links met are links of the tree: their pages are none of its own.    *)
LEMMA LinksMeet ==
    ASSUME NEW f, NEW root, NEW B, B \subseteq Tree(f, root), NEW k \in Links(f, B),
           ProperTree(f, root)
    PROVE  /\ k \in Links(f, Tree(f, root))
           /\ Linked(f, k) \in Pgno \ Tree(f, root)
<1>1. k \in Links(f, Tree(f, root))
  BY SlotsGrow
<1> QED
  BY <1>1, Zenon DEF ProperTree

LEMMA PopFails ==
    ASSUME NEW f \in Files, NEW root, NEW st, NEW vi, NEW B, NEW O,
           WalkAt(f, root, st, <<>>, vi, B, O), st # <<>>,
           ~ (Last(st) \in Pgno /\ Last(st) \notin vi /\ f.pages[Last(st)].type # "other")
    PROVE  ~ ProperTree(f, root)
<1> SUFFICES ASSUME ProperTree(f, root) PROVE FALSE
  OBVIOUS
<1>1. Last(st) \in Tree(f, root) /\ Last(st) \notin B
  BY PopMeets
<1>2. Last(st) \in Pgno /\ f.pages[Last(st)].type # "other"
  BY <1>1, Zenon DEF ProperTree
<1>3. Last(st) \in O
  BY <1>1, <1>2 DEF WalkAt
<1>4. PICK c, n \in Nat : O = {Linked(f, k) : k \in MetLinks(f, B, c, n)}
  BY DEF WalkAt
<1>5. PICK k \in MetLinks(f, B, c, n) : Linked(f, k) = Last(st)
  BY <1>3, <1>4
<1>6. B \subseteq Tree(f, root) /\ k \in Links(f, B)
  BY DEF WalkAt, MetLinks
<1>7. Last(st) \notin Tree(f, root)
  BY <1>5, <1>6, LinksMeet
<1> QED
  BY <1>1, <1>7

LEMMA PopWalks ==
    ASSUME NEW f \in Files, NEW root, NEW st, NEW vi, NEW B, NEW O,
           WalkAt(f, root, st, <<>>, vi, B, O), st # <<>>,
           NEW p, p = Last(st), p \in Pgno, p \notin vi, f.pages[p].type # "other"
    PROVE  WalkAt(f, root, Front(st) \o f.pages[p].right, f.pages[p].cells,
                  vi \cup {p}, B \cup {p}, O)
<1> DEFINE B2 == B \cup {p}
           C == f.pages[p].cells
           right == f.pages[p].right
           s == <<p, 0>>
<1>1. PICK c, n \in Nat :
           /\ Ahead(f, <<>>, B, c, n)
           /\ Walked(f, root, st, Met(f, B, c, n), B)
           /\ O = {Linked(f, k) : k \in MetLinks(f, B, c, n)}
           /\ \A k, l \in MetLinks(f, B, c, n) : Linked(f, k) = Linked(f, l) => k = l
  BY DEF WalkAt
<1>2. B \subseteq Tree(f, root) \cap Pgno /\ p \notin B
  BY DEF WalkAt
<1>3. Met(f, B, c, n) = {Origin} \cup Slots(f, B) /\ MetLinks(f, B, c, n) = Links(f, B)
  BY <1>1, <1>2, MetAll
<1>4. Walked(f, root, Front(st), {Origin} \cup Slots(f, B), B2)
  BY <1>1, <1>2, <1>3, WalkedNext
<1>5. C \in Seq(Cell) /\ right \in Pointers /\ p \in Nat \ {0} /\ Len(C) \in Nat
      /\ DOMAIN C = 1 .. Len(C)
  BY FileFacts, PgnoFacts
<1>6. s # Origin /\ s \notin Slots(f, B)
  <2>1. s # Origin
    BY <1>5 DEF Origin
  <2>2. \A x \in Slots(f, B) : x[1] \in B
    BY SlotsAre
  <2>3. s[1] = p
    OBVIOUS
  <2> QED BY <1>2, <2>1, <2>2, <2>3
<1>7. right # <<>> => Goal(f, root, s) = right[1]
  BY <1>6 DEF Goal, Target, Down
<1>8. Met(f, B2, p, 1) = ({Origin} \cup Slots(f, B)) \cup {x \in {s} : right # <<>>}
  <2>1. ASSUME NEW x \in Slots(f, B2), x[1] = p => x[2] < 1
        PROVE  x \in Slots(f, B) \/ (x = s /\ right # <<>>)
    <3>1. PICK q \in B2 \cap Pgno :
              \E i \in 0 .. Len(f.pages[q].cells) : Down(f, q, i) # <<>> /\ x = <<q, i>>
      BY SlotsAre
    <3>2. CASE q \in B
      BY <3>1, <3>2, SlotsAre
    <3>3. CASE q = p
      <4>1. PICK i \in 0 .. Len(C) : Down(f, p, i) # <<>> /\ x = <<p, i>>
        BY <3>1, <3>3
      <4>2. i = 0
        BY <2>1, <4>1, <1>5
      <4> QED BY <4>1, <4>2 DEF Down
    <3> QED BY <3>2, <3>3
  <2>2. ASSUME NEW x \in Slots(f, B) PROVE x \in Slots(f, B2) /\ (x[1] = p => x[2] < 1)
    <3>1. x[1] \in B
      BY SlotsAre
    <3> QED BY <1>2, <3>1, SlotsGrow
  <2>3. ASSUME right # <<>> PROVE s \in Slots(f, B2) /\ (s[1] = p => s[2] < 1)
    <3>1. p \in B2 \cap Pgno /\ 0 \in 0 .. Len(f.pages[p].cells) /\ Down(f, p, 0) # <<>>
      BY <1>5, <2>3 DEF Down
    <3> QED BY <3>1, SlotsAre
  <2> HIDE DEF s, B2, right
  <2> QED BY <2>1, <2>2, <2>3 DEF Met
<1>9. MetLinks(f, B2, p, 1) = Links(f, B)
  <2>1. ASSUME NEW k \in Links(f, B2), k[1] = p => k[2] < 1
        PROVE  k \in Links(f, B)
    <3>1. PICK q \in B2 \cap Pgno :
              \E i \in DOMAIN f.pages[q].cells :
                  \E j \in 1 .. f.pages[q].cells[i].need : k = <<q, i, j>>
      BY LinksAre
    <3>2. CASE q \in B
      BY <3>1, <3>2, LinksAre
    <3>3. CASE q = p
      <4>1. k[1] = p /\ k[2] \in 1 .. Len(C)
        BY <1>5, <3>1, <3>3
      <4> QED BY <1>5, <2>1, <4>1
    <3> QED BY <3>2, <3>3
  <2>2. ASSUME NEW k \in Links(f, B) PROVE k \in Links(f, B2) /\ (k[1] = p => k[2] < 1)
    <3>1. k[1] \in B
      BY LinksAre
    <3> QED BY <1>2, <3>1, SlotsGrow
  <2> HIDE DEF B2
  <2> QED BY <2>1, <2>2 DEF MetLinks
<1>10. Walked(f, root, Front(st) \o right, Met(f, B2, p, 1), B2)
  <2>1. s \notin {Origin} \cup Slots(f, B)
    BY <1>6
  <2> HIDE DEF s, right, B2
  <2> QED BY <1>4, <1>5, <1>7, <1>8, <2>1, WalkedPush
<1>11. Ahead(f, C, B2, p, 1)
  <2>1. 1 \in 1 .. Len(C) + 1
    BY <1>5
  <2>2. C = SubSeq(C, 1, Len(C))
    BY <1>5, <2>1, RestFacts
  <2> QED BY <2>1, <2>2, Zenon DEF Ahead
<1>12. p \in Tree(f, root)
  BY PopMeets
<1>13. /\ \A q \in B : f.pages[q].type # "other"
       /\ O \subseteq Pgno /\ O \cap B = {} /\ vi = B \cup O
  BY DEF WalkAt
<1>14. \E d, m \in Nat :
           /\ Ahead(f, C, B2, d, m)
           /\ Walked(f, root, Front(st) \o right, Met(f, B2, d, m), B2)
           /\ O = {Linked(f, k) : k \in MetLinks(f, B2, d, m)}
           /\ \A k, l \in MetLinks(f, B2, d, m) : Linked(f, k) = Linked(f, l) => k = l
  <2>1. /\ O = {Linked(f, k) : k \in MetLinks(f, B2, p, 1)}
        /\ \A k, l \in MetLinks(f, B2, p, 1) : Linked(f, k) = Linked(f, l) => k = l
    <3>1. MetLinks(f, B2, p, 1) = MetLinks(f, B, c, n)
      BY <1>3, <1>9
    <3> HIDE DEF B2
    <3> QED BY <1>1, <3>1, Zenon
  <2> HIDE DEF B2, right, C
  <2> QED BY <1>5, <1>10, <1>11, <2>1
<1>15. /\ B2 \subseteq Tree(f, root) \cap Pgno
       /\ \A q \in B2 : f.pages[q].type # "other"
       /\ O \cap B2 = {} /\ vi \cup {p} = B2 \cup O
  BY <1>2, <1>12, <1>13
<1> HIDE DEF B2, right, C
<1>16. WalkAt(f, root, Front(st) \o right, C, vi \cup {p}, B2, O)
  BY <1>13, <1>14, <1>15 DEF WalkAt
<1> QED
  BY <1>16 DEF B2, right, C

LEMMA ChainFacts ==
    ASSUME NEW f, NEW cell
    PROVE  /\ DOMAIN Chain(f, cell) = 1 .. cell.need
           /\ ToSet(Chain(f, cell)) = {Chain(f, cell)[j] : j \in 1 .. cell.need}
           /\ IsInjective(Chain(f, cell)) <=>
                  \A i, j \in 1 .. cell.need : Chain(f, cell)[i] = Chain(f, cell)[j] => i = j
<1>1. DOMAIN Chain(f, cell) = 1 .. cell.need
  BY DEF Chain
<1> QED
  BY <1>1, Zenon DEF ToSet, IsInjective

(* With a cell ahead: what it adds to the slots and links met.              *)
CellAdds(f, ce, B, c, n) ==
    /\ Head(ce).left \in Pointers
    /\ Ahead(f, Tail(ce), B, c, n + 1)
    /\ <<c, n>> \notin Met(f, B, c, n)
    /\ Met(f, B, c, n + 1) =
           Met(f, B, c, n) \cup {x \in {<<c, n>>} : Head(ce).left # <<>>}
    /\ MetLinks(f, B, c, n + 1) =
           MetLinks(f, B, c, n) \cup {<<c, n, j>> : j \in 1 .. Head(ce).need}
    /\ \A j \in 1 .. Head(ce).need :
           /\ <<c, n, j>> \notin MetLinks(f, B, c, n)
           /\ Linked(f, <<c, n, j>>) = Chain(f, Head(ce))[j]
    /\ \A root : Goal(f, root, <<c, n>>) = Head(ce).left[1]

LEMMA CellMeets ==
    ASSUME NEW f \in Files, NEW ce, NEW B, B \subseteq Pgno, NEW c, NEW n,
           Ahead(f, ce, B, c, n), ce # <<>>
    PROVE  CellAdds(f, ce, B, c, n)
<1> DEFINE C == f.pages[c].cells
<1>1. c \in B /\ n \in 1 .. Len(C) + 1 /\ ce = SubSeq(C, n, Len(C))
  BY DEF Ahead
<1>2. /\ C \in Seq(Cell) /\ Len(C) \in Nat /\ DOMAIN C = 1 .. Len(C)
      /\ \A i \in 1 .. Len(C) : C[i].left \in Pointers
      /\ c \in Nat \ {0}
  BY <1>1, FileFacts, PgnoFacts
<1>3. n \in 1 .. Len(C) /\ Head(ce) = C[n] /\ Tail(ce) = SubSeq(C, n + 1, Len(C))
  <2> HIDE DEF C
  <2> QED BY <1>1, <1>2, RestFacts
<1>4. n \in Nat \ {0} /\ n + 1 \in 1 .. Len(C) + 1
  BY <1>2, <1>3
<1>5. Ahead(f, Tail(ce), B, c, n + 1)
  BY <1>1, <1>3, <1>4, Zenon DEF Ahead
<1> DEFINE cell == Head(ce)
           s == <<c, n>>
<1>6. s # Origin /\ s[1] = c /\ s[2] = n /\ ~ (n < n)
  BY <1>2, <1>4 DEF Origin
<1>7. s \notin Met(f, B, c, n)
  BY <1>6 DEF Met
<1>8. Down(f, c, n) = cell.left
  BY <1>3, <1>4 DEF Down
<1>9. s \in Slots(f, B) <=> cell.left # <<>>
  <2>1. ASSUME s \in Slots(f, B) PROVE cell.left # <<>>
    <3>1. PICK p \in B \cap Pgno : \E i \in 0 .. Len(f.pages[p].cells) :
                                     Down(f, p, i) # <<>> /\ s = <<p, i>>
      BY <2>1, SlotsAre
    <3>2. Down(f, c, n) # <<>>
      BY <3>1
    <3> QED BY <1>8, <3>2
  <2>2. ASSUME cell.left # <<>> PROVE s \in Slots(f, B)
    <3>1. c \in B \cap Pgno /\ n \in 0 .. Len(f.pages[c].cells) /\ Down(f, c, n) # <<>>
      BY <1>1, <1>2, <1>3, <1>8, <2>2
    <3> QED BY <3>1, SlotsAre
  <2> QED BY <2>1, <2>2
<1>10. Met(f, B, c, n + 1) = Met(f, B, c, n) \cup {x \in {s} : cell.left # <<>>}
  <2>1. ASSUME NEW x \in Slots(f, B), x[1] = c
        PROVE  x[2] < n + 1 <=> (x[2] < n \/ x = s)
    <3>1. PICK p \in B \cap Pgno : \E i \in 0 .. Len(f.pages[p].cells) : x = <<p, i>>
      BY SlotsAre
    <3>2. PICK i \in 0 .. Len(C) : x = <<c, i>>
      BY <2>1, <3>1
    <3>3. x[2] = i /\ i \in Nat
      BY <1>2, <3>2
    <3>4. i < n + 1 <=> (i < n \/ i = n)
      BY <1>4, <3>3
    <3>5. x = s <=> i = n
      BY <3>2
    <3> QED BY <3>3, <3>4, <3>5
  <2> HIDE DEF s, cell
  <2>2. ASSUME NEW x \in Slots(f, B)
        PROVE  (x[1] = c => x[2] < n + 1) <=> ((x[1] = c => x[2] < n) \/ x = s)
    BY <1>6, <2>1
  <2> QED BY <1>9, <2>2 DEF Met
<1> DEFINE new == {<<c, n, j>> : j \in 1 .. cell.need}
<1>11. \A k \in new : k \in Links(f, B) /\ k[1] = c /\ k[2] = n
  <2> SUFFICES ASSUME NEW j \in 1 .. cell.need
               PROVE  <<c, n, j>> \in Links(f, B)
    OBVIOUS
  <2>1. /\ c \in B \cap Pgno /\ n \in DOMAIN f.pages[c].cells
        /\ j \in 1 .. f.pages[c].cells[n].need
    BY <1>1, <1>2, <1>3
  <2> QED BY <2>1, LinksAre
<1>12. MetLinks(f, B, c, n + 1) = MetLinks(f, B, c, n) \cup new
  <2>1. ASSUME NEW k \in Links(f, B), k[1] = c
        PROVE  k[2] < n + 1 <=> (k[2] < n \/ k \in new)
    <3>1. PICK p \in B \cap Pgno :
              \E i \in DOMAIN f.pages[p].cells :
                  \E j \in 1 .. f.pages[p].cells[i].need : k = <<p, i, j>>
      BY LinksAre
    <3>2. p = c
      BY <2>1, <3>1
    <3>3. PICK i \in 1 .. Len(C) : \E j \in 1 .. C[i].need : k = <<c, i, j>>
      BY <1>2, <3>1, <3>2
    <3>4. k[2] = i /\ i \in Nat
      BY <1>2, <3>3
    <3>5. i < n + 1 <=> (i < n \/ i = n)
      BY <1>4, <3>4
    <3>6. i = n => k \in new
      BY <1>3, <3>3
    <3>7. k \in new => i = n
      BY <1>11, <3>4
    <3> HIDE DEF new
    <3> QED BY <3>4, <3>5, <3>6, <3>7
  <2>2. \A k \in new : k \in Links(f, B) /\ k[1] = c
    BY <1>11
  <2> HIDE DEF new
  <2>3. ASSUME NEW k \in Links(f, B)
        PROVE  (k[1] = c => k[2] < n + 1) <=> ((k[1] = c => k[2] < n) \/ k \in new)
    BY <2>1, <2>2
  <2> QED BY <2>2, <2>3 DEF MetLinks
<1>13. \A k \in new : k \notin MetLinks(f, B, c, n)
  <2> HIDE DEF new
  <2> QED BY <1>6, <1>11 DEF MetLinks
<1>14. \A j \in 1 .. cell.need : Linked(f, <<c, n, j>>) = Chain(f, cell)[j]
  BY <1>3 DEF Linked
<1>15. \A root : Goal(f, root, s) = cell.left[1]
  BY <1>6, <1>8 DEF Goal, Target
<1>16. cell.left \in Pointers
  BY <1>2, <1>3
<1>17. \A j \in 1 .. cell.need : <<c, n, j>> \notin MetLinks(f, B, c, n)
  BY <1>13
<1> HIDE DEF new
<1> QED
  BY <1>5, <1>7, <1>10, <1>12, <1>14, <1>15, <1>16, <1>17, Zenon DEF new, CellAdds

LEMMA WalkVisits ==
    ASSUME NEW f \in Files, NEW root, NEW st, NEW ce, NEW vi, NEW B, NEW O,
           WalkAt(f, root, st, ce, vi, B, O), ce # <<>>,
           ToSet(Chain(f, Head(ce))) \subseteq Pgno \ vi, IsInjective(Chain(f, Head(ce)))
    PROVE  WalkAt(f, root, st \o Head(ce).left, Tail(ce),
                  vi \cup ToSet(Chain(f, Head(ce))), B, O \cup ToSet(Chain(f, Head(ce))))
<1> DEFINE chain == Chain(f, Head(ce))
           need == Head(ce).need
           left == Head(ce).left
           O2 == O \cup ToSet(chain)
<1>1. /\ B \subseteq Tree(f, root) \cap Pgno
      /\ \A p \in B : f.pages[p].type # "other"
      /\ O \subseteq Pgno /\ O \cap B = {} /\ vi = B \cup O
  BY DEF WalkAt
<1>2. PICK c, n \in Nat :
           /\ Ahead(f, ce, B, c, n)
           /\ Walked(f, root, st, Met(f, B, c, n), B)
           /\ O = {Linked(f, k) : k \in MetLinks(f, B, c, n)}
           /\ \A k, l \in MetLinks(f, B, c, n) : Linked(f, k) = Linked(f, l) => k = l
  BY DEF WalkAt
<1> DEFINE s == <<c, n>>
           new == {<<c, n, j>> : j \in 1 .. need}
           M == Met(f, B, c, n)
           K == MetLinks(f, B, c, n)
           K2 == MetLinks(f, B, c, n + 1)
<1>3. /\ left \in Pointers
      /\ Ahead(f, Tail(ce), B, c, n + 1)
      /\ s \notin M
      /\ Met(f, B, c, n + 1) = M \cup {x \in {s} : left # <<>>}
      /\ K2 = K \cup new
      /\ \A j \in 1 .. need : Linked(f, <<c, n, j>>) = chain[j]
      /\ left # <<>> => Goal(f, root, s) = left[1]
  <2>1. B \subseteq Pgno
    BY <1>1
  <2>2. CellAdds(f, ce, B, c, n)
    BY <1>2, <2>1, CellMeets
  <2> QED BY <2>2, Zenon DEF CellAdds
<1>4. Walked(f, root, st \o left, Met(f, B, c, n + 1), B)
  <2> HIDE DEF s, M, left
  <2>1. Walked(f, root, st, M, B)
    BY <1>2 DEF M
  <2>2. Walked(f, root, st \o left, M \cup {x \in {s} : left # <<>>}, B)
    BY <1>3, <2>1, WalkedPush
  <2> QED BY <1>3, <2>2
<1>5. ToSet(chain) = {chain[j] : j \in 1 .. need}
      /\ \A i, j \in 1 .. need : chain[i] = chain[j] => i = j
  <2>1. /\ ToSet(chain) = {chain[j] : j \in 1 .. need}
        /\ IsInjective(chain) <=> \A i, j \in 1 .. need : chain[i] = chain[j] => i = j
    BY ChainFacts
  <2> QED BY <2>1, Zenon
<1>6. ToSet(chain) = {Linked(f, k) : k \in new}
  <2>1. \A x : x \in ToSet(chain) <=> \E j \in 1 .. need : x = chain[j]
    BY <1>5, Zenon
  <2>2. \A x : x \in {Linked(f, k) : k \in new} <=>
                   \E j \in 1 .. need : x = Linked(f, <<c, n, j>>)
    BY Zenon
  <2>3. \A j \in 1 .. need : Linked(f, <<c, n, j>>) = chain[j]
    BY <1>3
  <2> HIDE DEF chain, need, new
  <2> QED BY <2>1, <2>2, <2>3
<1>7. O2 = {Linked(f, k) : k \in K2}
  <2> HIDE DEF new, K, K2, chain
  <2>1. O = {Linked(f, k) : k \in K}
    BY <1>2 DEF K
  <2> QED BY <1>3, <1>6, <2>1
<1>8. \A k, l \in new : Linked(f, k) = Linked(f, l) => k = l
  BY <1>3, <1>5
<1>9. \A k \in K, l \in new : Linked(f, k) # Linked(f, l)
  <2> HIDE DEF new, K, chain
  <2>1. O = {Linked(f, k) : k \in K}
    BY <1>2 DEF K
  <2>2. \A k \in K : Linked(f, k) \in vi
    BY <1>1, <2>1
  <2>3. \A l \in new : Linked(f, l) \notin vi
    BY <1>6 DEF chain
  <2> QED BY <2>2, <2>3
<1>10. \A k, l \in K2 : Linked(f, k) = Linked(f, l) => k = l
  <2> HIDE DEF new, K, K2, chain
  <2>1. \A k, l \in K : Linked(f, k) = Linked(f, l) => k = l
    BY <1>2 DEF K
  <2> QED BY <1>3, <1>8, <1>9, <2>1
<1>11. O2 \subseteq Pgno /\ O2 \cap B = {} /\ vi \cup ToSet(chain) = B \cup O2
  BY <1>1
<1> HIDE DEF O2, chain, left
<1>12. WalkAt(f, root, st \o left, Tail(ce), vi \cup ToSet(chain), B, O2)
  <2>1. n + 1 \in Nat
    OBVIOUS
  <2>2. \E d, m \in Nat :
           /\ Ahead(f, Tail(ce), B, d, m)
           /\ Walked(f, root, st \o left, Met(f, B, d, m), B)
           /\ O2 = {Linked(f, k) : k \in MetLinks(f, B, d, m)}
           /\ \A k, l \in MetLinks(f, B, d, m) : Linked(f, k) = Linked(f, l) => k = l
    BY <1>3, <1>4, <1>7, <1>10, <2>1, Zenon DEF K2
  <2> QED BY <1>1, <1>11, <2>2 DEF WalkAt
<1> QED
  BY <1>12 DEF O2, chain, left

LEMMA CellFails ==
    ASSUME NEW f \in Files, NEW root, NEW st, NEW ce, NEW vi, NEW B, NEW O,
           WalkAt(f, root, st, ce, vi, B, O), ce # <<>>,
           ~ (/\ ToSet(Chain(f, Head(ce))) \subseteq Pgno \ vi
              /\ IsInjective(Chain(f, Head(ce))))
    PROVE  ~ ProperTree(f, root)
<1> SUFFICES ASSUME ProperTree(f, root) PROVE FALSE
  OBVIOUS
<1> DEFINE chain == Chain(f, Head(ce))
           need == Head(ce).need
<1>1. /\ B \subseteq Tree(f, root) \cap Pgno
      /\ vi = B \cup O
  BY DEF WalkAt
<1>2. PICK c, n \in Nat :
           /\ Ahead(f, ce, B, c, n)
           /\ O = {Linked(f, k) : k \in MetLinks(f, B, c, n)}
  BY DEF WalkAt
<1>3. /\ MetLinks(f, B, c, n + 1) =
            MetLinks(f, B, c, n) \cup {<<c, n, j>> : j \in 1 .. need}
      /\ \A j \in 1 .. need : /\ <<c, n, j>> \notin MetLinks(f, B, c, n)
                              /\ Linked(f, <<c, n, j>>) = chain[j]
  <2>1. B \subseteq Pgno
    BY <1>1
  <2>2. CellAdds(f, ce, B, c, n)
    BY <1>2, <2>1, CellMeets
  <2> QED BY <2>2, Zenon DEF CellAdds
<1>4. \A k \in Links(f, B) : k \in Links(f, Tree(f, root)) /\ Linked(f, k) \in Pgno \ Tree(f, root)
  BY <1>1, LinksMeet
<1>5. \A k, l \in Links(f, B) : Linked(f, k) = Linked(f, l) => k = l
  BY <1>4, Zenon DEF ProperTree
<1>6. \A j \in 1 .. need : <<c, n, j>> \in Links(f, B)
  BY <1>3 DEF MetLinks
<1>7. \A j \in 1 .. need : chain[j] \in Pgno \ vi
  <2> SUFFICES ASSUME NEW j \in 1 .. need PROVE chain[j] \in Pgno \ vi
    OBVIOUS
  <2>1. chain[j] = Linked(f, <<c, n, j>>) /\ <<c, n, j>> \in Links(f, B)
    BY <1>3, <1>6
  <2>2. chain[j] \in Pgno \ B
    BY <1>1, <1>4, <2>1
  <2>3. ASSUME chain[j] \in O PROVE FALSE
    <3>1. PICK k \in MetLinks(f, B, c, n) : Linked(f, k) = chain[j]
      BY <1>2, <2>3
    <3>2. k \in Links(f, B)
      BY DEF MetLinks
    <3>3. k = <<c, n, j>>
      BY <1>5, <2>1, <3>1, <3>2
    <3> QED BY <1>3, <3>3
  <2> QED BY <1>1, <2>2, <2>3
<1>8. \A i, j \in 1 .. need : chain[i] = chain[j] => i = j
  <2> SUFFICES ASSUME NEW i \in 1 .. need, NEW j \in 1 .. need, chain[i] = chain[j]
               PROVE  i = j
    OBVIOUS
  <2>1. <<c, n, i>> = <<c, n, j>>
    BY <1>3, <1>5, <1>6
  <2> QED BY <2>1
<1>9. /\ ToSet(chain) = {chain[j] : j \in 1 .. need}
      /\ IsInjective(chain) <=> \A i, j \in 1 .. need : chain[i] = chain[j] => i = j
  BY ChainFacts
<1> QED
  BY <1>7, <1>8, <1>9

(* A walk that ends has found the tree, and the tree is one.                *)
LEMMA WalkEnds ==
    ASSUME NEW f \in Files, NEW root, NEW vi, NEW B, NEW O,
           WalkAt(f, root, <<>>, <<>>, vi, B, O)
    PROVE  /\ ProperTree(f, root)
           /\ B = Tree(f, root)
           /\ O = {Linked(f, k) : k \in Links(f, B)}
<1>1. PICK c, n \in Nat :
           /\ Ahead(f, <<>>, B, c, n)
           /\ Walked(f, root, <<>>, Met(f, B, c, n), B)
           /\ O = {Linked(f, k) : k \in MetLinks(f, B, c, n)}
           /\ \A k, l \in MetLinks(f, B, c, n) : Linked(f, k) = Linked(f, l) => k = l
  BY DEF WalkAt
<1>2. /\ B \subseteq Tree(f, root) \cap Pgno
      /\ \A p \in B : f.pages[p].type # "other"
      /\ O \subseteq Pgno /\ O \cap B = {} /\ vi = B \cup O
  BY DEF WalkAt
<1> DEFINE M == {Origin} \cup Slots(f, B)
<1>3. Met(f, B, c, n) = M /\ MetLinks(f, B, c, n) = Links(f, B)
  BY <1>1, <1>2, MetAll
<1>4. Walked(f, root, <<>>, M, B)
  BY <1>1, <1>3
<1>5. /\ B = {Goal(f, root, s) : s \in M}
      /\ \A s, t \in M : Goal(f, root, s) = Goal(f, root, t) => s = t
  <2> HIDE DEF M
  <2> QED BY <1>4, WalkedEnd
<1>6. Goal(f, root, Origin) = root /\ \A s \in Slots(f, B) : Goal(f, root, s) = Target(f, s)
  BY SlotGoal DEF Goal
<1>7. root \in B
  BY <1>5, <1>6
<1>8. Closed(f, B)
  BY <1>5, <1>6 DEF Closed
<1>9. B = Tree(f, root)
  BY <1>2, <1>7, <1>8, TreeLeast
<1>10. \A s \in Slots(f, B) : Target(f, s) # root
  BY <1>5, <1>6, OriginIsNone
<1>11. \A s, t \in Slots(f, B) : Target(f, s) = Target(f, t) => s = t
  BY <1>5, <1>6
<1>12. /\ O = {Linked(f, k) : k \in Links(f, B)}
       /\ \A k, l \in Links(f, B) : Linked(f, k) = Linked(f, l) => k = l
  BY <1>1, <1>3, Zenon
<1>13. \A k \in Links(f, B) : Linked(f, k) \in Pgno \ B
  BY <1>2, <1>12
<1>14. ProperTree(f, root)
  BY <1>2, <1>9, <1>10, <1>11, <1>12, <1>13, Zenon DEF ProperTree
<1> QED
  BY <1>9, <1>12, <1>14

----------------------------------------------------------------------------
(* The freelist.                                                            *)

LEMMA TrunkSteps ==
    ASSUME NEW f \in Files
    PROVE  /\ Trunks(f) \in [0 .. PageCount -> Nat]
           /\ Trunks(f)[0] = f.freelist
           /\ \A n \in 0 .. PageCount - 1 :
                  Trunks(f)[n + 1] = IF Trunks(f)[n] \in Pgno
                                     THEN f.pages[Trunks(f)[n]].next ELSE Trunks(f)[n]
<1> DEFINE After(t) == IF t \in Pgno THEN f.pages[t].next ELSE t
           step == [n \in Nat |-> [t \in Nat |-> After(t)]]
           Step(u, n) == IF n = 0 THEN f.freelist ELSE After(u[n - 1])
           link == CHOOSE u : u = [n \in 0 .. PageCount |-> Step(u, n)]
<1>1. f.freelist \in Nat /\ \A t \in Nat : After(t) \in Nat
  BY FileFacts
<1>2. Trunks(f) = link
  BY DEF Trunks
<1> HIDE DEF After
<1>3. step \in [Nat -> [Nat -> Nat]] /\ \A n, t \in Nat : step[n][t] = After(t)
  BY <1>1
<1>4. PageCount \in Nat
  BY SizeAssumption
<1>5. PICK w \in [0 .. PageCount -> Nat] : Results(f.freelist, step, PageCount, w)
  <2> HIDE DEF step
  <2> QED BY <1>1, <1>3, <1>4, Repeated
<1>6. /\ w[0] = f.freelist
      /\ \A n \in 0 .. PageCount - 1 : w[n + 1] = After(w[n])
  <2> HIDE DEF step
  <2>1. w[0] = f.freelist /\ \A n \in 0 .. PageCount - 1 : w[n + 1] = step[n][w[n]]
    BY <1>5, Zenon DEF Results
  <2>2. \A n \in 0 .. PageCount - 1 : n \in Nat /\ w[n] \in Nat
    BY <1>4
  <2> QED BY <1>3, <2>1, <2>2
<1>7. w = [n \in 0 .. PageCount |-> Step(w, n)]
  <2> SUFFICES ASSUME NEW n \in 0 .. PageCount PROVE w[n] = Step(w, n)
    BY Zenon
  <2>1. CASE n = 0
    BY <1>6, <2>1
  <2>2. CASE n # 0
    <3>1. n - 1 \in 0 .. PageCount - 1 /\ (n - 1) + 1 = n
      BY <1>4, <2>2
    <3>2. w[(n - 1) + 1] = After(w[n - 1])
      BY <1>6, <3>1
    <3> QED BY <2>2, <3>1, <3>2
  <2> QED BY <2>1, <2>2
<1>8. link = [n \in 0 .. PageCount |-> Step(link, n)]
  <2> HIDE DEF Step
  <2> QED BY <1>7, Zenon
<1> HIDE DEF link
<1>9. \A n \in 0 .. PageCount : link[n] = Step(link, n)
  BY <1>8
<1>10. \A n \in 0 .. PageCount - 1 : link[n + 1] = After(link[n])
  <2> SUFFICES ASSUME NEW n \in 0 .. PageCount - 1 PROVE link[n + 1] = After(link[n])
    OBVIOUS
  <2>1. n + 1 \in 0 .. PageCount /\ n + 1 # 0 /\ (n + 1) - 1 = n
    BY <1>4
  <2> QED BY <1>9, <2>1
<1>11. link[0] = f.freelist
  BY <1>4, <1>9
<1> DEFINE Good == {n \in Nat : n <= PageCount => link[n] \in Nat}
<1>12. 0 \in Good
  BY <1>1, <1>11
<1>13. ASSUME NEW n \in Nat, n \in Good PROVE n + 1 \in Good
  <2> SUFFICES ASSUME n + 1 <= PageCount PROVE link[n + 1] \in Nat
    OBVIOUS
  <2>1. n \in 0 .. PageCount - 1 /\ n <= PageCount
    BY <1>4
  <2> QED BY <1>1, <1>10, <1>13, <2>1
<1>14. Nat \subseteq Good
  <2> HIDE DEF Good
  <2> QED BY <1>12, <1>13, NatInd
<1>15. link \in [0 .. PageCount -> Nat]
  <2>1. \A n \in 0 .. PageCount : link[n] \in Nat
    BY <1>4, <1>14
  <2> HIDE DEF Step
  <2> QED BY <1>8, <2>1
<1> QED
  BY <1>2, <1>10, <1>11, <1>15 DEF After

(* The chain ends where it leaves the file.                                 *)
LEMMA TrunkStays ==
    ASSUME NEW f \in Files, NEW g \in 0 .. PageCount, Trunks(f)[g] \notin Pgno,
           NEW m \in g .. PageCount
    PROVE  Trunks(f)[m] = Trunks(f)[g]
<1> DEFINE Good == {k \in Nat : g + k <= PageCount => Trunks(f)[g + k] = Trunks(f)[g]}
<1>0. PageCount \in Nat
  BY SizeAssumption
<1>1. 0 \in Good
  OBVIOUS
<1>2. ASSUME NEW k \in Nat, k \in Good PROVE k + 1 \in Good
  <2> SUFFICES ASSUME g + (k + 1) <= PageCount
               PROVE  Trunks(f)[g + (k + 1)] = Trunks(f)[g]
    OBVIOUS
  <2>1. g + k \in 0 .. PageCount - 1 /\ g + k <= PageCount /\ g + (k + 1) = (g + k) + 1
    BY <1>0
  <2>2. Trunks(f)[g + k] = Trunks(f)[g]
    BY <1>2, <2>1
  <2>3. Trunks(f)[(g + k) + 1] = Trunks(f)[g + k]
    BY <2>1, <2>2, TrunkSteps
  <2> QED BY <2>1, <2>2, <2>3
<1>3. Nat \subseteq Good
  <2> HIDE DEF Good
  <2> QED BY <1>1, <1>2, NatInd
<1>4. m - g \in Nat /\ g + (m - g) = m /\ m <= PageCount
  BY <1>0
<1> QED
  BY <1>3, <1>4

FreeBefore(f, g) == UNION {Freed(f, Trunks(f)[m]) : m \in 0 .. g - 1}

Base(f, p) == IF p \in FreePages(f) THEN <<"freelist">> ELSE Reserved(p)

(* The freelist has been read up to its g-th trunk page t.                  *)
FreeAt(f, t, g, mp) ==
    /\ g \in 0 .. PageCount
    /\ t = Trunks(f)[g]
    /\ \A m \in 0 .. g - 1 : /\ Trunks(f)[m] \in Pgno
                             /\ ToSet(f.pages[Trunks(f)[m]].leaves) \subseteq Pgno
    /\ mp = [p \in Pgno |-> IF p \in FreeBefore(f, g) THEN <<"freelist">> ELSE Reserved(p)]

FreeOk(f) == Trunks(f)[PageCount] = 0 /\ FreePages(f) \subseteq Pgno

LEMMA FreeBegins ==
    ASSUME NEW f \in Files
    PROVE  FreeAt(f, f.freelist, 0, [p \in Pgno |-> Reserved(p)])
<1>1. FreeBefore(f, 0) = {}
  BY DEF FreeBefore
<1>2. 0 \in 0 .. PageCount /\ 0 .. 0 - 1 = {}
  BY SizeAssumption
<1> QED
  BY <1>1, <1>2, TrunkSteps DEF FreeAt

LEMMA FreeSteps ==
    ASSUME NEW f \in Files, NEW t, NEW g, NEW mp, FreeAt(f, t, g, mp),
           t \in Pgno, g < PageCount, ToSet(f.pages[t].leaves) \subseteq Pgno
    PROVE  FreeAt(f, f.pages[t].next, g + 1,
                  [p \in Pgno |-> IF p \in {t} \cup ToSet(f.pages[t].leaves)
                                  THEN <<"freelist">> ELSE mp[p]])
<1>1. /\ g \in 0 .. PageCount /\ PageCount \in Nat
      /\ t = Trunks(f)[g]
      /\ \A m \in 0 .. g - 1 : /\ Trunks(f)[m] \in Pgno
                               /\ ToSet(f.pages[Trunks(f)[m]].leaves) \subseteq Pgno
      /\ \A p \in Pgno : mp[p] = IF p \in FreeBefore(f, g) THEN <<"freelist">> ELSE Reserved(p)
  BY SizeAssumption DEF FreeAt
<1>2. g \in 0 .. PageCount - 1 /\ g + 1 \in 0 .. PageCount /\ (g + 1) - 1 = g
      /\ 0 .. g = (0 .. g - 1) \cup {g}
  BY <1>1
<1>3. Trunks(f)[g + 1] = f.pages[t].next
  BY <1>1, <1>2, TrunkSteps
<1>4. FreeBefore(f, g + 1) = FreeBefore(f, g) \cup Freed(f, t)
  <2>1. \A x : x \in FreeBefore(f, g + 1) <=> \E m \in 0 .. g : x \in Freed(f, Trunks(f)[m])
    BY <1>2 DEF FreeBefore
  <2>2. \A x : x \in FreeBefore(f, g) <=> \E m \in 0 .. g - 1 : x \in Freed(f, Trunks(f)[m])
    BY DEF FreeBefore
  <2> QED BY <1>1, <1>2, <2>1, <2>2
<1>5. \A p \in Pgno : (IF p \in {t} \cup ToSet(f.pages[t].leaves) THEN <<"freelist">> ELSE mp[p])
                    = (IF p \in FreeBefore(f, g + 1) THEN <<"freelist">> ELSE Reserved(p))
  BY <1>1, <1>4 DEF Freed
<1>6. \A m \in 0 .. (g + 1) - 1 :
          /\ Trunks(f)[m] \in Pgno
          /\ ToSet(f.pages[Trunks(f)[m]].leaves) \subseteq Pgno
  BY <1>1, <1>2
<1> QED
  BY <1>2, <1>3, <1>5, <1>6 DEF FreeAt

LEMMA FreeFails ==
    ASSUME NEW f \in Files, NEW t, NEW g, NEW mp, FreeAt(f, t, g, mp), t # 0,
           \/ t \notin Pgno
           \/ g = PageCount
           \/ t \in Pgno /\ ~ ToSet(f.pages[t].leaves) \subseteq Pgno
    PROVE  ~ FreeOk(f)
<1>1. g \in 0 .. PageCount /\ PageCount \in Nat /\ t = Trunks(f)[g] /\ PageCount \in g .. PageCount
  BY SizeAssumption DEF FreeAt
<1>2. CASE t \notin Pgno
  BY <1>1, <1>2, TrunkStays DEF FreeOk
<1>3. CASE g = PageCount
  BY <1>1, <1>3 DEF FreeOk
<1>4. CASE t \in Pgno /\ ~ ToSet(f.pages[t].leaves) \subseteq Pgno
  <2>1. DOMAIN Trunks(f) = 0 .. PageCount
    BY TrunkSteps
  <2>2. t \in ToSet(Trunks(f)) \cap Pgno
    BY <1>1, <1>4, <2>1 DEF ToSet
  <2>3. Freed(f, t) \subseteq FreePages(f)
    BY <2>2 DEF FreePages
  <2> QED BY <1>4, <2>3 DEF Freed, FreeOk
<1> QED
  BY <1>2, <1>3, <1>4

LEMMA FreeEnds ==
    ASSUME NEW f \in Files, NEW g, NEW mp, FreeAt(f, 0, g, mp)
    PROVE  FreeOk(f) /\ mp = [p \in Pgno |-> Base(f, p)]
<1>1. /\ g \in 0 .. PageCount /\ PageCount \in Nat /\ Trunks(f)[g] = 0
      /\ \A m \in 0 .. g - 1 : /\ Trunks(f)[m] \in Pgno
                               /\ ToSet(f.pages[Trunks(f)[m]].leaves) \subseteq Pgno
  BY SizeAssumption DEF FreeAt
<1>2. \A m \in g .. PageCount : Trunks(f)[m] = 0
  BY <1>1, PgnoFacts, TrunkStays
<1>3. \A m \in 0 .. PageCount : m \in 0 .. g - 1 \/ m \in g .. PageCount
  BY <1>1
<1>4. DOMAIN Trunks(f) = 0 .. PageCount
  BY TrunkSteps
<1>5. ASSUME NEW x
      PROVE  x \in FreePages(f) <=> x \in FreeBefore(f, g)
  <2>1. x \in FreePages(f) <=>
            \E m \in 0 .. PageCount : Trunks(f)[m] \in Pgno /\ x \in Freed(f, Trunks(f)[m])
    BY <1>4 DEF FreePages, ToSet
  <2>2. x \in FreeBefore(f, g) <=> \E m \in 0 .. g - 1 : x \in Freed(f, Trunks(f)[m])
    BY DEF FreeBefore
  <2>3. \A m \in 0 .. g - 1 : m \in 0 .. PageCount
    BY <1>1
  <2> QED BY <1>1, <1>2, <1>3, <2>1, <2>2, <2>3, PgnoFacts
<1>6. FreePages(f) = FreeBefore(f, g)
  BY <1>5
<1>7. FreeBefore(f, g) \subseteq Pgno
  BY <1>1 DEF FreeBefore, Freed
<1>8. Trunks(f)[PageCount] = 0
  BY <1>1, <1>2
<1> QED
  BY <1>6, <1>7, <1>8 DEF FreeOk, Base, FreeAt

----------------------------------------------------------------------------
(* Reading the schema.                                                      *)

LeafRows(f, P) ==
    UNION {{cell.row : cell \in ToSet(f.pages[p].cells)} :
              p \in {q \in P \cap Pgno : f.pages[q].right = <<>>}}

(* The pages R of the schema have been read, and the objects rw found.      *)
ReadAt(f, st, g, rw) ==
    /\ rw \in Seq(Row)
    /\ \E R \in SUBSET Tree(f, 1) :
           /\ g = Cardinality(R)
           /\ Walked(f, 1, st, {Origin} \cup Slots(f, R), R)
           /\ \A p \in R : f.pages[p].type = "table"
           /\ \A row \in LeafRows(f, R) : row.name # NoName
           /\ ToSet(rw) = {row \in LeafRows(f, R) : OwnsTree(row)}

(* What SoundFile asks of the schema's own pages. *)
SchemaOk(f) ==
    /\ ProperTree(f, 1)
    /\ \A p \in Tree(f, 1) \cap Pgno : f.pages[p].type = "table"
    /\ \A row \in SchemaRows(f) : row.name # NoName

LEMMA LeafRowsAre ==
    ASSUME NEW f \in Files, NEW P, NEW row
    PROVE  row \in LeafRows(f, P) <=>
               \E p \in P \cap Pgno :
                   /\ f.pages[p].right = <<>>
                   /\ \E i \in 1 .. Len(f.pages[p].cells) : row = f.pages[p].cells[i].row
<1> DEFINE Of(p) == {cell.row : cell \in ToSet(f.pages[p].cells)}
<1>1. LeafRows(f, P) = UNION {Of(p) : p \in {q \in P \cap Pgno : f.pages[q].right = <<>>}}
  BY DEF LeafRows
<1>2. ASSUME NEW p \in Pgno
      PROVE  row \in Of(p) <=> \E i \in 1 .. Len(f.pages[p].cells) : row = f.pages[p].cells[i].row
  <2>1. DOMAIN f.pages[p].cells = 1 .. Len(f.pages[p].cells)
    BY FileFacts
  <2> QED BY <2>1, Zenon DEF ToSet
<1> HIDE DEF Of
<1>3. row \in LeafRows(f, P) <=>
          \E p \in P \cap Pgno : f.pages[p].right = <<>> /\ row \in Of(p)
  BY <1>1
<1> QED
  BY <1>2, <1>3

LEMMA SchemaRowsAre == ASSUME NEW f PROVE SchemaRows(f) = LeafRows(f, Tree(f, 1))
BY DEF SchemaRows, SchemaLeaves, LeafRows

LEMMA ReadBegins ==
    ASSUME NEW f \in Files
    PROVE  ReadAt(f, <<1>>, 0, <<>>)
<1>1. Slots(f, {}) = {} /\ LeafRows(f, {}) = {}
  BY SlotsAre, LeafRowsAre
<1>2. Walked(f, 1, <<1>>, {Origin} \cup Slots(f, {}), {})
  <2>1. {Origin} \cup Slots(f, {}) = {Origin}
    BY <1>1
  <2> QED BY <2>1, WalkedBegin
<1>3. Cardinality({}) = 0 /\ <<>> \in Seq(Row) /\ ToSet(<<>>) = {}
  BY FS_EmptySet DEF ToSet
<1>4. /\ {} \in SUBSET Tree(f, 1)
      /\ \A p \in {} : f.pages[p].type = "table"
      /\ \A row \in LeafRows(f, {}) : row.name # NoName
      /\ {} = {row \in LeafRows(f, {}) : OwnsTree(row)}
  BY <1>1
<1> QED
  BY <1>2, <1>3, <1>4, Zenon DEF ReadAt

LEMMA MetNone ==
    ASSUME NEW f, NEW P
    PROVE  Met(f, P, 0, 0) = {Origin} \cup Slots(f, P)
<1>1. ASSUME NEW s \in Slots(f, P) PROVE s[1] # 0
  <2>1. PICK p \in P \cap Pgno : \E i \in 0 .. Len(f.pages[p].cells) :
                                     Down(f, p, i) # <<>> /\ s = <<p, i>>
    BY SlotsAre
  <2> QED BY <2>1, PgnoFacts
<1> QED
  BY <1>1 DEF Met

(* The page that is read next is one of the tree and has not been read, so  *)
(* the count has not reached the number of pages.                           *)
LEMMA ReadMeets ==
    ASSUME NEW f \in Files, NEW st, NEW R \in SUBSET Tree(f, 1), st # <<>>,
           Walked(f, 1, st, {Origin} \cup Slots(f, R), R), ProperTree(f, 1)
    PROVE  /\ Last(st) \in Tree(f, 1) /\ Last(st) \in Pgno /\ Last(st) \notin R
           /\ Walked(f, 1, Front(st), {Origin} \cup Slots(f, R), R \cup {Last(st)})
           /\ IsFiniteSet(R) /\ Cardinality(R) \in Nat /\ Cardinality(R) < PageCount
           /\ Cardinality(R \cup {Last(st)}) = Cardinality(R) + 1
<1> DEFINE D == {Origin} \cup Slots(f, R)
<1>1. D = Met(f, R, 0, 0)
  BY MetNone
<1> HIDE DEF D
<1>2. Walked(f, 1, st, D, R)
  BY DEF D
<1>3. MetOnce(f, 1, D, Last(st)) /\ (Last(st) \in R => MetTwice(f, 1, D, Last(st)))
  BY <1>2, WalkedNext
<1>4. Last(st) \in Tree(f, 1)
  <2>1. PICK s \in D : Goal(f, 1, s) = Last(st)
    BY <1>3 DEF MetOnce
  <2> QED BY <1>1, <2>1, MetInTree
<1>5. Last(st) \notin R
  <2> SUFFICES ASSUME Last(st) \in R PROVE FALSE
    OBVIOUS
  <2>1. MetTwice(f, 1, D, Last(st))
    BY <1>3
  <2>2. PICK s, t \in D : /\ Goal(f, 1, s) = Last(st)
                          /\ Goal(f, 1, t) = Last(st)
                          /\ s # t
    BY <2>1 DEF MetTwice
  <2> QED BY <1>1, <2>2, TwiceIsImproper
<1>6. Tree(f, 1) \subseteq Pgno
  BY Zenon DEF ProperTree
<1>7. Walked(f, 1, Front(st), D, R \cup {Last(st)})
  BY <1>2, <1>5, WalkedNext
<1>8. IsFiniteSet(Pgno) /\ Cardinality(Pgno) = PageCount
  BY SizeAssumption, FS_Interval DEF Pgno
<1> DEFINE R2 == R \cup {Last(st)}
<1>9. R \subseteq Pgno /\ R2 \subseteq Pgno
  BY <1>4, <1>6
<1>10. IsFiniteSet(R) /\ IsFiniteSet(R2) /\ Cardinality(R2) <= PageCount
  <2> HIDE DEF R2
  <2> QED BY <1>8, <1>9, FS_Subset
<1>11. Cardinality(R2) = Cardinality(R) + 1 /\ Cardinality(R) \in Nat
  BY <1>5, <1>10, FS_AddElement, FS_CardinalityType
<1>12. Cardinality(R) < PageCount
  BY <1>10, <1>11, SizeAssumption
<1> QED
  BY <1>4, <1>5, <1>6, <1>7, <1>10, <1>11, <1>12 DEF D

(* What one more page adds.                                                 *)
IsSlot(f, p, s) ==
    \E i \in 0 .. Len(f.pages[p].cells) : Down(f, p, i) # <<>> /\ s = <<p, i>>

LEMMA SlotsOf ==
    ASSUME NEW f, NEW p \in Pgno, NEW s
    PROVE  s \in Slots(f, {p}) <=> IsSlot(f, p, s)
<1> DEFINE Slot(q) == \E i \in 0 .. Len(f.pages[q].cells) :
                          Down(f, q, i) # <<>> /\ s = <<q, i>>
<1>1. s \in Slots(f, {p}) <=> \E q \in {p} \cap Pgno : Slot(q)
  BY SlotsAre
<1>2. \A q : q \in {p} \cap Pgno <=> q = p
  OBVIOUS
<1> HIDE DEF Slot
<1>3. s \in Slots(f, {p}) <=> Slot(p)
  BY <1>1, <1>2, Zenon
<1> QED
  BY <1>3 DEF Slot, IsSlot

LEMMA SlotsAdd ==
    ASSUME NEW f, NEW R, NEW p \in Pgno
    PROVE  Slots(f, R \cup {p}) = Slots(f, R) \cup Slots(f, {p})
<1> DEFINE Slot(s, q) == \E i \in 0 .. Len(f.pages[q].cells) :
                             Down(f, q, i) # <<>> /\ s = <<q, i>>
<1>1. \A P, s : s \in Slots(f, P) <=> \E q \in P \cap Pgno : Slot(s, q)
  BY SlotsAre
<1> HIDE DEF Slot
<1>2. /\ \A q : q \in {p} \cap Pgno <=> q = p
      /\ \A q : q \in (R \cup {p}) \cap Pgno <=> (q \in R \cap Pgno \/ q = p)
  OBVIOUS
<1>3. \A s : s \in Slots(f, R \cup {p}) <=> s \in Slots(f, R) \/ s \in Slots(f, {p})
  BY <1>1, <1>2, Zenon
<1> QED
  BY <1>3

LEMMA RowsAdd ==
    ASSUME NEW f \in Files, NEW R, NEW p \in Pgno
    PROVE  LeafRows(f, R \cup {p}) = LeafRows(f, R) \cup LeafRows(f, {p})
<1> DEFINE Leaf(row, q) == /\ f.pages[q].right = <<>>
                           /\ \E i \in 1 .. Len(f.pages[q].cells) : row = f.pages[q].cells[i].row
<1>1. \A P, row : row \in LeafRows(f, P) <=> \E q \in P \cap Pgno : Leaf(row, q)
  BY LeafRowsAre
<1> HIDE DEF Leaf
<1>2. /\ \A q : q \in {p} \cap Pgno <=> q = p
      /\ \A q : q \in (R \cup {p}) \cap Pgno <=> (q \in R \cap Pgno \/ q = p)
  OBVIOUS
<1>3. \A row : row \in LeafRows(f, R \cup {p}) <=>
                   row \in LeafRows(f, R) \/ row \in LeafRows(f, {p})
  BY <1>1, <1>2, Zenon
<1> QED
  BY <1>3

LEMMA OwnedRows ==
    ASSUME NEW f \in Files, NEW p \in Pgno, f.pages[p].right = <<>>
    PROVE  /\ Owned(f, p) \in Seq(Row)
           /\ ToSet(Owned(f, p)) = {row \in LeafRows(f, {p}) : OwnsTree(row)}
<1> DEFINE C == f.pages[p].cells
           l == Len(C)
           of(i) == IF OwnsTree(C[i].row) THEN <<C[i].row>> ELSE <<>>
           seqs == [i \in DOMAIN C |-> of(i)]
<1>1. l \in Nat /\ DOMAIN C = 1 .. l /\ \A i \in 1 .. l : C[i].row \in Row
  BY FileFacts
<1>2. Owned(f, p) = FlattenSeq(seqs)
  BY DEF Owned
<1>3. \A i \in 1 .. l : of(i) \in Seq(Row)
  <2> SUFFICES ASSUME NEW i \in 1 .. l PROVE of(i) \in Seq(Row)
    OBVIOUS
  <2> DEFINE r == C[i].row
  <2>1. r \in Row
    BY <1>1
  <2> HIDE DEF r
  <2>2. <<r>> \in Seq(Row) /\ <<>> \in Seq(Row)
    BY <2>1
  <2> QED BY <2>2 DEF r
<1>4. \A r : ToSet(<<r>>) = {r} /\ ToSet(<<>>) = {}
  BY DEF ToSet
<1>5. \A i \in 1 .. l : ToSet(of(i)) = {r \in {C[i].row} : OwnsTree(r)}
  BY <1>4
<1>6. \A row : row \in LeafRows(f, {p}) <=> \E i \in 1 .. l : row = C[i].row
  <2> TAKE row
  <2>1. \A q : q \in {p} \cap Pgno <=> q = p
    OBVIOUS
  <2> DEFINE Leaf(q) == /\ f.pages[q].right = <<>>
                        /\ \E i \in 1 .. Len(f.pages[q].cells) : row = f.pages[q].cells[i].row
  <2>2. row \in LeafRows(f, {p}) <=> \E q \in {p} \cap Pgno : Leaf(q)
    BY LeafRowsAre
  <2>3. Leaf(p) <=> \E i \in 1 .. l : row = C[i].row
    OBVIOUS
  <2> HIDE DEF Leaf
  <2>4. row \in LeafRows(f, {p}) <=> Leaf(p)
    BY <2>1, <2>2, Zenon
  <2> QED BY <2>3, <2>4
<1> HIDE DEF C, l
<1>7. seqs = [i \in 1 .. l |-> of(i)]
  BY <1>1
<1> HIDE DEF of
<1>8. seqs \in Seq(Seq(Row)) /\ Len(seqs) = l /\ \A i \in 1 .. l : seqs[i] = of(i)
  BY <1>1, <1>3, <1>7
<1> HIDE DEF seqs
<1>9. /\ FlattenSeq(seqs) \in Seq(Row)
      /\ ToSet(FlattenSeq(seqs)) = UNION {ToSet(seqs[i]) : i \in 1 .. l}
  BY <1>8, FlattenAll
<1>10. \A row : row \in UNION {ToSet(seqs[i]) : i \in 1 .. l} <=>
                    \E i \in 1 .. l : row = C[i].row /\ OwnsTree(row)
  BY <1>5, <1>8
<1> QED
  BY <1>2, <1>6, <1>9, <1>10

LEMMA ReadLeaf ==
    ASSUME NEW f \in Files, NEW st, NEW g, NEW rw, ReadAt(f, st, g, rw), ProperTree(f, 1),
           st # <<>>, NEW p, p = Last(st), f.pages[p].type = "table",
           f.pages[p].right = <<>>,
           \A i \in DOMAIN f.pages[p].cells : f.pages[p].cells[i].row.name # NoName
    PROVE  ReadAt(f, Front(st), g + 1, rw \o Owned(f, p))
<1>1. rw \in Seq(Row)
  BY DEF ReadAt
<1>2. PICK R \in SUBSET Tree(f, 1) :
           /\ g = Cardinality(R)
           /\ Walked(f, 1, st, {Origin} \cup Slots(f, R), R)
           /\ \A q \in R : f.pages[q].type = "table"
           /\ \A row \in LeafRows(f, R) : row.name # NoName
           /\ ToSet(rw) = {row \in LeafRows(f, R) : OwnsTree(row)}
  BY DEF ReadAt
<1> DEFINE R2 == R \cup {p}
<1>3. /\ p \in Tree(f, 1) /\ p \in Pgno
      /\ Walked(f, 1, Front(st), {Origin} \cup Slots(f, R), R2)
      /\ Cardinality(R2) = g + 1
  BY <1>2, ReadMeets
<1>4. Slots(f, {p}) = {}
  <2>1. \A i \in 0 .. Len(f.pages[p].cells) : Down(f, p, i) = <<>>
    <3>1. Len(f.pages[p].cells) \in Nat
          /\ \A i \in 1 .. Len(f.pages[p].cells) : f.pages[p].cells[i].left = <<>>
      BY <1>3, FileFacts
    <3> QED BY <3>1 DEF Down
  <2>2. \A s : ~ IsSlot(f, p, s)
    BY <2>1 DEF IsSlot
  <2> QED BY <1>3, <2>2, SlotsOf
<1>5. Slots(f, R2) = Slots(f, R)
  <2>1. Slots(f, R2) = Slots(f, R) \cup Slots(f, {p})
    BY <1>3, SlotsAdd, Zenon
  <2> HIDE DEF R2
  <2> QED BY <1>4, <2>1
<1>6. LeafRows(f, R2) = LeafRows(f, R) \cup LeafRows(f, {p})
  BY <1>3, RowsAdd, Zenon
<1>7. \A row \in LeafRows(f, {p}) : row.name # NoName
  <2> SUFFICES ASSUME NEW row \in LeafRows(f, {p}) PROVE row.name # NoName
    OBVIOUS
  <2>1. PICK q \in {p} \cap Pgno :
            \E i \in 1 .. Len(f.pages[q].cells) : row = f.pages[q].cells[i].row
    BY LeafRowsAre
  <2>2. PICK i \in 1 .. Len(f.pages[p].cells) : row = f.pages[p].cells[i].row
    BY <2>1
  <2>3. i \in DOMAIN f.pages[p].cells
    BY <1>3, FileFacts
  <2> QED BY <2>2, <2>3
<1>8. /\ Owned(f, p) \in Seq(Row)
      /\ ToSet(Owned(f, p)) = {row \in LeafRows(f, {p}) : OwnsTree(row)}
  BY <1>3, OwnedRows
<1>9. /\ rw \o Owned(f, p) \in Seq(Row)
      /\ ToSet(rw \o Owned(f, p)) = ToSet(rw) \cup ToSet(Owned(f, p))
  <2> DEFINE new == Owned(f, p)
  <2> HIDE DEF new
  <2>1. new \in Seq(Row)
    BY <1>8 DEF new
  <2>2. rw \o new \in Seq(Row) /\ ToSet(rw \o new) = ToSet(rw) \cup ToSet(new)
    BY <1>1, <2>1, ConcatAll
  <2> QED BY <2>2 DEF new
<1>10. ToSet(rw \o Owned(f, p)) = {row \in LeafRows(f, R2) : OwnsTree(row)}
  BY <1>2, <1>6, <1>8, <1>9
<1>11. /\ R2 \in SUBSET Tree(f, 1)
       /\ \A q \in R2 : f.pages[q].type = "table"
       /\ \A row \in LeafRows(f, R2) : row.name # NoName
  BY <1>2, <1>3, <1>6, <1>7
<1>12. Walked(f, 1, Front(st), {Origin} \cup Slots(f, R2), R2)
  BY <1>3, <1>5
<1> HIDE DEF R2
<1> QED
  BY <1>3, <1>9, <1>10, <1>11, <1>12 DEF ReadAt

LEMMA ReadInner ==
    ASSUME NEW f \in Files, NEW st, NEW g, NEW rw, ReadAt(f, st, g, rw), ProperTree(f, 1),
           st # <<>>, NEW p, p = Last(st), f.pages[p].type = "table",
           f.pages[p].right # <<>>
    PROVE  ReadAt(f, Front(st) \o f.pages[p].right \o Lefts(f, p), g + 1, rw)
<1>1. rw \in Seq(Row)
  BY DEF ReadAt
<1>2. PICK R \in SUBSET Tree(f, 1) :
           /\ g = Cardinality(R)
           /\ Walked(f, 1, st, {Origin} \cup Slots(f, R), R)
           /\ \A q \in R : f.pages[q].type = "table"
           /\ \A row \in LeafRows(f, R) : row.name # NoName
           /\ ToSet(rw) = {row \in LeafRows(f, R) : OwnsTree(row)}
  BY DEF ReadAt
<1> DEFINE R2 == R \cup {p}
           D == {Origin} \cup Slots(f, R)
           C == f.pages[p].cells
           l == Len(C)
           right == f.pages[p].right
           s == <<p, 0>>
           lefts == [i \in DOMAIN C |-> C[i].left]
<1>3. /\ p \in Tree(f, 1) /\ p \in Pgno /\ p \notin R
      /\ Walked(f, 1, Front(st), D, R2)
      /\ Cardinality(R2) = g + 1
  BY <1>2, ReadMeets
<1>4. /\ right \in Pointers /\ p \in Nat \ {0} /\ l \in Nat /\ DOMAIN C = 1 .. l
      /\ \A i \in 1 .. l : C[i].left \in Pointers
  BY <1>3, FileFacts, PgnoFacts
<1>5. \A i : <<p, i>> \notin D
  <2> TAKE i
  <2>1. <<p, i>> # Origin
    BY <1>4 DEF Origin
  <2>2. \A x \in Slots(f, R) : x[1] \in R
    BY SlotsAre
  <2>3. <<p, i>>[1] = p
    OBVIOUS
  <2> QED BY <1>3, <2>1, <2>2, <2>3
<1>6. \A i : Goal(f, 1, <<p, i>>) = Down(f, p, i)[1]
  <2> TAKE i
  <2>1. <<p, i>> # Origin /\ <<p, i>>[1] = p /\ <<p, i>>[2] = i
    BY <1>4 DEF Origin
  <2> QED BY <2>1 DEF Goal, Target
<1>7. Walked(f, 1, Front(st) \o right, D \cup {s}, R2)
  <2>1. right # <<>> => Goal(f, 1, s) = right[1]
    BY <1>6 DEF Down
  <2>2. s \notin D
    BY <1>5
  <2>3. D \cup {x \in {s} : right # <<>>} = D \cup {s}
    OBVIOUS
  <2> HIDE DEF s, right, D, R2
  <2>4. Walked(f, 1, Front(st) \o right, D \cup {x \in {s} : right # <<>>}, R2)
    BY <1>3, <1>4, <2>1, <2>2, WalkedPush
  <2> QED BY <2>3, <2>4
<1>8. Lefts(f, p) = FlattenSeq(lefts)
  BY DEF Lefts
<1>9. /\ lefts \in Seq(Pointers) /\ Len(lefts) = l
      /\ \A i \in 1 .. l : lefts[i] = C[i].left
  <2>1. lefts = [i \in 1 .. l |-> C[i].left]
    BY <1>4
  <2> HIDE DEF C, l, lefts
  <2> QED BY <1>4, <2>1
<1>10. \A i \in 1 .. l : /\ <<p, i>> \notin D \cup {s}
                         /\ lefts[i] # <<>> => Goal(f, 1, <<p, i>>) = lefts[i][1]
  <2> SUFFICES ASSUME NEW i \in 1 .. l
               PROVE  /\ <<p, i>> \notin D \cup {s}
                      /\ Goal(f, 1, <<p, i>>) = lefts[i][1]
    OBVIOUS
  <2>1. i # 0
    BY <1>4
  <2>2. Down(f, p, i) = lefts[i]
    BY <1>9, <2>1 DEF Down
  <2>3. <<p, i>> # s
    BY <2>1
  <2> QED BY <1>5, <1>6, <2>2, <2>3
<1> DEFINE new == {<<p, i>> : i \in {j \in 1 .. l : lefts[j] # <<>>}}
<1>11. Walked(f, 1, (Front(st) \o right) \o Lefts(f, p), (D \cup {s}) \cup new, R2)
  <2> DEFINE st2 == Front(st) \o right
             D2 == D \cup {s}
  <2>1. Walked(f, 1, st2, D2, R2)
    BY <1>7
  <2>2. \A i \in 1 .. Len(lefts) : /\ <<p, i>> \notin D2
                                   /\ lefts[i] # <<>> => Goal(f, 1, <<p, i>>) = lefts[i][1]
    BY <1>9, <1>10
  <2>3. lefts \in Seq(Pointers) /\ Len(lefts) = l
    BY <1>9
  <2> HIDE DEF st2, D2, R2, lefts, l
  <2>4. Unmet(f, 1, D2, p, lefts)
    BY <2>2 DEF Unmet
  <2>5. Walked(f, 1, st2 \o FlattenSeq(lefts), D2 \cup new, R2)
    <3>1. new = Pushed(p, lefts)
      BY <2>3 DEF Pushed
    <3> HIDE DEF new
    <3> QED BY <2>1, <2>3, <2>4, <3>1, WalkedPushAll
  <2> HIDE DEF new
  <2> QED BY <1>8, <2>5 DEF st2, D2
<1>12. {Origin} \cup Slots(f, R2) = (D \cup {s}) \cup new
  <2>1. Slots(f, R2) = Slots(f, R) \cup Slots(f, {p})
    BY <1>3, SlotsAdd, Zenon
  <2>2. ASSUME NEW x
        PROVE  x \in Slots(f, {p}) <=> x = s \/ x \in new
    <3>1. x \in Slots(f, {p}) <=> \E i \in 0 .. l : Down(f, p, i) # <<>> /\ x = <<p, i>>
      <4>1. x \in Slots(f, {p}) <=> IsSlot(f, p, x)
        BY <1>3, SlotsOf, Zenon
      <4> QED BY <4>1, Zenon DEF IsSlot
    <3>2. \A i : i \in 0 .. l <=> i = 0 \/ i \in 1 .. l
      BY <1>4
    <3>3. Down(f, p, 0) # <<>> /\ \A i \in 1 .. l : Down(f, p, i) = lefts[i]
      BY <1>4, <1>9 DEF Down
    <3>4. x \in new <=> \E i \in 1 .. l : lefts[i] # <<>> /\ x = <<p, i>>
      OBVIOUS
    <3> HIDE DEF l, lefts, new
    <3> QED BY <3>1, <3>2, <3>3, <3>4
  <2> HIDE DEF s, new
  <2> QED BY <2>1, <2>2
<1>13. Walked(f, 1, (Front(st) \o right) \o Lefts(f, p), {Origin} \cup Slots(f, R2), R2)
  <2> HIDE DEF D, s, new, R2, right
  <2> QED BY <1>11, <1>12
<1>14. LeafRows(f, R2) = LeafRows(f, R)
  <2>1. ASSUME NEW row \in LeafRows(f, {p}) PROVE FALSE
    <3>1. PICK q \in {p} \cap Pgno : f.pages[q].right = <<>>
      BY LeafRowsAre
    <3> QED BY <3>1
  <2>2. LeafRows(f, R2) = LeafRows(f, R) \cup LeafRows(f, {p})
    BY <1>3, RowsAdd, Zenon
  <2> HIDE DEF R2
  <2> QED BY <2>1, <2>2
<1>15. /\ R2 \in SUBSET Tree(f, 1)
       /\ \A q \in R2 : f.pages[q].type = "table"
  BY <1>2, <1>3
<1> HIDE DEF R2, right
<1>16. ReadAt(f, (Front(st) \o right) \o Lefts(f, p), g + 1, rw)
  BY <1>1, <1>2, <1>3, <1>13, <1>14, <1>15 DEF ReadAt
<1> QED
  BY <1>16 DEF right

(* A page that cannot be read is one that no sound schema has: the pages of *)
(* its chains are there, because the walk has found them.                   *)
LEMMA ReadFails ==
    ASSUME NEW f \in Files, NEW st, NEW g, NEW rw, ReadAt(f, st, g, rw), ProperTree(f, 1),
           st # <<>>, NEW p, p = Last(st),
           \/ g = PageCount
           \/ ~ /\ p \in Pgno
                /\ f.pages[p].type = "table"
                /\ f.pages[p].right = <<>> =>
                       \A i \in DOMAIN f.pages[p].cells :
                           /\ ToSet(Chain(f, f.pages[p].cells[i])) \subseteq Pgno
                           /\ f.pages[p].cells[i].row.name # NoName
    PROVE  ~ SchemaOk(f)
<1> SUFFICES ASSUME SchemaOk(f) PROVE FALSE
  OBVIOUS
<1>1. PICK R \in SUBSET Tree(f, 1) :
           /\ g = Cardinality(R)
           /\ Walked(f, 1, st, {Origin} \cup Slots(f, R), R)
  BY DEF ReadAt
<1>2. p \in Tree(f, 1) /\ p \in Pgno /\ Cardinality(R) < PageCount /\ Cardinality(R) \in Nat
  BY <1>1, ReadMeets
<1>3. g # PageCount
  BY <1>1, <1>2, SizeAssumption
<1>4. f.pages[p].type = "table"
  BY <1>2 DEF SchemaOk
<1>5. ASSUME f.pages[p].right = <<>>, NEW i \in DOMAIN f.pages[p].cells
      PROVE  /\ ToSet(Chain(f, f.pages[p].cells[i])) \subseteq Pgno
             /\ f.pages[p].cells[i].row.name # NoName
  <2> DEFINE cell == f.pages[p].cells[i]
  <2>1. i \in 1 .. Len(f.pages[p].cells)
    BY <1>2, FileFacts
  <2>2. p \in Tree(f, 1) \cap Pgno
    BY <1>2
  <2>3. cell.row \in SchemaRows(f)
    BY <1>5, <2>1, <2>2, LeafRowsAre, SchemaRowsAre
  <2>4. \A j \in 1 .. cell.need : Chain(f, cell)[j] \in Pgno
    <3> SUFFICES ASSUME NEW j \in 1 .. cell.need PROVE Chain(f, cell)[j] \in Pgno
      OBVIOUS
    <3> DEFINE k == <<p, i, j>>
    <3>1. k \in Links(f, Tree(f, 1))
      BY <2>2, LinksAre
    <3>2. Linked(f, k) \in Pgno
      <4> HIDE DEF k
      <4> QED BY <3>1, Zenon DEF ProperTree
    <3>3. Linked(f, k) = Chain(f, cell)[j]
      BY DEF Linked
    <3> QED BY <3>2, <3>3
  <2>5. ToSet(Chain(f, cell)) \subseteq Pgno
    <3> HIDE DEF cell
    <3>1. ToSet(Chain(f, cell)) = {Chain(f, cell)[j] : j \in 1 .. cell.need}
      BY ChainFacts
    <3> QED BY <2>4, <3>1
  <2>6. cell.row.name # NoName
    <3> HIDE DEF cell
    <3> QED BY <2>3 DEF SchemaOk
  <2> QED BY <2>5, <2>6
<1> QED
  BY <1>2, <1>3, <1>4, <1>5

LEMMA ReadEnds ==
    ASSUME NEW f \in Files, NEW g, NEW rw, ReadAt(f, <<>>, g, rw), ProperTree(f, 1)
    PROVE  /\ SchemaOk(f)
           /\ rw \in Seq(Row)
           /\ ToSet(rw) = {row \in SchemaRows(f) : OwnsTree(row)}
<1>1. PICK R \in SUBSET Tree(f, 1) :
           /\ Walked(f, 1, <<>>, {Origin} \cup Slots(f, R), R)
           /\ \A p \in R : f.pages[p].type = "table"
           /\ \A row \in LeafRows(f, R) : row.name # NoName
           /\ ToSet(rw) = {row \in LeafRows(f, R) : OwnsTree(row)}
  BY DEF ReadAt
<1> DEFINE D == {Origin} \cup Slots(f, R)
<1>2. R = {Goal(f, 1, s) : s \in D}
  <2>1. Walked(f, 1, <<>>, D, R)
    BY <1>1
  <2> HIDE DEF D
  <2> QED BY <2>1, WalkedEnd
<1>3. 1 \in R
  <2>1. Goal(f, 1, Origin) = 1 /\ Origin \in D
    BY DEF Goal
  <2> HIDE DEF D
  <2> QED BY <1>2, <2>1
<1>4. Closed(f, R)
  <2>1. \A s \in Slots(f, R) : s \in D /\ Goal(f, 1, s) = Target(f, s)
    BY SlotGoal
  <2> HIDE DEF D
  <2> QED BY <1>2, <2>1 DEF Closed
<1>5. R = Tree(f, 1)
  BY <1>3, <1>4, TreeLeast
<1>6. LeafRows(f, R) = SchemaRows(f)
  BY <1>5, SchemaRowsAre
<1> QED
  BY <1>1, <1>5, <1>6 DEF SchemaOk, ReadAt

----------------------------------------------------------------------------
(* The map, and the loop over the objects.                                  *)

SchemaObject == [name |-> Schema, root |-> 1]

Claimed(f, p, Done) == UNION {Claims(f, p, object) : object \in Done}

(* The objects Done have claimed their pages. *)
MapIs(f, mp, Done) ==
    \A p \in Pgno : IF Claimed(f, p, Done) # {} THEN mp[p] \in Claimed(f, p, Done)
                    ELSE mp[p] = Base(f, p)

Claiming(r, B, O, mp) ==
    [p \in Pgno |-> IF p \in O THEN <<"overflow", r.name>>
                    ELSE IF p \in B THEN <<"btree", r.name>>
                    ELSE mp[p]]

LEMMA ClaimMaps ==
    ASSUME NEW f, NEW mp, NEW Done, MapIs(f, mp, Done), NEW r,
           NEW B, B = Tree(f, r.root), NEW O, O = {Linked(f, k) : k \in Links(f, B)}
    PROVE  MapIs(f, Claiming(r, B, O, mp), Done \cup {r})
<1> SUFFICES ASSUME NEW p \in Pgno
             PROVE  LET c == Claimed(f, p, Done \cup {r})
                        m == Claiming(r, B, O, mp)[p]
                    IN  IF c # {} THEN m \in c ELSE m = Base(f, p)
  BY DEF MapIs
<1> DEFINE old == Claimed(f, p, Done)
           b == <<"btree", r.name>>
           o == <<"overflow", r.name>>
           m == Claiming(r, B, O, mp)[p]
<1>1. Claimed(f, p, Done \cup {r}) = old \cup Claims(f, p, r)
  BY DEF Claimed
<1>2. Claims(f, p, r) = {c \in {b} : p \in B} \cup {c \in {o} : p \in O}
  <2>1. p \in O <=> \E k \in Links(f, Tree(f, r.root)) : Linked(f, k) = p
    OBVIOUS
  <2> QED BY <2>1 DEF Claims
<1>3. IF old # {} THEN mp[p] \in old ELSE mp[p] = Base(f, p)
  BY DEF MapIs
<1>4. m = IF p \in O THEN o ELSE IF p \in B THEN b ELSE mp[p]
  BY DEF Claiming
<1> HIDE DEF old, b, o, m
<1>5. LET c == old \cup Claims(f, p, r) IN IF c # {} THEN m \in c ELSE m = Base(f, p)
  <2>1. CASE p \in O
    BY <1>2, <1>4, <2>1
  <2>2. CASE p \notin O /\ p \in B
    BY <1>2, <1>4, <2>2
  <2>3. CASE p \notin O /\ p \notin B
    <3>1. old \cup Claims(f, p, r) = old /\ m = mp[p]
      BY <1>2, <1>4, <2>3
    <3> QED BY <1>3, <3>1
  <2> QED BY <2>1, <2>2, <2>3
<1> QED
  BY <1>1, <1>5 DEF m

LEMMA MapBegins ==
    ASSUME NEW f PROVE MapIs(f, [p \in Pgno |-> Base(f, p)], {})
BY DEF MapIs, Claimed

(* With the objects Done claimed, those to come are r, if there is one, and *)
(* the rows rw.                                                             *)
LoopAt(f, mp, rw, Done, Now) ==
    /\ SchemaOk(f)
    /\ rw \in Seq(Row)
    /\ Done \cup Now \cup ToSet(rw) = Objects(f)
    /\ Now \cup ToSet(rw) \subseteq SchemaRows(f)
    /\ SchemaObject \in Done
    /\ \A object \in Done : ProperTree(f, object.root)
    /\ MapIs(f, mp, Done)

LEMMA ObjectFacts ==
    ASSUME NEW f \in Files, SchemaOk(f), NEW row \in SchemaRows(f)
    PROVE  row.name \in Names /\ row.root \in Nat
<1>1. row \in Row
  <2>1. PICK p \in Tree(f, 1) \cap Pgno :
            \E i \in 1 .. Len(f.pages[p].cells) : row = f.pages[p].cells[i].row
    BY LeafRowsAre, SchemaRowsAre
  <2> QED BY <2>1, FileFacts
<1>2. row.name # NoName
  BY DEF SchemaOk
<1> QED
  BY <1>1, <1>2 DEF Row

LEMMA LoopBegins ==
    ASSUME NEW f \in Files, NEW mp, MapIs(f, mp, {SchemaObject}), NEW g, NEW rw,
           ReadAt(f, <<>>, g, rw), ProperTree(f, 1)
    PROVE  LoopAt(f, mp, rw, {SchemaObject}, {})
<1>1. /\ SchemaOk(f)
      /\ rw \in Seq(Row)
      /\ ToSet(rw) = {row \in SchemaRows(f) : OwnsTree(row)}
  BY ReadEnds
<1>2. Objects(f) = {SchemaObject} \cup {} \cup ToSet(rw)
  BY <1>1 DEF Objects, SchemaObject
<1>3. SchemaObject.root = 1
  BY DEF SchemaObject
<1> QED
  BY <1>1, <1>2, <1>3 DEF LoopAt

LEMMA RemoveFacts ==
    ASSUME NEW T, NEW rw \in Seq(T), NEW i \in DOMAIN rw
    PROVE  RemoveAt(rw, i) \in Seq(T) /\ ToSet(rw) = {rw[i]} \cup ToSet(RemoveAt(rw, i))
<1> DEFINE l == Len(rw)
           before == SubSeq(rw, 1, i - 1)
           after == SubSeq(rw, i + 1, l)
<1>1. l \in Nat /\ DOMAIN rw = 1 .. l /\ i \in 1 .. l
  OBVIOUS
<1>2. \A j \in 1 .. l : rw[j] \in T
  OBVIOUS
<1>3. /\ before \in Seq(T) /\ Len(before) = i - 1
      /\ \A j \in 1 .. i - 1 : before[j] = rw[j]
  <2>1. 1 \in 1 .. Len(rw) + 1 /\ i - 1 \in 0 .. Len(rw)
    BY <1>1
  <2>2. CASE i = 1
    <3>1. before = <<>> /\ 1 .. i - 1 = {} /\ i - 1 = 0
      BY <2>1, <2>2
    <3> QED BY <3>1
  <2>3. CASE i # 1
    BY <1>1, <1>2, <2>3
  <2> QED BY <2>2, <2>3
<1>4. /\ after \in Seq(T) /\ Len(after) = l - i
      /\ \A j \in 1 .. l - i : after[j] = rw[i + j]
  <2>1. CASE i = l
    <3>1. after = <<>> /\ 1 .. l - i = {} /\ l - i = 0
      BY <1>1, <2>1
    <3> QED BY <3>1
  <2>2. CASE i # l
    BY <1>1, <1>2, <2>2
  <2> QED BY <2>1, <2>2
<1>5. RemoveAt(rw, i) = before \o after
  BY DEF RemoveAt
<1> HIDE DEF before, after, l
<1>6. /\ before \o after \in Seq(T)
      /\ ToSet(before \o after) = ToSet(before) \cup ToSet(after)
  BY <1>3, <1>4, ConcatAll
<1>7. /\ ToSet(before) = {rw[j] : j \in 1 .. i - 1}
      /\ ToSet(rw) = {rw[j] : j \in 1 .. l}
  BY <1>1, <1>3 DEF ToSet
<1>8. ToSet(after) = {rw[j] : j \in i + 1 .. l}
  <2>1. DOMAIN after = 1 .. l - i
    BY <1>4
  <2>2. ASSUME NEW x \in ToSet(after) PROVE \E j \in i + 1 .. l : x = rw[j]
    <3>1. PICK j \in 1 .. l - i : x = after[j]
      BY <2>1 DEF ToSet
    <3>2. i + j \in i + 1 .. l
      BY <1>1
    <3> QED BY <1>4, <3>1, <3>2
  <2>3. ASSUME NEW j \in i + 1 .. l PROVE rw[j] \in ToSet(after)
    <3>1. j - i \in 1 .. l - i /\ i + (j - i) = j
      BY <1>1
    <3>2. after[j - i] = rw[j]
      BY <1>4, <3>1
    <3> QED BY <2>1, <3>1, <3>2 DEF ToSet
  <2> QED BY <2>2, <2>3
<1>9. \A j : j \in 1 .. l <=> j \in 1 .. i - 1 \/ j = i \/ j \in i + 1 .. l
  BY <1>1
<1>10. ToSet(rw) = {rw[i]} \cup (ToSet(before) \cup ToSet(after))
  <2>1. \A x : x \in {rw[j] : j \in 1 .. l} <=>
                    \/ x \in {rw[j] : j \in 1 .. i - 1}
                    \/ x = rw[i]
                    \/ x \in {rw[j] : j \in i + 1 .. l}
    BY <1>9
  <2> QED BY <1>7, <1>8, <2>1
<1> QED
  BY <1>5, <1>6, <1>10

LEMMA LoopTakes ==
    ASSUME NEW f \in Files, NEW mp, NEW rw, NEW Done, LoopAt(f, mp, rw, Done, {}),
           NEW i \in DOMAIN rw
    PROVE  /\ LoopAt(f, mp, RemoveAt(rw, i), Done, {rw[i]})
           /\ rw[i].name \in Names /\ rw[i].root \in Nat
<1> DEFINE rw2 == RemoveAt(rw, i)
<1>1. /\ rw \in Seq(Row) /\ SchemaOk(f)
      /\ Done \cup {} \cup ToSet(rw) = Objects(f)
      /\ {} \cup ToSet(rw) \subseteq SchemaRows(f)
  BY DEF LoopAt
<1>2. rw2 \in Seq(Row) /\ ToSet(rw) = {rw[i]} \cup ToSet(rw2)
  BY <1>1, RemoveFacts
<1> HIDE DEF rw2
<1>3. /\ Done \cup {rw[i]} \cup ToSet(rw2) = Objects(f)
      /\ {rw[i]} \cup ToSet(rw2) \subseteq SchemaRows(f)
  BY <1>1, <1>2
<1>4. LoopAt(f, mp, rw2, Done, {rw[i]})
  BY <1>2, <1>3 DEF LoopAt
<1>5. rw[i] \in SchemaRows(f)
  BY <1>3
<1> QED
  BY <1>1, <1>4, <1>5, ObjectFacts DEF rw2

LEMMA LoopClaims ==
    ASSUME NEW f \in Files, NEW mp, NEW mp2, NEW rw, NEW Done, NEW r,
           LoopAt(f, mp, rw, Done, {r}), ProperTree(f, r.root), MapIs(f, mp2, Done \cup {r})
    PROVE  LoopAt(f, mp2, rw, Done \cup {r}, {})
BY DEF LoopAt

LEMMA SoundIs ==
    ASSUME NEW f
    PROVE  /\ SoundFile(f) => FreeOk(f) /\ SchemaOk(f)
           /\ SoundFile(f) => \A object \in Objects(f) : ProperTree(f, object.root)
           /\ FreeOk(f) /\ SchemaOk(f) /\ (\A object \in Objects(f) : ProperTree(f, object.root))
                  => SoundFile(f)
<1>1. SchemaObject \in Objects(f) /\ SchemaObject.root = 1
  BY DEF Objects, SchemaObject
<1>2. (\A object \in Objects(f) : ProperTree(f, object.root)) => ProperTree(f, 1)
  BY <1>1
<1> QED
  BY <1>2 DEF SoundFile, FreeOk, SchemaOk

LEMMA LoopEnds ==
    ASSUME NEW f \in Files, NEW mp, NEW Done, LoopAt(f, mp, <<>>, Done, {}), FreeOk(f)
    PROVE  SoundFile(f) /\ MapIs(f, mp, Objects(f))
<1>1. ToSet(<<>>) = {}
  BY DEF ToSet
<1>2. Done = Objects(f)
  BY <1>1 DEF LoopAt
<1> QED
  BY <1>2, SoundIs DEF LoopAt

----------------------------------------------------------------------------
(* The inductive invariant, phase by phase.                                 *)

WalkOf(root) == WalkAt(file, root, stack, cells, visited, btree, overflow)

FreeInv == phase = "free" => FreeAt(file, trunk, guard, map) /\ rows = <<>>

(* The freelist was sound if the walks begin. *)
PastFreeInv == phase \in {"schema", "read", "next", "object"} => FreeOk(file)

SchemaWalkInv ==
    phase = "schema" => /\ owner = Schema /\ WalkOf(1)
                        /\ rows = <<>> /\ MapIs(file, map, {})

ReadInv ==
    phase = "read" => /\ ProperTree(file, 1) /\ btree = Tree(file, 1)
                      /\ MapIs(file, map, {SchemaObject})
                      /\ ReadAt(file, stack, guard, rows)

ObjectWalkInv ==
    phase = "object" =>
        \E r, Done : /\ r.name = owner
                     /\ WalkOf(r.root)
                     /\ LoopAt(file, map, rows, Done, {r})

NextInv == phase = "next" => \E Done : LoopAt(file, map, rows, Done, {})

EndInv ==
    /\ phase = "done"  => SoundFile(file) /\ MapIs(file, map, Objects(file))
    /\ phase = "error" => ~ SoundFile(file)

AttributionInv ==
    /\ file \in Files
    /\ phase \in {"free", "schema", "read", "next", "object", "done", "error"}
    /\ FreeInv /\ PastFreeInv /\ SchemaWalkInv /\ ReadInv /\ ObjectWalkInv /\ NextInv
    /\ EndInv

(* A walk that goes on stays one, whatever its root.                        *)
LEMMA WalkGoesOn ==
    ASSUME file \in Files, NEW root, WalkOf(root), PopPage \/ VisitCell
    PROVE  WalkAt(file, root, stack', cells', visited', btree', overflow')
<1>1. CASE PopPage
  <2> DEFINE p == Last(stack)
  <2>1. /\ cells = <<>> /\ stack # <<>>
        /\ p \in Pgno /\ p \notin visited /\ file.pages[p].type # "other"
        /\ visited' = visited \cup {p} /\ btree' = btree \cup {p}
        /\ stack' = Front(stack) \o file.pages[p].right
        /\ cells' = file.pages[p].cells
        /\ overflow' = overflow
    BY <1>1 DEF PopPage, PopFinds, pages
  <2>2. WalkAt(file, root, stack, <<>>, visited, btree, overflow)
    BY <2>1 DEF WalkOf
  <2>3. WalkAt(file, root, Front(stack) \o file.pages[p].right, file.pages[p].cells,
               visited \cup {p}, btree \cup {p}, overflow)
    BY <2>1, <2>2, PopWalks
  <2> HIDE DEF p
  <2> QED BY <2>1, <2>3
<1>2. CASE VisitCell
  <2> DEFINE chain == Chain(file, Head(cells))
  <2>1. /\ cells # <<>>
        /\ ToSet(chain) \subseteq Pgno \ visited /\ IsInjective(chain)
        /\ visited' = visited \cup ToSet(chain) /\ overflow' = overflow \cup ToSet(chain)
        /\ stack' = stack \o Head(cells).left
        /\ cells' = Tail(cells)
        /\ btree' = btree
    BY <1>2 DEF VisitCell, ChainFound
  <2>2. WalkAt(file, root, stack \o Head(cells).left, Tail(cells),
               visited \cup ToSet(chain), btree, overflow \cup ToSet(chain))
    BY <2>1, WalkVisits DEF WalkOf
  <2> HIDE DEF chain
  <2> QED BY <2>1, <2>2
<1> QED
  BY <1>1, <1>2

(* A walk that stops was not one of a tree.                                 *)
LEMMA WalkStops ==
    ASSUME file \in Files, NEW root, WalkOf(root), PopBad \/ CellBad
    PROVE  ~ ProperTree(file, root)
<1>1. CASE PopBad
  <2>1. /\ cells = <<>> /\ stack # <<>>
        /\ ~ (/\ Last(stack) \in Pgno /\ Last(stack) \notin visited
              /\ file.pages[Last(stack)].type # "other")
    BY <1>1 DEF PopBad, PopFinds, pages
  <2>2. WalkAt(file, root, stack, <<>>, visited, btree, overflow)
    BY <2>1 DEF WalkOf
  <2> QED BY <2>1, <2>2, PopFails
<1>2. CASE CellBad
  <2>1. /\ cells # <<>>
        /\ ~ (/\ ToSet(Chain(file, Head(cells))) \subseteq Pgno \ visited
              /\ IsInjective(Chain(file, Head(cells))))
    BY <1>2 DEF CellBad, ChainFound
  <2> QED BY <2>1, CellFails DEF WalkOf
<1> QED
  BY <1>1, <1>2

LEMMA InvBegins ==
    Init => AttributionInv
<1> SUFFICES ASSUME Init PROVE AttributionInv
  OBVIOUS
<1>1. FreeAt(file, trunk, guard, map)
  BY FreeBegins DEF Init
<1> QED
  BY <1>1 DEF Init, AttributionInv, FreeInv, PastFreeInv, SchemaWalkInv, ReadInv,
              ObjectWalkInv, NextInv, EndInv

LEMMA InvFree ==
    AttributionInv /\ (FreeTrunk \/ FreeBad \/ FreeDone) => AttributionInv'
<1> SUFFICES ASSUME AttributionInv, FreeTrunk \/ FreeBad \/ FreeDone
             PROVE  AttributionInv'
  OBVIOUS
<1>1. file \in Files /\ phase = "free" /\ file' = file
      /\ FreeAt(file, trunk, guard, map) /\ rows = <<>>
  BY DEF AttributionInv, FreeInv, FreeTrunk, FreeBad, FreeDone, Fail
<1>2. CASE FreeTrunk
  <2>1. /\ trunk \in Pgno /\ guard < PageCount
        /\ ToSet(file.pages[trunk].leaves) \subseteq Pgno
        /\ trunk' = file.pages[trunk].next /\ guard' = guard + 1
        /\ map' = [p \in Pgno |-> IF p \in {trunk} \cup ToSet(file.pages[trunk].leaves)
                                  THEN <<"freelist">> ELSE map[p]]
        /\ phase' = "free" /\ rows' = <<>>
    BY <1>1, <1>2 DEF FreeTrunk, pages
  <2>2. FreeAt(file, trunk', guard', map')
    BY <1>1, <2>1, FreeSteps
  <2> QED
    BY <1>1, <2>1, <2>2 DEF AttributionInv, FreeInv, PastFreeInv, SchemaWalkInv, ReadInv,
                            ObjectWalkInv, NextInv, EndInv
<1>3. CASE FreeBad
  <2>1. /\ trunk # 0
        /\ \/ trunk \notin Pgno
           \/ guard = PageCount
           \/ trunk \in Pgno /\ ~ ToSet(file.pages[trunk].leaves) \subseteq Pgno
        /\ phase' = "error"
    BY <1>3 DEF FreeBad, Fail, pages
  <2>2. ~ SoundFile(file)
    BY <1>1, <2>1, FreeFails, SoundIs
  <2> QED
    BY <1>1, <2>1, <2>2 DEF AttributionInv, FreeInv, PastFreeInv, SchemaWalkInv, ReadInv,
                            ObjectWalkInv, NextInv, EndInv
<1>4. CASE FreeDone
  <2>1. /\ trunk = 0 /\ phase' = "schema" /\ owner' = Schema /\ stack' = <<1>>
        /\ cells' = <<>> /\ visited' = {} /\ btree' = {} /\ overflow' = {}
        /\ map' = map /\ rows' = <<>>
    BY <1>1, <1>4 DEF FreeDone, BeginWalk
  <2>2. FreeOk(file) /\ map = [p \in Pgno |-> Base(file, p)]
    BY <1>1, <2>1, FreeEnds
  <2>3. MapIs(file, map, {})
    BY <2>2, MapBegins
  <2>4. WalkAt(file, 1, <<1>>, <<>>, {}, {}, {})
    BY WalkBegins
  <2>5. WalkOf(1)'
    BY <1>1, <2>1, <2>4 DEF WalkOf
  <2> QED
    BY <1>1, <2>1, <2>2, <2>3, <2>5
       DEF AttributionInv, FreeInv, PastFreeInv, SchemaWalkInv, ReadInv,
           ObjectWalkInv, NextInv, EndInv
<1> QED
  BY <1>2, <1>3, <1>4

LEMMA InvWalk ==
    AttributionInv /\ (PopPage \/ VisitCell \/ PopBad \/ CellBad) => AttributionInv'
<1> SUFFICES ASSUME AttributionInv, PopPage \/ VisitCell \/ PopBad \/ CellBad
             PROVE  AttributionInv'
  OBVIOUS
<1>1. /\ file \in Files /\ Walking /\ file' = file /\ owner' = owner
      /\ map' = map /\ rows' = rows /\ FreeOk(file)
  BY DEF AttributionInv, PastFreeInv, Walking, PopPage, VisitCell, PopBad, CellBad, Fail, walk
<1>2. CASE PopPage \/ VisitCell
  <2>1. phase' = phase
    BY <1>1, <1>2 DEF PopPage, VisitCell
  <2>2. \A root : WalkOf(root) => WalkOf(root)'
    <3> SUFFICES ASSUME NEW root, WalkOf(root) PROVE WalkOf(root)'
      OBVIOUS
    <3>1. WalkAt(file, root, stack', cells', visited', btree', overflow')
      BY <1>1, <1>2, WalkGoesOn
    <3> QED BY <1>1, <3>1 DEF WalkOf
  <2>3. SchemaWalkInv'
    BY <1>1, <2>1, <2>2 DEF AttributionInv, SchemaWalkInv
  <2>4. ObjectWalkInv'
    <3> SUFFICES ASSUME phase = "object"
                 PROVE  \E r, Done : /\ r.name = owner
                                     /\ WalkOf(r.root)'
                                     /\ LoopAt(file, map, rows, Done, {r})
      BY <1>1, <2>1 DEF ObjectWalkInv
    <3>1. PICK r, Done : /\ r.name = owner
                         /\ WalkOf(r.root)
                         /\ LoopAt(file, map, rows, Done, {r})
      BY <1>1 DEF AttributionInv, ObjectWalkInv
    <3>2. WalkOf(r.root)'
      BY <2>2, <3>1
    <3> QED BY <3>1, <3>2
  <2> QED
    BY <1>1, <2>1, <2>3, <2>4
       DEF AttributionInv, FreeInv, PastFreeInv, ReadInv, NextInv, EndInv, Walking
<1>3. CASE PopBad \/ CellBad
  <2>1. phase' = "error"
    BY <1>3 DEF PopBad, CellBad, Fail
  <2>2. \A root : WalkOf(root) => ~ ProperTree(file, root)
    BY <1>1, <1>3, WalkStops
  <2>3. ~ SoundFile(file)
    <3>1. CASE phase = "schema"
      <4>1. ~ ProperTree(file, 1)
        BY <2>2, <3>1 DEF AttributionInv, SchemaWalkInv
      <4> QED BY <4>1, SoundIs DEF SchemaOk
    <3>2. CASE phase = "object"
      <4>1. PICK r, Done : /\ WalkOf(r.root)
                           /\ LoopAt(file, map, rows, Done, {r})
        BY <1>1, <3>2 DEF AttributionInv, ObjectWalkInv
      <4>2. r \in Objects(file)
        BY <4>1 DEF LoopAt
      <4>3. ~ ProperTree(file, r.root)
        BY <2>2, <4>1
      <4> QED BY <4>2, <4>3, SoundIs
    <3> QED BY <1>1, <3>1, <3>2 DEF Walking
  <2> QED
    BY <1>1, <2>1, <2>3 DEF AttributionInv, FreeInv, PastFreeInv, SchemaWalkInv, ReadInv,
                            ObjectWalkInv, NextInv, EndInv
<1> QED
  BY <1>2, <1>3

LEMMA InvClaim ==
    AttributionInv /\ Claim => AttributionInv'
<1> SUFFICES ASSUME AttributionInv, Claim PROVE AttributionInv'
  OBVIOUS
<1>1. /\ file \in Files /\ Walking /\ file' = file /\ owner' = owner
      /\ cells = <<>> /\ stack = <<>> /\ rows' = rows /\ btree' = btree /\ FreeOk(file)
  BY DEF AttributionInv, PastFreeInv, Walking, Claim
<1>2. \A root : WalkOf(root) => /\ ProperTree(file, root)
                                /\ btree = Tree(file, root)
                                /\ overflow = {Linked(file, k) : k \in Links(file, btree)}
  <2> SUFFICES ASSUME NEW root, WalkOf(root)
               PROVE  /\ ProperTree(file, root)
                      /\ btree = Tree(file, root)
                      /\ overflow = {Linked(file, k) : k \in Links(file, btree)}
    OBVIOUS
  <2>1. WalkAt(file, root, <<>>, <<>>, visited, btree, overflow)
    BY <1>1 DEF WalkOf
  <2> QED BY <1>1, <2>1, WalkEnds
<1>3. \A r, Done : WalkOf(r.root) /\ r.name = owner /\ MapIs(file, map, Done)
                       => MapIs(file, map', Done \cup {r})
  <2> SUFFICES ASSUME NEW r, NEW Done, WalkOf(r.root), r.name = owner, MapIs(file, map, Done)
               PROVE  MapIs(file, map', Done \cup {r})
    OBVIOUS
  <2>1. map' = Claiming(r, btree, overflow, map)
    BY DEF Claim, Claiming
  <2> QED BY <1>2, <2>1, ClaimMaps
<1>4. CASE phase = "schema"
  <2>1. owner = Schema /\ WalkOf(1) /\ rows = <<>> /\ MapIs(file, map, {})
    BY <1>1, <1>4 DEF AttributionInv, SchemaWalkInv
  <2>2. phase' = "read" /\ stack' = <<1>> /\ guard' = 0
    BY <1>4 DEF Claim
  <2>3. SchemaObject.root = 1 /\ SchemaObject.name = owner
    BY <2>1 DEF SchemaObject
  <2>4. MapIs(file, map', {SchemaObject})
    <3>1. {} \cup {SchemaObject} = {SchemaObject}
      OBVIOUS
    <3> QED BY <1>3, <2>1, <2>3, <3>1
  <2>5. ReadAt(file, <<1>>, 0, <<>>)
    BY <1>1, ReadBegins
  <2>6. ReadInv'
    BY <1>1, <1>2, <2>1, <2>2, <2>4, <2>5 DEF ReadInv
  <2> QED
    BY <1>1, <2>2, <2>6 DEF AttributionInv, FreeInv, PastFreeInv, SchemaWalkInv,
                            ObjectWalkInv, NextInv, EndInv
<1>5. CASE phase = "object"
  <2>1. PICK r, Done : /\ r.name = owner
                       /\ WalkOf(r.root)
                       /\ LoopAt(file, map, rows, Done, {r})
    BY <1>1, <1>5 DEF AttributionInv, ObjectWalkInv
  <2>2. phase' = "next"
    BY <1>5 DEF Claim
  <2>3. MapIs(file, map', Done \cup {r})
    BY <1>3, <2>1 DEF LoopAt
  <2>4. LoopAt(file, map', rows, Done \cup {r}, {})
    BY <1>1, <1>2, <2>1, <2>3, LoopClaims
  <2>5. NextInv'
    BY <1>1, <2>4 DEF NextInv
  <2> QED
    BY <1>1, <2>2, <2>5 DEF AttributionInv, FreeInv, PastFreeInv, SchemaWalkInv, ReadInv,
                            ObjectWalkInv, EndInv
<1> QED
  BY <1>1, <1>4, <1>5 DEF Walking

LEMMA InvRead ==
    AttributionInv /\ (ReadPage \/ ReadBad \/ ReadDone) => AttributionInv'
<1> SUFFICES ASSUME AttributionInv, ReadPage \/ ReadBad \/ ReadDone
             PROVE  AttributionInv'
  OBVIOUS
<1>1. /\ file \in Files /\ phase = "read" /\ file' = file /\ map' = map /\ btree' = btree
      /\ FreeOk(file) /\ ProperTree(file, 1) /\ btree = Tree(file, 1)
      /\ MapIs(file, map, {SchemaObject})
      /\ ReadAt(file, stack, guard, rows)
  BY DEF AttributionInv, PastFreeInv, ReadInv, ReadPage, ReadBad, ReadDone, Fail, walk
<1>2. CASE ReadPage
  <2> DEFINE p == Last(stack)
  <2>1. /\ stack # <<>> /\ file.pages[p].type = "table"
        /\ phase' = "read" /\ guard' = guard + 1
    BY <1>1, <1>2 DEF ReadPage, SchemaPage, pages
  <2>2. CASE file.pages[p].right = <<>>
    <3>1. /\ rows' = rows \o Owned(file, p) /\ stack' = Front(stack)
          /\ \A i \in DOMAIN file.pages[p].cells : file.pages[p].cells[i].row.name # NoName
      BY <1>2, <2>2 DEF ReadPage, SchemaPage, pages
    <3>2. ReadAt(file, stack', guard', rows')
      BY <1>1, <2>1, <2>2, <3>1, ReadLeaf
    <3> QED
      BY <1>1, <2>1, <3>2 DEF AttributionInv, FreeInv, PastFreeInv, SchemaWalkInv, ReadInv,
                              ObjectWalkInv, NextInv, EndInv
  <2>3. CASE file.pages[p].right # <<>>
    <3>1. /\ rows' = rows
          /\ stack' = Front(stack) \o file.pages[p].right \o Lefts(file, p)
      BY <1>2, <2>3 DEF ReadPage, pages
    <3>2. ReadAt(file, stack', guard', rows')
      BY <1>1, <2>1, <2>3, <3>1, ReadInner
    <3> QED
      BY <1>1, <2>1, <3>2 DEF AttributionInv, FreeInv, PastFreeInv, SchemaWalkInv, ReadInv,
                              ObjectWalkInv, NextInv, EndInv
  <2> QED BY <2>2, <2>3
<1>3. CASE ReadBad
  <2> DEFINE p == Last(stack)
  <2>1. /\ stack # <<>> /\ phase' = "error"
        /\ \/ guard = PageCount
           \/ ~ /\ p \in Pgno
                /\ file.pages[p].type = "table"
                /\ file.pages[p].right = <<>> =>
                       \A i \in DOMAIN file.pages[p].cells :
                           /\ ToSet(Chain(file, file.pages[p].cells[i])) \subseteq Pgno
                           /\ file.pages[p].cells[i].row.name # NoName
    BY <1>3 DEF ReadBad, SchemaPage, Fail, pages
  <2>2. ~ SoundFile(file)
    BY <1>1, <2>1, ReadFails, SoundIs
  <2> QED
    BY <1>1, <2>1, <2>2 DEF AttributionInv, FreeInv, PastFreeInv, SchemaWalkInv, ReadInv,
                            ObjectWalkInv, NextInv, EndInv
<1>4. CASE ReadDone
  <2>1. stack = <<>> /\ phase' = "next" /\ rows' = rows
    BY <1>4 DEF ReadDone
  <2>2. LoopAt(file, map, rows, {SchemaObject}, {})
    BY <1>1, <2>1, LoopBegins
  <2>3. NextInv'
    BY <1>1, <2>1, <2>2 DEF NextInv
  <2> QED
    BY <1>1, <2>1, <2>3 DEF AttributionInv, FreeInv, PastFreeInv, SchemaWalkInv, ReadInv,
                            ObjectWalkInv, EndInv
<1> QED
  BY <1>2, <1>3, <1>4

LEMMA InvLoop ==
    AttributionInv /\ (NextObject \/ AllDone) => AttributionInv'
<1> SUFFICES ASSUME AttributionInv, NextObject \/ AllDone PROVE AttributionInv'
  OBVIOUS
<1>1. /\ file \in Files /\ phase = "next" /\ file' = file /\ map' = map /\ FreeOk(file)
  BY DEF AttributionInv, PastFreeInv, NextObject, AllDone
<1>2. PICK Done : LoopAt(file, map, rows, Done, {})
  BY <1>1 DEF AttributionInv, NextInv
<1>3. CASE NextObject
  <2>1. PICK i \in DOMAIN rows : /\ BeginWalk(rows[i].name, rows[i].root)
                                 /\ rows' = RemoveAt(rows, i)
    BY <1>3 DEF NextObject
  <2>0. PICK r : r = rows[i]
    OBVIOUS
  <2>2. /\ phase' = "object" /\ owner' = r.name /\ stack' = <<r.root>>
        /\ cells' = <<>> /\ visited' = {} /\ btree' = {} /\ overflow' = {}
    BY <1>3, <2>0, <2>1 DEF NextObject, BeginWalk
  <2>3. /\ LoopAt(file, map, RemoveAt(rows, i), Done, {r})
        /\ r.root \in Nat
    BY <1>1, <1>2, <2>0, LoopTakes
  <2>4. WalkAt(file, r.root, <<r.root>>, <<>>, {}, {}, {})
    BY <2>3, WalkBegins
  <2>5. WalkOf(r.root)'
    BY <1>1, <2>2, <2>4 DEF WalkOf
  <2>6. LoopAt(file', map', rows', Done, {r})
    BY <1>1, <2>1, <2>3
  <2>7. ObjectWalkInv'
    BY <2>2, <2>5, <2>6 DEF ObjectWalkInv
  <2> QED
    BY <1>1, <2>2, <2>3, <2>7 DEF AttributionInv, FreeInv, PastFreeInv, SchemaWalkInv,
                                  ReadInv, NextInv, EndInv
<1>4. CASE AllDone
  <2>1. rows = <<>> /\ phase' = "done"
    BY <1>4 DEF AllDone
  <2>2. SoundFile(file) /\ MapIs(file, map, Objects(file))
    BY <1>1, <1>2, <2>1, LoopEnds
  <2> QED
    BY <1>1, <2>1, <2>2 DEF AttributionInv, FreeInv, PastFreeInv, SchemaWalkInv, ReadInv,
                            ObjectWalkInv, NextInv, EndInv
<1> QED
  BY <1>3, <1>4

LEMMA InvSteps ==
    AttributionInv /\ [Next]_vars => AttributionInv'
<1> SUFFICES ASSUME AttributionInv, [Next]_vars PROVE AttributionInv'
  OBVIOUS
<1>1. CASE Next
  BY <1>1, InvFree, InvWalk, InvClaim, InvRead, InvLoop DEF Next
<1>2. CASE UNCHANGED vars
  BY <1>2 DEF vars, walk, AttributionInv, FreeInv, PastFreeInv, SchemaWalkInv, ReadInv,
              ObjectWalkInv, NextInv, EndInv, WalkOf
<1> QED
  BY <1>1, <1>2

LEMMA InvHolds == Spec => []AttributionInv
<1>1. Init => AttributionInv
  BY InvBegins
<1>2. AttributionInv /\ [Next]_vars => AttributionInv'
  BY InvSteps
<1> QED
  BY <1>1, <1>2, PTL DEF Spec

(* Every variable keeps its type, on any file: nothing outside the file is  *)
(* ever taken for one of its pages, and owners are names that were decoded. *)
THEOREM BtreeTypeCorrect == Spec => []TypeOK
<1>1. Init => TypeOK
  <2> SUFFICES ASSUME Init PROVE TypeOK
    OBVIOUS
  <2>1. \A p \in Pgno : Reserved(p) \in Owners
    BY DEF Reserved, Owners, Kinds
  <2> QED BY <2>1, SizeAssumption DEF Init, TypeOK
<1>2. TypeOK /\ AttributionInv /\ [Next]_vars => TypeOK'
  <2> SUFFICES ASSUME TypeOK, AttributionInv, [Next]_vars PROVE TypeOK'
    OBVIOUS
  <2>0. PageCount \in Nat /\ guard \in 0 .. PageCount
    BY SizeAssumption DEF TypeOK
  <2>1. CASE FreeTrunk
    <3>1. guard + 1 \in 0 .. PageCount
      BY <2>0, <2>1 DEF FreeTrunk
    <3>2. <<"freelist">> \in Owners
      BY DEF Owners, Kinds
    <3> QED BY <2>1, <3>1, <3>2 DEF FreeTrunk, TypeOK, walk
  <2>2. CASE FreeDone
    BY <2>2 DEF FreeDone, BeginWalk, TypeOK
  <2>3. CASE PopPage
    BY <2>3 DEF PopPage, PopFinds, TypeOK
  <2>4. CASE VisitCell
    <3>1. ToSet(Chain(file, Head(cells))) \subseteq Pgno
      BY <2>4 DEF VisitCell, ChainFound
    <3> QED BY <2>4, <3>1 DEF VisitCell, TypeOK
  <2>5. CASE Claim
    <3>1. <<"btree", owner>> \in Owners /\ <<"overflow", owner>> \in Owners
      BY DEF TypeOK, Owners
    <3> QED BY <2>0, <2>5, <3>1 DEF Claim, TypeOK
  <2>6. CASE ReadPage
    <3>1. guard + 1 \in 0 .. PageCount
      BY <2>0, <2>6 DEF ReadPage
    <3> QED BY <2>6, <3>1 DEF ReadPage, TypeOK
  <2>7. CASE NextObject
    <3>1. PICK i \in DOMAIN rows : BeginWalk(rows[i].name, rows[i].root)
      BY <2>7 DEF NextObject
    <3>2. PICK Done : LoopAt(file, map, rows, Done, {})
      BY <2>7 DEF NextObject, AttributionInv, NextInv
    <3>3. rows[i].name \in Names
      BY <3>2, LoopTakes DEF AttributionInv
    <3> QED BY <2>7, <3>1, <3>3 DEF NextObject, BeginWalk, TypeOK
  <2>8. CASE FreeBad \/ PopBad \/ CellBad \/ ReadBad
    BY <2>8 DEF FreeBad, PopBad, CellBad, ReadBad, Fail, TypeOK, walk
  <2>9. CASE ReadDone \/ AllDone
    BY <2>9 DEF ReadDone, AllDone, TypeOK, walk
  <2>10. CASE UNCHANGED vars
    BY <2>10 DEF vars, walk, TypeOK
  <2> QED
    BY <2>1, <2>2, <2>3, <2>4, <2>5, <2>6, <2>7, <2>8, <2>9, <2>10 DEF Next
<1> QED
  BY <1>1, <1>2, InvHolds, PTL DEF Spec

(* attribute_pages accepts a file only when every tree of it is one and its *)
(* freelist is whole, and refuses it only when that is not so, for files of *)
(* any number of pages, however their pointers run (the guards of           *)
(* walk_btree, collect_overflow, read_schema and freelist_pages).           *)
THEOREM AcceptsSoundFiles == Spec => []AcceptsExactlySound
<1>1. AttributionInv => AcceptsExactlySound
  BY DEF AttributionInv, EndInv, AcceptsExactlySound
<1> QED
  BY <1>1, InvHolds, PTL

(* In a map that is returned a page has the name of an object that reaches  *)
(* it, if there is one; if not it is free, reserved or unattributed, which  *)
(* are told apart as they should be.                                        *)
THEOREM OwnersAreExact == Spec => []AttributionExact
<1>1. AttributionInv => AttributionExact
  <2> SUFFICES ASSUME AttributionInv, phase = "done" PROVE AttributionExact
    BY DEF AttributionExact
  <2>1. MapIs(file, map, Objects(file))
    BY DEF AttributionInv, EndInv
  <2> QED BY <2>1 DEF AttributionExact, MapIs, Claimed, Base
<1> QED
  BY <1>1, InvHolds, PTL

(* read_schema reads only pages that walk_btree found, each once, so the    *)
(* count of its pages, the only guard it has, never stops it.               *)
THEOREM SchemaReadIsWalk == Spec => []SchemaReadRepeatsWalk
<1>1. AttributionInv => SchemaReadRepeatsWalk
  <2> SUFFICES ASSUME AttributionInv, phase = "read", stack # <<>>
               PROVE  Last(stack) \in btree /\ guard < PageCount
    BY DEF SchemaReadRepeatsWalk
  <2>1. /\ file \in Files /\ ProperTree(file, 1) /\ btree = Tree(file, 1)
        /\ ReadAt(file, stack, guard, rows)
    BY DEF AttributionInv, ReadInv
  <2>2. PICK R \in SUBSET Tree(file, 1) :
            /\ guard = Cardinality(R)
            /\ Walked(file, 1, stack, {Origin} \cup Slots(file, R), R)
    BY <2>1 DEF ReadAt
  <2> QED BY <2>1, <2>2, ReadMeets
<1> QED
  BY <1>1, InvHolds, PTL
=============================================================================
