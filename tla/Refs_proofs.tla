---------------------------- MODULE Refs_proofs ----------------------------
(* Proofs about Refs: names mean one thing for as long as they mean         *)
(* anything, whatever texts are typed and whatever the snapshots.  Path is  *)
(* a recursive function; what it returns for every text is shown by         *)
(* induction over the sets of numbers that NatInd is about.                 *)
EXTENDS Refs, SequenceTheorems, WellFoundedInduction, TLAPS

(* Induction, for a set of numbers: the least number outside would have a   *)
(* predecessor inside.                                                      *)
LEMMA NatInd ==
    ASSUME NEW S, 0 \in S, \A n \in Nat : n \in S => n + 1 \in S
    PROVE  Nat \subseteq S
<1> DEFINE Out == Nat \ S
<1> SUFFICES ASSUME Out # {} PROVE FALSE
  OBVIOUS
<1>1. Out \subseteq Nat
  OBVIOUS
<1>2. PICK m \in Out : \A k \in Out : ~ (<<k, m>> \in OpToRel(<, Nat))
  BY <1>1, NatLessThanWellFounded, WFMin, Zenon
<1>3. \A k \in Out : ~ (k < m)
  BY <1>1, <1>2 DEF OpToRel
<1>4. m \in Nat /\ m \notin S /\ m # 0
  OBVIOUS
<1>5. m - 1 \in Nat /\ m - 1 \in S
  BY <1>3, <1>4
<1> QED
  BY <1>4, <1>5

----------------------------------------------------------------------------
(* The path of a name.                                                      *)

Walked(ref) ==
    CHOOSE walked : walked =
        [n \in 0 .. Len(ref) |->
            IF n = 0 THEN << >>
            ELSE IF ref[n] \in Nowhere THEN walked[n - 1]
            ELSE Append(walked[n - 1], ref[n])]

LEMMA PathWalked == ASSUME NEW ref PROVE Path(ref) = Walked(ref)[Len(ref)]
BY DEF Path, Walked

(* There is such a function, on any finite part of the text, so Walked(ref) *)
(* is one.                                                                  *)
LEMMA WalkedStep ==
    ASSUME NEW ref, Len(ref) \in Nat
    PROVE  Walked(ref) = [n \in 0 .. Len(ref) |->
                            IF n = 0 THEN << >>
                            ELSE IF ref[n] \in Nowhere THEN Walked(ref)[n - 1]
                            ELSE Append(Walked(ref)[n - 1], ref[n])]
<1> DEFINE Step(w, n) == IF n = 0 THEN << >>
                         ELSE IF ref[n] \in Nowhere THEN w[n - 1]
                         ELSE Append(w[n - 1], ref[n])
           Far == {m \in Nat : \E w : w = [n \in 0 .. m |-> Step(w, n)]}
<1>1. 0 \in Far
  <2> DEFINE w == [n \in 0 .. 0 |-> << >>]
  <2>1. w = [n \in 0 .. 0 |-> Step(w, n)]
    OBVIOUS
  <2> QED BY <2>1
<1>2. ASSUME NEW m \in Nat, m \in Far
      PROVE  m + 1 \in Far
  <2>0. \A w, v : \A n \in Nat : (n # 0 => w[n - 1] = v[n - 1]) => Step(w, n) = Step(v, n)
    OBVIOUS
  <2> HIDE DEF Step
  <2>1. PICK w : w = [n \in 0 .. m |-> Step(w, n)]
    BY <1>2
  <2> DEFINE v == [n \in 0 .. m + 1 |-> IF n = m + 1 THEN Step(w, n) ELSE w[n]]
  <2>2. \A n \in 0 .. m : v[n] = w[n] /\ w[n] = Step(w, n)
    BY <2>1
  <2>3. \A n \in 0 .. m + 1 : v[n] = Step(v, n)
    <3> SUFFICES ASSUME NEW n \in 0 .. m + 1 PROVE v[n] = Step(v, n)
      OBVIOUS
    <3>1. v[n] = Step(w, n)
      <4>1. CASE n \in 0 .. m
        BY <2>2, <4>1
      <4>2. CASE n = m + 1
        BY <4>2
      <4> QED BY <4>1, <4>2
    <3>2. n # 0 => v[n - 1] = w[n - 1]
      BY <2>2
    <3> QED BY <2>0, <3>1, <3>2
  <2>4. v = [n \in 0 .. m + 1 |-> Step(v, n)]
    BY <2>3
  <2> HIDE DEF v
  <2> QED BY <2>4
<1>3. Nat \subseteq Far
  <2> HIDE DEF Far
  <2> QED BY <1>1, <1>2, NatInd
<1>4. PICK w : w = [n \in 0 .. Len(ref) |-> Step(w, n)]
  BY <1>3
<1> QED
  BY <1>4, Zenon DEF Walked

(* What goes somewhere is kept, in order. *)
LEMMA WalkedFacts ==
    ASSUME NEW T, NEW ref \in Seq(T), NEW m \in 0 .. Len(ref)
    PROVE  /\ Walked(ref)[m] \in Seq(T \ Nowhere)
           /\ Len(Walked(ref)[m]) <= m
           /\ (\A i \in 1 .. m : ref[i] \notin Nowhere)
                => Len(Walked(ref)[m]) = m /\ \A i \in 1 .. m : Walked(ref)[m][i] = ref[i]
           /\ m >= 1 /\ ref[1] \notin Nowhere
                => Len(Walked(ref)[m]) >= 1 /\ Walked(ref)[m][1] = ref[1]
<1> DEFINE w == Walked(ref)
           Good(n) == /\ w[n] \in Seq(T \ Nowhere)
                      /\ Len(w[n]) <= n
                      /\ (\A i \in 1 .. n : ref[i] \notin Nowhere)
                           => Len(w[n]) = n /\ \A i \in 1 .. n : w[n][i] = ref[i]
                      /\ n >= 1 /\ ref[1] \notin Nowhere
                           => Len(w[n]) >= 1 /\ w[n][1] = ref[1]
           Done == {n \in Nat : n <= Len(ref) => Good(n)}
<1>0. Len(ref) \in Nat /\ \A i \in 1 .. Len(ref) : ref[i] \in T
  OBVIOUS
<1>1. \A n \in 0 .. Len(ref) : w[n] = IF n = 0 THEN << >>
                                      ELSE IF ref[n] \in Nowhere THEN w[n - 1]
                                      ELSE Append(w[n - 1], ref[n])
  BY <1>0, WalkedStep
<1> HIDE DEF w
<1>2. 0 \in Done
  <2>1. w[0] = << >>
    BY <1>0, <1>1
  <2>2. w[0] \in Seq(T \ Nowhere) /\ Len(w[0]) = 0
    BY <2>1, EmptySeq
  <2> QED BY <2>2
<1>3. ASSUME NEW n \in Nat, n \in Done
      PROVE  n + 1 \in Done
  <2> SUFFICES ASSUME n + 1 <= Len(ref) PROVE Good(n + 1)
    OBVIOUS
  <2>1. Good(n) /\ n + 1 \in 1 .. Len(ref) /\ n + 1 # 0 /\ n + 1 - 1 = n
    BY <1>0, <1>3
  <2>2. w[n + 1] = IF ref[n + 1] \in Nowhere THEN w[n] ELSE Append(w[n], ref[n + 1])
    BY <1>0, <1>1, <2>1
  <2>3. CASE ref[n + 1] \in Nowhere
    <3>1. w[n + 1] = w[n]
      BY <2>2, <2>3
    <3> QED BY <2>1, <2>3, <3>1
  <2>4. CASE ref[n + 1] \notin Nowhere
    <3>1. w[n] \in Seq(T \ Nowhere) /\ ref[n + 1] \in T \ Nowhere
      BY <1>0, <2>1, <2>4
    <3>2. /\ w[n + 1] \in Seq(T \ Nowhere)
          /\ Len(w[n + 1]) = Len(w[n]) + 1
          /\ \A i \in 1 .. Len(w[n]) : w[n + 1][i] = w[n][i]
          /\ w[n + 1][Len(w[n]) + 1] = ref[n + 1]
      BY <2>2, <2>4, <3>1, AppendProperties
    <3>3. (\A i \in 1 .. n + 1 : ref[i] \notin Nowhere)
            => Len(w[n + 1]) = n + 1 /\ \A i \in 1 .. n + 1 : w[n + 1][i] = ref[i]
      <4> SUFFICES ASSUME \A i \in 1 .. n + 1 : ref[i] \notin Nowhere
                   PROVE  Len(w[n + 1]) = n + 1 /\ \A i \in 1 .. n + 1 : w[n + 1][i] = ref[i]
        OBVIOUS
      <4>1. Len(w[n]) = n /\ \A i \in 1 .. n : w[n][i] = ref[i]
        BY <2>1
      <4> QED BY <3>2, <4>1
    <3>4. ref[1] \notin Nowhere => Len(w[n + 1]) >= 1 /\ w[n + 1][1] = ref[1]
      <4>1. CASE n = 0
        BY <2>1, <3>1, <3>2, <4>1
      <4>2. CASE n >= 1
        BY <2>1, <3>1, <3>2, <4>2
      <4> QED BY <4>1, <4>2
    <3>5. Len(w[n + 1]) <= n + 1
      BY <2>1, <3>1, <3>2
    <3> QED BY <3>2, <3>3, <3>4, <3>5
  <2> QED BY <2>3, <2>4
<1>4. Nat \subseteq Done
  <2> HIDE DEF Done
  <2> QED BY <1>2, <1>3, NatInd
<1>5. Good(m)
  BY <1>0, <1>4
<1> QED
  BY <1>5 DEF w

LEMMA PathFacts ==
    ASSUME NEW T, NEW ref \in Seq(T)
    PROVE  /\ Path(ref) \in Seq(T \ Nowhere)
           /\ (\A i \in 1 .. Len(ref) : ref[i] \notin Nowhere) => Path(ref) = ref
           /\ ref # << >> /\ ref[1] \notin Nowhere
                => Len(Path(ref)) >= 1 /\ Path(ref)[1] = ref[1]
           /\ ref # << >> /\ ref[Len(ref)] \notin Nowhere
                => Len(Path(ref)) >= 1 /\ Path(ref)[Len(Path(ref))] = ref[Len(ref)]
           /\ Len(ref) >= 2 /\ ref[1] \notin Nowhere /\ ref[Len(ref)] \notin Nowhere
                => Len(Path(ref)) >= 2
<1> DEFINE w == Walked(ref)
           n == Len(ref)
<1>1. n \in Nat /\ (ref # << >> => n >= 1) /\ ref \in [1 .. n -> T]
  OBVIOUS
<1>2. Path(ref) = w[n]
  BY PathWalked
<1>3. /\ w[n] \in Seq(T \ Nowhere)
      /\ (\A i \in 1 .. n : ref[i] \notin Nowhere)
           => Len(w[n]) = n /\ \A i \in 1 .. n : w[n][i] = ref[i]
      /\ n >= 1 /\ ref[1] \notin Nowhere => Len(w[n]) >= 1 /\ w[n][1] = ref[1]
  <2>1. n \in 0 .. Len(ref)
    BY <1>1
  <2> HIDE DEF n
  <2> QED BY <2>1, WalkedFacts
<1>4. ASSUME n >= 1
      PROVE  /\ w[n - 1] \in Seq(T \ Nowhere)
             /\ n >= 2 /\ ref[1] \notin Nowhere => Len(w[n - 1]) >= 1
  <2>1. n - 1 \in 0 .. Len(ref)
    BY <1>1, <1>4
  <2> QED BY <2>1, WalkedFacts
<1>5. ASSUME n >= 1, ref[n] \notin Nowhere
      PROVE  w[n] = Append(w[n - 1], ref[n])
  <2>1. n \in 0 .. Len(ref) /\ n # 0
    BY <1>1, <1>5
  <2>2. \A i \in 0 .. Len(ref) : w[i] = IF i = 0 THEN << >>
                                        ELSE IF ref[i] \in Nowhere THEN w[i - 1]
                                        ELSE Append(w[i - 1], ref[i])
    BY <1>1, WalkedStep
  <2> QED BY <1>5, <2>1, <2>2
<1> HIDE DEF w
<1>6. ASSUME n >= 1, ref[n] \notin Nowhere
      PROVE  Len(w[n]) = Len(w[n - 1]) + 1 /\ w[n][Len(w[n])] = ref[n] /\ Len(w[n - 1]) \in Nat
  <2>1. w[n - 1] \in Seq(T \ Nowhere) /\ ref[n] \in T \ Nowhere
    BY <1>1, <1>4, <1>6
  <2> QED BY <1>5, <1>6, <2>1, AppendProperties
<1>7. (\A i \in 1 .. n : ref[i] \notin Nowhere) => w[n] = ref
  <2> SUFFICES ASSUME \A i \in 1 .. n : ref[i] \notin Nowhere
               PROVE  w[n] = ref
    OBVIOUS
  <2>1. w[n] \in Seq(T) /\ Len(w[n]) = Len(ref) /\ \A i \in 1 .. Len(w[n]) : w[n][i] = ref[i]
    BY <1>3
  <2> QED BY <2>1, SeqEqual
<1>8. ref # << >> /\ ref[n] \notin Nowhere
        => /\ Len(w[n]) >= 1 /\ w[n][Len(w[n])] = ref[n]
           /\ n >= 2 /\ ref[1] \notin Nowhere => Len(w[n]) >= 2
  BY <1>1, <1>4, <1>6
<1>9. n >= 2 => ref # << >>
  BY <1>1
<1> HIDE DEF n
<1> QED
  BY <1>1, <1>2, <1>3, <1>7, <1>8, <1>9 DEF n

----------------------------------------------------------------------------
(* Branches stand where their names lead, and names lead to one place.      *)

Proper(p) == p # << >> /\ p \in Seq(Range(p)) /\ Path(p) = p /\ Valid(p) /\ ~EndsInDot(p)

LEMMA JustOne == ASSUME NEW n \in Nat, n >= 1, ~(n >= 2) PROVE n = 1
OBVIOUS

LEMMA ValidPath ==
    ASSUME NEW T, NEW name \in Seq(T), name # << >>, T = Range(name),
           Valid(name), ~EndsInDot(name)
    PROVE  Proper(Path(name))
<1> DEFINE p == Path(name)
<1>1. /\ p \in Seq(T \ Nowhere)
      /\ name[1] \notin Nowhere => Len(p) >= 1 /\ p[1] = name[1]
      /\ name[Len(name)] \notin Nowhere => Len(p) >= 1 /\ p[Len(p)] = name[Len(name)]
      /\ Len(name) >= 2 /\ name[1] \notin Nowhere /\ name[Len(name)] \notin Nowhere
           => Len(p) >= 2
  BY PathFacts
<1>2. /\ name[1] # << >> /\ name[1][1] \notin {"-", "."} /\ name[Len(name)] # << >>
      /\ name[Len(name)] # <<".">>
      /\ \A c \in T : \A i \in 1 .. Len(c) - 1 : <<c[i], c[i + 1]>> # <<".", ".">>
      /\ ~LooksLikeId(name)
  BY DEF Valid, EndsInDot, Last
<1>3. name[1] \notin Nowhere /\ name[Len(name)] \notin Nowhere
  BY <1>2 DEF Nowhere
<1>4. /\ Len(p) >= 1 /\ p[1] = name[1] /\ p[Len(p)] = name[Len(name)]
      /\ Len(p) = 1 => Len(name) = 1
  <2>1. Len(name) \in Nat /\ Len(name) >= 1
    OBVIOUS
  <2>2. Len(p) >= 1 /\ p[1] = name[1] /\ p[Len(p)] = name[Len(name)]
    BY <1>1, <1>3
  <2>3. Len(name) >= 2 => Len(p) >= 2
    BY <1>1, <1>3
  <2>4. ASSUME Len(p) = 1 PROVE Len(name) = 1
    <3>1. Len(p) \in Nat /\ ~(Len(p) >= 2)
      BY <1>1, <2>4
    <3>2. ~(Len(name) >= 2)
      BY <2>3, <3>1
    <3> QED BY <2>1, <3>2, JustOne, Zenon
  <2> QED BY <2>2, <2>4
<1>5. Len(p) \in Nat /\ DOMAIN p = 1 .. Len(p) /\ \A i \in 1 .. Len(p) : p[i] \in T \ Nowhere
  BY <1>1
<1>6. Path(p) = p
  <2>1. \A i \in 1 .. Len(p) : p[i] \notin Nowhere
    BY <1>5
  <2> HIDE DEF p
  <2> QED BY <1>1, <2>1, PathFacts
<1> HIDE DEF p
<1>7. p # << >> /\ p \in Seq(Range(p)) /\ Range(p) \subseteq T
  <2>1. p # << >>
    BY <1>1, <1>4, EmptySeq
  <2>2. Range(p) = {p[i] : i \in 1 .. Len(p)}
    BY <1>5 DEF Range
  <2>3. p \in Seq(Range(p))
    BY <1>1, SeqOfRange
  <2>4. Range(p) \subseteq T
    BY <1>5, <2>2
  <2> QED BY <2>1, <2>3, <2>4
<1>8. ~LooksLikeId(p)
  BY <1>2, <1>4 DEF LooksLikeId
<1>9. Valid(p) /\ ~EndsInDot(p)
  BY <1>2, <1>4, <1>7, <1>8 DEF Valid, EndsInDot, Last
<1> QED
  BY <1>6, <1>7, <1>9 DEF Proper, p

LEMMA ParentsFacts ==
    ASSUME NEW T, NEW p \in Seq(T)
    PROVE  /\ p \notin Parents(p)
           /\ \A d \in Parents(p) : Parents(d) \subseteq Parents(p)
<1>1. Len(p) \in Nat /\ \A i \in 1 .. Len(p) : p[i] \in T
  OBVIOUS
<1>2. ASSUME NEW n \in 1 .. Len(p) - 1
      PROVE  Len(SubSeq(p, 1, n)) = n
  BY <1>1, SubSeqProperties
<1>3. p \notin Parents(p)
  <2> SUFFICES ASSUME NEW n \in 1 .. Len(p) - 1, SubSeq(p, 1, n) = p PROVE FALSE
    BY DEF Parents
  <2> QED BY <1>1, <1>2
<1>4. ASSUME NEW n \in 1 .. Len(p) - 1, NEW k \in 1 .. Len(SubSeq(p, 1, n)) - 1
      PROVE  SubSeq(SubSeq(p, 1, n), 1, k) \in Parents(p)
  <2>1. k \in 1 .. n - 1
    BY <1>2
  <2>2. 1 \in 1 .. Len(p) /\ n \in 1 .. Len(p) /\ 1 \in 1 .. n - 1 + 1 /\ k \in 1 .. n - 1 + 1
    BY <1>1, <2>1
  <2>3. SubSeq(SubSeq(p, 1, n), 1, k) = SubSeq(p, 1 + 1 - 1, 1 + k - 1)
    BY <2>2, SubSeqOfSubSeq
  <2>4. SubSeq(SubSeq(p, 1, n), 1, k) = SubSeq(p, 1, k) /\ k \in 1 .. Len(p) - 1
    BY <1>1, <2>1, <2>3
  <2> QED BY <2>4 DEF Parents
<1>5. ASSUME NEW d \in Parents(p), NEW e \in Parents(d)
      PROVE  e \in Parents(p)
  <2>1. PICK n \in 1 .. Len(p) - 1 : d = SubSeq(p, 1, n)
    BY DEF Parents
  <2>2. PICK k \in 1 .. Len(d) - 1 : e = SubSeq(d, 1, k)
    BY DEF Parents
  <2> QED BY <1>4, <2>1, <2>2
<1> QED
  BY <1>3, <1>5

----------------------------------------------------------------------------
(* The branches as a tree of files and directories.                         *)

Tree ==
    /\ snaps \subseteq Ids
    /\ DOMAIN files \subseteq Paths
    /\ \A p \in DOMAIN files : Proper(p) /\ files[p] \in snaps
    /\ \A p \in DOMAIN files : Parents(p) \subseteq dirs /\ p \notin dirs
    /\ \A d \in dirs : Parents(d) \subseteq dirs

LEMMA FoundFile ==
    ASSUME NEW name
    PROVE  /\ Found(name) = "file" => Path(name) \in DOMAIN files /\ ~EndsInDot(name)
           /\ Found(name) = "nothing" =>
                /\ Path(name) \notin DOMAIN files
                /\ Path(name) \notin dirs
           /\ Found(name) \in {"file", "nothing"} =>
                /\ Path(name) \notin dirs
                /\ \A q \in Parents(Path(name)) : q \notin DOMAIN files
BY DEF Found, IsFile

LEMMA FileFound ==
    ASSUME Tree, NEW name, Path(name) \in DOMAIN files, ~EndsInDot(name)
    PROVE  Found(name) = "file"
BY DEF Tree, Found, IsFile

(* A file that is written leaves the tree a tree; every name that led to a  *)
(* file still does, and the written one now does.                           *)
LEMMA SetBranchTree ==
    ASSUME Tree, NEW name \in Typed, Valid(name), NEW id, SetBranch(name, id),
           id \in snaps', snaps \subseteq snaps', snaps' \subseteq Ids
    PROVE  /\ Tree'
           /\ Found(name)' = "file"
           /\ DOMAIN files' = DOMAIN files \cup {Path(name)}
           /\ files'[Path(name)] = id
           /\ \A p \in DOMAIN files : p # Path(name) => files'[p] = files[p]
<1> DEFINE new == Path(name)
<1>1. /\ Found(name) \in {"file", "nothing"} /\ ~EndsInDot(name)
      /\ dirs' = dirs \cup Parents(new)
      /\ files' = [p \in DOMAIN files \cup {new} |-> IF p = new THEN id ELSE files[p]]
  BY DEF SetBranch
<1>2. Proper(new)
  BY <1>1, ValidPath, TypedAssumption
<1>3. new \notin dirs /\ \A q \in Parents(new) : q \notin DOMAIN files
  BY <1>1, FoundFile
<1>4. new \notin Parents(new) /\ \A d \in Parents(new) : Parents(d) \subseteq Parents(new)
  BY <1>2, ParentsFacts DEF Proper
<1> HIDE DEF new
<1>5. /\ DOMAIN files' = DOMAIN files \cup {new}
      /\ files'[new] = id
      /\ \A p \in DOMAIN files : p # new => files'[p] = files[p]
  BY <1>1
<1>6. Tree'
  <2>1. \A p \in DOMAIN files' : Proper(p) /\ files'[p] \in snaps'
    BY <1>2, <1>5 DEF Tree
  <2>2. \A p \in DOMAIN files' : Parents(p) \subseteq dirs' /\ p \notin dirs'
    BY <1>1, <1>3, <1>4, <1>5 DEF Tree
  <2>3. \A d \in dirs' : Parents(d) \subseteq dirs'
    BY <1>1, <1>4 DEF Tree
  <2>4. DOMAIN files' \subseteq Paths
    BY <1>5 DEF Tree, Paths, new
  <2> QED BY <2>1, <2>2, <2>3, <2>4 DEF Tree
<1>7. Found(name)' = "file"
  BY <1>1, <1>5, <1>6 DEF Tree, Found, IsFile, new
<1> QED
  BY <1>5, <1>6, <1>7 DEF new

----------------------------------------------------------------------------
(* Resolving.                                                               *)

LEMMA FileResolves ==
    ASSUME NEW name, Valid(name), Found(name) = "file"
    PROVE  Resolve(name) = {files[Path(name)]}
BY DEF Resolve

LEMMA PrefixGrows ==
    ASSUME snaps \subseteq snaps', NEW text
    PROVE  WithPrefix(text) \subseteq WithPrefix(text)'
BY DEF WithPrefix

LEMMA ByIdStays ==
    ASSUME snaps \subseteq snaps', NEW r, ById(r) # {}, ById(r)' # {}
    PROVE  ById(r)' = ById(r)
<1>1. /\ ById(r) = WithPrefix(r[1]) /\ ById(r)' = WithPrefix(r[1])'
      /\ \A s, t \in WithPrefix(r[1])' : s = t
  BY DEF ById
<1>2. WithPrefix(r[1]) \subseteq WithPrefix(r[1])' /\ WithPrefix(r[1]) # {}
  BY <1>1, PrefixGrows
<1> QED
  BY <1>1, <1>2

LEMMA ResolvesToSnap ==
    ASSUME Tree, NEW r, NEW id \in Resolve(r)
    PROVE  /\ id \in snaps
           /\ BranchExists(r) => Valid(r) /\ Found(r) = "file"
<1>1. CASE ~Valid(r) \/ Found(r) = "nothing"
  BY <1>1 DEF Resolve, ById, WithPrefix, BranchExists
<1>2. CASE Valid(r) /\ Found(r) = "file"
  BY <1>2, FoundFile DEF Resolve, Tree
<1>3. CASE Valid(r) /\ Found(r) \notin {"file", "nothing"}
  BY <1>3 DEF Resolve
<1> QED
  BY <1>1, <1>2, <1>3

LEMMA IdIsId ==
    ASSUME NEW s \in Ids
    PROVE  LooksLikeId(<<s>>) /\ ~Valid(<<s>>)
BY IdsAssumption DEF LooksLikeId, IsHex, Valid

----------------------------------------------------------------------------
(* The invariant: the branches form a tree, and HEAD is one of them, the    *)
(* first branch before it has a file, or a saved id.                        *)

HeadTyped == head \in Typed \/ \E s \in snaps : head = <<s>>

RefsInv == Tree /\ HeadTyped /\ HeadNamesBranch

LEMMA OnTyped ==
    ASSUME Tree, HeadTyped, OnBranch
    PROVE  head \in Typed /\ Valid(head)
BY IdIsId DEF Tree, HeadTyped, OnBranch

LEMMA InitRefs == Init => RefsInv
<1> SUFFICES ASSUME Init PROVE RefsInv
  OBVIOUS
<1>1. Tree /\ HeadTyped
  BY MainAssumption DEF Init, Tree, HeadTyped
<1>2. HeadNamesBranch
  BY DEF Init, HeadNamesBranch, IsFile
<1> QED
  BY <1>1, <1>2 DEF RefsInv

(* What a step that writes no file leaves of HEAD. *)
LEMMA HeadStays ==
    ASSUME HeadNamesBranch, Tree', UNCHANGED head, snaps \subseteq snaps',
           DOMAIN files' = DOMAIN files
    PROVE  HeadNamesBranch'
<1>1. CASE OnBranch /\ Found(head) = "file"
  <2>1. Path(head) \in DOMAIN files' /\ ~EndsInDot(head)
    BY <1>1, FoundFile
  <2>2. Found(head)' = "file"
    BY <2>1 DEF Tree, Found, IsFile
  <2> QED BY <1>1, <2>2 DEF HeadNamesBranch, OnBranch
<1>2. CASE head = Main /\ ~IsFile(Path(Main))
  BY <1>2 DEF HeadNamesBranch, IsFile
<1>3. CASE head \in {<<s>> : s \in snaps}
  BY <1>3 DEF HeadNamesBranch
<1> QED
  BY <1>1, <1>2, <1>3 DEF HeadNamesBranch

(* What a branch that is written leaves of HEAD. *)
LEMMA HeadKept ==
    ASSUME Tree, HeadNamesBranch, UNCHANGED head, snaps \subseteq snaps', Tree',
           NEW name, ~EndsInDot(name), DOMAIN files' = DOMAIN files \cup {Path(name)}
    PROVE  HeadNamesBranch'
<1>1. CASE OnBranch /\ Found(head) = "file"
  <2>1. Path(head) \in DOMAIN files' /\ ~EndsInDot(head)
    BY <1>1, FoundFile
  <2>2. Found(head)' = "file"
    BY <2>1 DEF Tree, Found, IsFile
  <2> QED BY <1>1, <2>2 DEF HeadNamesBranch, OnBranch
<1>2. CASE head = Main /\ ~IsFile(Path(Main))
  <2>1. CASE Path(Main) = Path(name)
    <3>1. Path(head) \in DOMAIN files' /\ ~EndsInDot(head)
      BY <1>2, <2>1, MainAssumption
    <3>2. Found(head)' = "file"
      BY <3>1 DEF Tree, Found, IsFile
    <3> QED BY <1>2, <3>2, MainAssumption DEF HeadNamesBranch, OnBranch
  <2>2. CASE Path(Main) # Path(name)
    BY <1>2, <2>2 DEF HeadNamesBranch, IsFile
  <2> QED BY <2>1, <2>2
<1>3. CASE head \in {<<s>> : s \in snaps}
  BY <1>3 DEF HeadNamesBranch
<1> QED
  BY <1>1, <1>2, <1>3 DEF HeadNamesBranch

LEMMA SnapRefs ==
    ASSUME RefsInv, NEW id \in Ids, Snap(id)
    PROVE  /\ RefsInv'
           /\ OnBranch /\ DOMAIN files' = DOMAIN files \cup {Path(head)}
           /\ \A p \in DOMAIN files : p # Path(head) => files'[p] = files[p]
<1>1. PICK branch \in Typed : branch = head /\ Valid(branch)
  BY OnTyped DEF RefsInv, Snap, SnapReady
<1>2. SetBranch(branch, id) /\ snaps' = snaps \cup {id} /\ head' = branch
  BY <1>1 DEF Snap
<1>3. id \in snaps' /\ snaps \subseteq snaps' /\ snaps' \subseteq Ids
  BY <1>2 DEF RefsInv, Tree
<1>4. /\ Tree' /\ Found(branch)' = "file"
      /\ DOMAIN files' = DOMAIN files \cup {Path(branch)}
      /\ \A p \in DOMAIN files : p # Path(branch) => files'[p] = files[p]
  BY <1>1, <1>2, <1>3, SetBranchTree DEF RefsInv
<1>5. HeadNamesBranch'
  BY <1>1, <1>2, <1>4 DEF HeadNamesBranch, OnBranch
<1>6. HeadTyped'
  BY <1>1, <1>2 DEF HeadTyped
<1> QED
  BY <1>1, <1>4, <1>5, <1>6 DEF RefsInv, OnBranch

LEMMA SnapKilledRefs ==
    ASSUME RefsInv, NEW id \in Ids, SnapKilled(id)
    PROVE  RefsInv'
<1>1. snaps' = snaps \cup {id} /\ UNCHANGED <<files, dirs, head>>
  BY DEF SnapKilled
<1>2. Tree' /\ HeadTyped'
  BY <1>1 DEF RefsInv, Tree, HeadTyped
<1>3. HeadNamesBranch'
  BY <1>1, <1>2, HeadStays DEF RefsInv
<1> QED
  BY <1>2, <1>3 DEF RefsInv

LEMMA BranchRefs ==
    ASSUME RefsInv, NEW name \in Typed, NEW r \in Typed, Branch(name, r)
    PROVE  /\ RefsInv'
           /\ Path(name) \notin DOMAIN files
           /\ DOMAIN files' = DOMAIN files \cup {Path(name)}
           /\ \A p \in DOMAIN files : files'[p] = files[p]
<1>1. PICK id \in Resolve(r) : SetBranch(name, id)
  BY DEF Branch
<1>2. Valid(name) /\ ~BranchExists(name) /\ UNCHANGED <<snaps, head>>
  BY DEF Branch
<1>3. id \in snaps' /\ snaps \subseteq snaps' /\ snaps' \subseteq Ids
  BY <1>1, <1>2, ResolvesToSnap DEF RefsInv, Tree
<1>4. /\ Tree' /\ DOMAIN files' = DOMAIN files \cup {Path(name)}
      /\ \A p \in DOMAIN files : p # Path(name) => files'[p] = files[p]
  BY <1>1, <1>2, <1>3, SetBranchTree DEF RefsInv
<1>5. Found(name) = "nothing" /\ ~EndsInDot(name)
  BY <1>1, <1>2 DEF SetBranch, BranchExists
<1>6. Path(name) \notin DOMAIN files
  BY <1>5, FoundFile
<1>7. HeadNamesBranch'
  BY <1>2, <1>4, <1>5, HeadKept DEF RefsInv
<1>8. HeadTyped'
  BY <1>2 DEF RefsInv, HeadTyped
<1> QED
  BY <1>4, <1>6, <1>7, <1>8 DEF RefsInv

LEMMA BranchKilledRefs ==
    ASSUME RefsInv, NEW name \in Typed, NEW r \in Typed, BranchKilled(name, r)
    PROVE  RefsInv'
<1> DEFINE new == Parents(Path(name))
<1>1. /\ \A p \in new : p \notin DOMAIN files
      /\ dirs' = dirs \cup new
      /\ UNCHANGED <<files, snaps, head>>
  BY DEF BranchKilled, IsFile
<1>2. \A d \in new : Parents(d) \subseteq new
  BY PathFacts, ParentsFacts, TypedAssumption
<1> HIDE DEF new
<1>3. Tree' /\ HeadTyped'
  BY <1>1, <1>2 DEF RefsInv, Tree, HeadTyped
<1>4. HeadNamesBranch'
  BY <1>1, <1>3, HeadStays DEF RefsInv
<1> QED
  BY <1>3, <1>4 DEF RefsInv

LEMMA CheckoutRefs ==
    ASSUME RefsInv, NEW r \in Typed, Checkout(r)
    PROVE  RefsInv'
<1>1. PICK id \in Resolve(r) : head' = IF BranchExists(r) THEN r ELSE <<id>>
  BY DEF Checkout
<1>2. UNCHANGED <<files, dirs, snaps>>
  BY DEF Checkout
<1>3. id \in snaps /\ (BranchExists(r) => Valid(r) /\ Found(r) = "file")
  BY <1>1, ResolvesToSnap DEF RefsInv
<1>4. Tree' /\ HeadTyped'
  BY <1>1, <1>2, <1>3 DEF RefsInv, Tree, HeadTyped
<1>5. Found(r)' = Found(r)
  BY <1>2 DEF Found, IsFile
<1>6. HeadNamesBranch'
  BY <1>1, <1>2, <1>3, <1>5 DEF HeadNamesBranch, OnBranch
<1> QED
  BY <1>4, <1>6 DEF RefsInv

LEMMA RefsStay == RefsInv /\ UNCHANGED vars => RefsInv'
BY DEF vars, RefsInv, Tree, HeadTyped, HeadNamesBranch, OnBranch, Found, IsFile

LEMMA NextRefs == RefsInv /\ [Next]_vars => RefsInv'
BY SnapRefs, SnapKilledRefs, BranchRefs, BranchKilledRefs, CheckoutRefs, RefsStay DEF Next

LEMMA SpecRefs == Spec => []RefsInv
BY InitRefs, NextRefs, PTL DEF Spec

(* Every branch is a saved id under a path of directories of its own.       *)
THEOREM RefsTypeCorrect == Spec => []TypeOK
<1>1. RefsInv => TypeOK
  BY DEF RefsInv, Tree, HeadTyped, TypeOK
<1> QED
  BY <1>1, SpecRefs, PTL

(* HEAD names a branch that has a file, the first branch before it has one, *)
(* or a saved id, whatever was typed and wherever a command was killed.     *)
THEOREM HeadAlwaysNamesBranch == Spec => []HeadNamesBranch
<1>1. RefsInv => HeadNamesBranch
  BY DEF RefsInv
<1> QED
  BY <1>1, SpecRefs, PTL

(* Whatever is listed can be typed back and means what is printed beside it. *)
THEOREM ListedAlwaysResolves == Spec => []ListedResolves
<1>1. RefsInv => ListedResolves
  <2> SUFFICES ASSUME RefsInv PROVE ListedResolves
    OBVIOUS
  <2>1. ASSUME NEW p \in DOMAIN files
        PROVE  Valid(p) /\ Resolve(p) = {files[p]}
    <3>1. Proper(p) /\ Tree
      BY DEF RefsInv, Tree
    <3>2. Found(p) = "file"
      BY <3>1, FileFound DEF Proper
    <3> QED BY <3>1, <3>2, FileResolves DEF Proper
  <2>2. ASSUME NEW s \in snaps
        PROVE  Resolve(<<s>>) = {s}
    <3>1. s \in Ids /\ snaps \subseteq Ids
      BY DEF RefsInv, Tree
    <3>2. s \in Seq(HexDigits) /\ MinPrefix \in Nat /\ Len(s) >= MinPrefix
      BY <3>1, IdsAssumption
    <3>3. ASSUME NEW t \in Ids
          PROVE  Len(t) = Len(s) /\ SubSeq(t, 1, Len(t)) = t
      BY <3>1, IdsAssumption, SubSeqFull
    <3>4. WithPrefix(s) = {s}
      BY <3>1, <3>2, <3>3 DEF WithPrefix
    <3>5. Len(<<s>>) = 1 /\ <<s>>[1] = s /\ IsHex(s)
      BY <3>2 DEF IsHex
    <3>6. ById(<<s>>) = {s}
      BY <3>2, <3>4, <3>5 DEF ById
    <3> QED BY <3>1, <3>6, IdIsId DEF Resolve
  <2> QED BY <2>1, <2>2 DEF ListedResolves
<1> QED
  BY <1>1, SpecRefs, PTL

----------------------------------------------------------------------------
(* The steps as the action properties see them.                             *)

(* A step writes no file, or writes the one of HEAD's branch, or adds one.  *)
WritesNone == UNCHANGED files

WritesHead ==
    /\ OnBranch /\ UNCHANGED head
    /\ DOMAIN files' = DOMAIN files \cup {Path(head)}
    /\ \A p \in DOMAIN files : p # Path(head) => files'[p] = files[p]

Adds ==
    /\ DOMAIN files \subseteq DOMAIN files'
    /\ \A p \in DOMAIN files : files'[p] = files[p]

LEMMA StepWrites ==
    ASSUME RefsInv, [Next]_vars
    PROVE  WritesNone \/ WritesHead \/ Adds
<1>1. ASSUME NEW id \in Ids, Snap(id) PROVE WritesHead
  BY <1>1, SnapRefs DEF WritesHead, Snap
<1>2. ASSUME NEW id \in Ids, SnapKilled(id) PROVE WritesNone
  BY <1>2 DEF WritesNone, SnapKilled
<1>3. ASSUME NEW name \in Typed, NEW r \in Typed, Branch(name, r) PROVE Adds
  BY <1>3, BranchRefs DEF Adds
<1>4. ASSUME NEW name \in Typed, NEW r \in Typed, BranchKilled(name, r) PROVE WritesNone
  BY <1>4 DEF WritesNone, BranchKilled
<1>5. ASSUME NEW r \in Typed, Checkout(r) PROVE WritesNone
  BY <1>5 DEF WritesNone, Checkout
<1>6. UNCHANGED vars => WritesNone
  BY DEF vars, WritesNone
<1> QED
  BY <1>1, <1>2, <1>3, <1>4, <1>5, <1>6 DEF Next

LEMMA SnapsGrow ==
    ASSUME [Next]_vars
    PROVE  snaps \subseteq snaps'
BY DEF Next, vars, Snap, SnapKilled, Branch, BranchKilled, Checkout

(* Only a snap moves a branch, and only its own. *)
THEOREM NothingIsOverwritten == Spec => NothingOverwritten
<1>1. RefsInv /\ [Next]_vars =>
        [\A p \in DOMAIN files :
           /\ p \in DOMAIN files'
           /\ files'[p] # files[p] => OnBranch /\ p = Path(head) /\ UNCHANGED head]_vars
  BY StepWrites DEF WritesNone, WritesHead, Adds
<1> QED
  BY <1>1, SpecRefs, PTL DEF Spec, NothingOverwritten

(* What is typed never silently comes to mean another snapshot. *)
THEOREM NothingRetargets == Spec => NeverRetargets
<1>1. ASSUME RefsInv, [Next]_vars, NEW r \in Typed,
             Resolve(r) # {}, Resolve(r)' # {}, Resolve(r)' # Resolve(r)
      PROVE  \/ OnBranch /\ Path(r) = Path(head)
             \/ Valid(r) /\ Path(r) \in (DOMAIN files') \ DOMAIN files
  <2>1. RefsInv' /\ snaps \subseteq snaps'
    BY <1>1, NextRefs, SnapsGrow
  <2>2. CASE ~Valid(r)
    <3>1. Resolve(r) = ById(r) /\ Resolve(r)' = ById(r)'
      BY <2>2 DEF Resolve
    <3> QED BY <1>1, <2>1, <3>1, ByIdStays
  <2>3. CASE Valid(r) /\ Found(r) = "nothing" /\ Found(r)' = "nothing"
    <3>1. Resolve(r) = ById(r) /\ Resolve(r)' = ById(r)'
      BY <2>3 DEF Resolve
    <3> QED BY <1>1, <2>1, <3>1, ByIdStays
  <2>4. CASE Valid(r) /\ Found(r) = "nothing" /\ Found(r)' # "nothing"
    <3>1. Found(r)' = "file"
      BY <1>1, <2>4 DEF Resolve
    <3>2. Path(r) \in DOMAIN files' /\ Path(r) \notin DOMAIN files
      BY <2>4, <3>1, FoundFile DEF Found, IsFile
    <3> QED BY <2>4, <3>2
  <2>5. CASE Valid(r) /\ Found(r) = "file"
    <3>1. Path(r) \in DOMAIN files /\ ~EndsInDot(r)
      BY <2>5, FoundFile
    <3>2. Path(r) \in DOMAIN files'
      BY <1>1, <3>1, StepWrites DEF WritesNone, WritesHead, Adds
    <3>3. Found(r)' = "file"
      BY <2>1, <3>1, <3>2 DEF RefsInv, Tree, Found, IsFile
    <3>4. Resolve(r) = {files[Path(r)]} /\ Resolve(r)' = {files'[Path(r)]}
      BY <2>5, <3>3 DEF Resolve
    <3>5. files'[Path(r)] # files[Path(r)]
      BY <1>1, <3>4
    <3> QED BY <1>1, <3>1, <3>5, StepWrites DEF WritesNone, WritesHead, Adds
  <2>6. CASE Valid(r) /\ Found(r) \notin {"file", "nothing"}
    BY <1>1, <2>6 DEF Resolve
  <2> QED BY <2>2, <2>3, <2>4, <2>5, <2>6
<1>2. RefsInv /\ [Next]_vars =>
        [\A r \in Typed : Resolve(r) # {} /\ Resolve(r)' # {} /\ Resolve(r)' # Resolve(r)
           => \/ OnBranch /\ Path(r) = Path(head)
              \/ Valid(r) /\ Path(r) \in (DOMAIN files') \ DOMAIN files]_vars
  BY <1>1
<1> QED
  BY <1>2, SpecRefs, PTL DEF Spec, NeverRetargets

============================================================================
