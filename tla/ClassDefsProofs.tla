-------------------------- MODULE ClassDefsProofs --------------------------
(***************************************************************************)
(* Proofs about class definitions, for programs of any number of classes,  *)
(* methods and levels of derivation: no check of the builder fails.        *)
(*                                                                         *)
(* The invariant, DefsInv, says where the slots of each class begin and    *)
(* end, that the functions a class introduced fill that interval and its   *)
(* overrides lie before it, and which nested classes wait for which open   *)
(* one.  The module begins with sequences, recursive functions and folds,  *)
(* goes on with the operators of ClassDefs one by one (ancestors, lookup,  *)
(* vtables, methods, begin and end of a class), and ends with the actions  *)
(* of the parser.                                                          *)
(***************************************************************************)
EXTENDS ClassDefs, Integers, SequenceTheorems, FiniteSetTheorems, FunctionTheorems,
        WellFoundedInduction, TLAPS

-----------------------------------------------------------------------------
(* Sequences, sets of numbers.                                             *)

IsSeq(s) == s \in Seq(Range(s))

LEMMA SeqFacts ==
  ASSUME NEW s, IsSeq(s)
  PROVE  /\ Len(s) \in Nat
         /\ DOMAIN s = 1 .. Len(s)
         /\ s = <<>> <=> Len(s) = 0
  BY DEF IsSeq

LEMMA SeqIs ==
  ASSUME NEW S, NEW s \in Seq(S)
  PROVE  IsSeq(s) /\ \A i \in DOMAIN s : s[i] \in S
<1>1. Len(s) \in Nat /\ DOMAIN s = 1 .. Len(s) /\ \A i \in 1 .. Len(s) : s[i] \in S
  OBVIOUS
<1>2. s \in [1 .. Len(s) -> Range(s)]
  BY <1>1 DEF Range
<1> QED
  BY <1>1, <1>2 DEF IsSeq

LEMMA IsSeqIn ==
  ASSUME NEW S, NEW s, IsSeq(s), \A i \in DOMAIN s : s[i] \in S
  PROVE  s \in Seq(S)
<1>1. Range(s) \subseteq S
  BY DEF Range
<1> QED
  BY <1>1, SeqMonotonic DEF IsSeq

LEMMA AppendIs ==
  ASSUME NEW s, IsSeq(s), NEW e
  PROVE  /\ IsSeq(Append(s, e))
         /\ Len(Append(s, e)) = Len(s) + 1
         /\ DOMAIN Append(s, e) = DOMAIN s \cup {Len(s) + 1}
         /\ Len(s) + 1 \notin DOMAIN s
         /\ \A i \in DOMAIN s : Append(s, e)[i] = s[i]
         /\ Append(s, e)[Len(s) + 1] = e
<1> DEFINE S == Range(s) \cup {e}
<1>1. s \in Seq(S)
  BY SeqMonotonic DEF IsSeq
<1> HIDE DEF S
<1>2. e \in S
  BY DEF S
<1>3. Append(s, e) \in Seq(S)
  BY <1>1, <1>2
<1>4. /\ Len(Append(s, e)) = Len(s) + 1
      /\ \A i \in 1 .. Len(s) : Append(s, e)[i] = s[i]
      /\ Append(s, e)[Len(s) + 1] = e
      /\ Len(s) \in Nat
      /\ DOMAIN s = 1 .. Len(s)
  BY <1>1, <1>2, AppendProperties
<1>5. IsSeq(Append(s, e))
  BY <1>3, SeqIs
<1>6. DOMAIN Append(s, e) = 1 .. (Len(s) + 1)
  BY <1>4, <1>5, SeqFacts
<1>7. 1 .. (Len(s) + 1) = (1 .. Len(s)) \cup {Len(s) + 1} /\ Len(s) + 1 \notin 1 .. Len(s)
  BY <1>4
<1> QED
  BY <1>4, <1>5, <1>6, <1>7

LEMMA FunctionIsSeq ==
  ASSUME NEW n \in Nat, NEW S, NEW t \in [1 .. n -> S]
  PROVE  t \in Seq(S)
  OBVIOUS

LEMMA ExceptIs ==
  ASSUME NEW s, IsSeq(s), NEW i, NEW e, NEW t, t = [s EXCEPT ![i] = e]
  PROVE  /\ IsSeq(t)
         /\ Len(t) = Len(s)
         /\ DOMAIN t = DOMAIN s
         /\ i \in DOMAIN s => t[i] = e
         /\ \A j \in DOMAIN s : j # i => t[j] = s[j]
<1>1. Len(s) \in Nat /\ DOMAIN s = 1 .. Len(s)
  BY SeqFacts
<1>2. DOMAIN t = 1 .. Len(s)
  BY <1>1
<1>3. t \in [1 .. Len(s) -> Range(t)]
  BY <1>2 DEF Range
<1>4. t \in Seq(Range(t))
  BY <1>1, <1>3, FunctionIsSeq, Zenon
<1>5. Len(t) = Len(s)
  BY <1>1, <1>2, <1>4
<1> QED
  BY <1>1, <1>2, <1>4, <1>5 DEF IsSeq

\* A nonempty set of numbers has a least one.
LEMMA LeastNumber ==
  ASSUME NEW S \in SUBSET Nat, S # {}
  PROVE  \E k \in S : \A j \in S : k <= j
<1> DEFINE Less == {p \in Nat \X Nat : p[1] < p[2]}
<1>1. IsWellFoundedOn(Less, Nat)
  BY NatLessThanWellFounded, Zenon DEF OpToRel
<1>2. PICK k \in S : \A j \in S : ~(<<j, k>> \in Less)
  <2> HIDE DEF Less
  <2> QED
    BY <1>1, WFMin, Zenon
<1>3. \A j \in S : k <= j
  <2> SUFFICES ASSUME NEW j \in S, ~(k <= j) PROVE FALSE
    OBVIOUS
  <2>1. j \in Nat /\ k \in Nat /\ j < k
    OBVIOUS
  <2>2. <<j, k>> \in Less
    BY <2>1
  <2> QED
    BY <1>2, <2>2, Zenon
<1> QED
  BY <1>3

\* A nonempty set of indices has its maximum.
LEMMA MaxIsMember ==
  ASSUME NEW n \in Nat, NEW s \in SUBSET (1 .. n), s # {}
  PROVE  Max(s) \in s /\ \A x \in s : x <= Max(s)
<1> DEFINE Bounds == {k \in Nat : \A x \in s : x <= k}
<1>1. n \in Bounds
  OBVIOUS
<1>2. PICK k \in Bounds : \A j \in Bounds : k <= j
  <2> HIDE DEF Bounds
  <2>1. Bounds \subseteq Nat
    BY DEF Bounds
  <2> QED
    BY <1>1, <2>1, LeastNumber
<1>3. k \in Nat /\ \A x \in s : x <= k
  OBVIOUS
<1>4. k \in s
  <2> SUFFICES ASSUME k \notin s PROVE FALSE
    OBVIOUS
  <2>1. \A x \in s : x \in Nat /\ x < k
    BY <1>3
  <2>2. k # 0
    <3>1. PICK x \in s : TRUE
      OBVIOUS
    <3>2. x \in Nat /\ x < k
      BY <2>1
    <3> QED
      BY <3>2
  <2>3. k - 1 \in Nat /\ \A x \in s : x <= k - 1
    BY <1>3, <2>1, <2>2
  <2>4. k - 1 \in Bounds
    BY <2>3
  <2>5. k <= k - 1
    BY <1>2, <2>4
  <2> QED
    BY <1>3, <2>5
<1>5. \A y \in s : k >= y
  BY <1>3
<1>6. \E x \in s : \A y \in s : x >= y
  BY <1>4, <1>5
<1>7. Max(s) \in s /\ \A y \in s : Max(s) >= y
  BY <1>6 DEF Max
<1> QED
  BY <1>7

LEMMA MinIsMember ==
  ASSUME NEW n \in Nat, NEW s \in SUBSET (1 .. n), s # {}
  PROVE  Min(s) \in s
<1>1. s \in SUBSET Nat
  OBVIOUS
<1>2. \E k \in s : \A j \in s : k <= j
  BY <1>1, LeastNumber
<1> QED
  BY <1>2 DEF Min

\* What is left without the maximum is smaller by one.
LEMMA WithoutMax ==
  ASSUME NEW n \in Nat, NEW s \in SUBSET (1 .. n)
  PROVE  /\ IsFiniteSet(s)
         /\ Cardinality(s) \in Nat
         /\ s = {} <=> Cardinality(s) = 0
         /\ s # {} => /\ s \ {Max(s)} \in SUBSET (1 .. n)
                      /\ Cardinality(s \ {Max(s)}) = Cardinality(s) - 1
                      /\ Cardinality(s) - 1 \in Nat
<1>1. IsFiniteSet(s)
  <2>1. IsFiniteSet(1 .. n)
    BY FS_Interval
  <2> QED
    BY <2>1, FS_Subset
<1>2. Cardinality(s) \in Nat /\ (s = {} <=> Cardinality(s) = 0)
  BY <1>1, FS_CardinalityType, FS_EmptySet
<1>3. s # {} => Max(s) \in s
  BY MaxIsMember
<1>4. s # {} => Cardinality(s \ {Max(s)}) = Cardinality(s) - 1
  BY <1>1, <1>3, FS_RemoveElement
<1>5. s # {} => Cardinality(s) - 1 \in Nat
  <2>1. \A c \in Nat : c # 0 => c - 1 \in Nat
    OBVIOUS
  <2> QED
    BY <1>2, <2>1
<1>6. s \ {Max(s)} \in SUBSET (1 .. n)
  OBVIOUS
<1> QED
  BY <1>1, <1>2, <1>4, <1>5, <1>6

-----------------------------------------------------------------------------
(* Recursive functions.  The solution of a recursion is constructed once   *)
(* for all the recursive functions of the definitions: a lemma cannot take *)
(* an operator as a parameter, so each recursion has a name.               *)

FindStep(h, n, f, x) ==
  LET own  == {g \in Own(h, x) : h.funcs[g].name = n}
      ps   == h.types[x].parents
      hits == {i \in DOMAIN ps : f[ps[i]] # 0}
  IN  IF own # {} THEN Min(own)
      ELSE IF hits = {} THEN 0 ELSE f[ps[Min(hits)]]

FirstStep(h, f, x) ==
  LET p == h.types[x].parents[FirstVTableParent(h, x)]
  IN  IF x = VTableBase \/ p = VTableBase THEN x ELSE f[p]

UpStep(h, f, x) == {x} \union UNION {f[p] : p \in Range(h.types[x].parents)}

OrderStep(h, f, x) ==
  LET ps == h.types[x].parents
      of(b) == IF b # VTableBase /\ h.types[b].hasVTable THEN f[b] ELSE <<>>
  IN  Append(FlattenSeq([i \in DOMAIN ps |-> of(ps[i])]), x)

DownStep(h, f, x) ==
  LET kids == h.types[x].children
  IN  <<x>> \o FlattenSeq([i \in DOMAIN kids |-> f[kids[i]]])

FlattenStep(seqs, f, i) == IF i = 1 THEN seqs[i] ELSE f[i - 1] \o seqs[i]

\* The folds, and the recursion of FoldLeft over the sets of indices.
Folded(fold, acc, x) ==
  CASE fold.k = "fix"    -> fixType(acc, x)
    [] fold.k = "extend" -> extendVTables(fold.h, acc, x)
    [] fold.k = "add"    -> IF fold.h.funcs[x].owner = fold.x /\ fold.h.funcs[x].virtual
                            THEN addToVTables(fold.h, acc, x) ELSE acc

FoldStep(fold, base, seq, f, s) ==
  IF s = {} THEN base ELSE Folded(fold, f[s \ {Max(s)}], seq[Max(s)])

RecStep(rec, f, x) ==
  CASE rec.k = "find"    -> FindStep(rec.h, rec.n, f, x)
    [] rec.k = "first"   -> FirstStep(rec.h, f, x)
    [] rec.k = "up"      -> UpStep(rec.h, f, x)
    [] rec.k = "order"   -> OrderStep(rec.h, f, x)
    [] rec.k = "down"    -> DownStep(rec.h, f, x)
    [] rec.k = "flatten" -> FlattenStep(rec.h, f, x)
    [] rec.k = "fold"    -> FoldStep(rec.fold, rec.base, rec.seq, f, x)

\* f and g agree wherever mu is less than at x.
AgreeBelow(D, mu, f, g, x) == \A y \in D : mu[y] < mu[x] => f[y] = g[y]

IsRec(rec, D, f) == f = [x \in D |-> RecStep(rec, f, x)]

\* A recursion has a solution when each value needs only the values where mu is less.
LEMMA RecExists ==
  ASSUME NEW rec, NEW D, NEW N \in Nat, NEW mu \in [D -> 0 .. N],
         \A f, g : \A x \in D :
            AgreeBelow(D, mu, f, g, x) => RecStep(rec, f, x) = RecStep(rec, g, x)
  PROVE  \E f : IsRec(rec, D, f)
<1> DEFINE Sub(n) == {x \in D : mu[x] < n}
           Solves(f, n) == f = [x \in Sub(n) |-> RecStep(rec, f, x)]
           Bad == {n \in Nat : ~\E f : Solves(f, n)}
<1>1. \A n \in Nat : \E f : Solves(f, n)
  <2> SUFFICES ASSUME Bad # {} PROVE FALSE
    OBVIOUS
  <2>1. PICK n \in Bad : \A j \in Bad : n <= j
    <3>1. Bad \subseteq Nat
      OBVIOUS
    <3> HIDE DEF Bad
    <3> QED
      BY <3>1, LeastNumber
  <2>2. n \in Nat /\ ~\E f : Solves(f, n)
    OBVIOUS
  <2>3. n # 0
    <3> SUFFICES ASSUME n = 0 PROVE FALSE
      OBVIOUS
    <3> DEFINE f == [x \in Sub(0) |-> 0]
    <3>1. Sub(0) = {}
      OBVIOUS
    <3>2. f = [x \in Sub(0) |-> RecStep(rec, f, x)]
      <4> HIDE DEF Sub
      <4> QED
        BY <3>1
    <3> QED
      BY <3>2, <2>2
  <2>4. n - 1 \in Nat /\ n - 1 \notin Bad
    <3> HIDE DEF Bad
    <3> QED
      BY <2>1, <2>2, <2>3
  <2>5. PICK below : Solves(below, n - 1)
    BY <2>4
  <2> DEFINE f == [x \in Sub(n) |-> RecStep(rec, below, x)]
  <2>6. \A x \in Sub(n - 1) : x \in Sub(n) /\ f[x] = below[x]
    <3>1. \A x \in Sub(n - 1) : x \in Sub(n)
      BY <2>2, <2>4
    <3>2. \A x \in Sub(n - 1) : below[x] = RecStep(rec, below, x)
      <4>1. below = [x \in Sub(n - 1) |-> RecStep(rec, below, x)]
        BY <2>5
      <4> HIDE DEF Sub
      <4> QED
        BY <4>1
    <3> HIDE DEF Sub
    <3> QED
      BY <3>1, <3>2
  <2>7. \A x \in Sub(n) : RecStep(rec, below, x) = RecStep(rec, f, x)
    <3> TAKE x \in Sub(n)
    <3>1. x \in D
      OBVIOUS
    <3>2. \A y \in D : mu[y] < mu[x] => y \in Sub(n - 1)
      BY <2>2, <2>4
    <3> HIDE DEF Sub, f
    <3>3. AgreeBelow(D, mu, below, f, x)
      BY <2>6, <3>2 DEF AgreeBelow
    <3> QED
      BY <3>1, <3>3
  <2>8. f = [x \in Sub(n) |-> RecStep(rec, f, x)]
    <3> DEFINE k == [x \in Sub(n) |-> RecStep(rec, f, x)]
    <3>1. \A x \in Sub(n) : f[x] = k[x]
      BY <2>7
    <3>2. f = k
      BY <2>7
    <3> QED
      BY <3>2
  <2> QED
    BY <2>8, <2>2
<1>2. PICK f : Solves(f, N + 1)
  <2>1. N + 1 \in Nat
    OBVIOUS
  <2> HIDE DEF Solves
  <2> QED
    BY <1>1, <2>1
<1>3. Sub(N + 1) = D
  OBVIOUS
<1> QED
  BY <1>2, <1>3 DEF IsRec

-----------------------------------------------------------------------------
(* Folds.                                                                  *)

IsFold(fold, base, seq, f) ==
  f = [s \in SUBSET DOMAIN seq |-> FoldStep(fold, base, seq, f, s)]

\* f[1 .. i] is the accumulator after i elements.
IsRun(fold, base, seq, f) ==
  /\ f[1 .. 0] = base
  /\ \A i \in 1 .. Len(seq) : f[1 .. i] = Folded(fold, f[1 .. (i - 1)], seq[i])

FoldRec(fold, base, seq) == [k |-> "fold", fold |-> fold, base |-> base, seq |-> seq]

LEMMA FoldExists ==
  ASSUME NEW fold, NEW base, NEW seq, IsSeq(seq)
  PROVE  \E f : IsFold(fold, base, seq, f)
<1> DEFINE rec == FoldRec(fold, base, seq)
           D == SUBSET DOMAIN seq
           mu == [s \in D |-> Cardinality(s)]
<1>1. Len(seq) \in Nat /\ DOMAIN seq = 1 .. Len(seq)
  BY SeqFacts
<1>2. \A f, s : RecStep(rec, f, s) = FoldStep(fold, base, seq, f, s)
  BY DEF RecStep, FoldRec
<1>3. \A s \in D : Cardinality(s) \in 0 .. Len(seq)
  <2> TAKE s \in D
  <2>1. IsFiniteSet(1 .. Len(seq)) /\ Cardinality(1 .. Len(seq)) = Len(seq)
    BY <1>1, FS_Interval
  <2>2. Cardinality(s) \in Nat /\ Cardinality(s) <= Len(seq)
    BY <1>1, <2>1, FS_Subset, FS_CardinalityType
  <2> QED
    BY <2>2
<1>4. mu \in [D -> 0 .. Len(seq)]
  BY <1>3
<1>5. \A f, g : \A s \in D :
        AgreeBelow(D, mu, f, g, s) => RecStep(rec, f, s) = RecStep(rec, g, s)
  <2> TAKE f, g
  <2> TAKE s \in D
  <2> HAVE AgreeBelow(D, mu, f, g, s)
  <2>1. CASE s = {}
    BY <1>2, <2>1 DEF FoldStep
  <2>2. CASE s # {}
    <3>1. /\ s \ {Max(s)} \in D
          /\ Cardinality(s \ {Max(s)}) = Cardinality(s) - 1
          /\ Cardinality(s) \in Nat
      BY <1>1, <2>2, WithoutMax
    <3>2. Cardinality(s \ {Max(s)}) < Cardinality(s)
      BY <3>1
    <3>3. f[s \ {Max(s)}] = g[s \ {Max(s)}]
      BY <3>1, <3>2 DEF AgreeBelow
    <3> QED
      BY <1>2, <2>2, <3>3 DEF FoldStep
  <2> QED
    BY <2>1, <2>2
<1> HIDE DEF rec, D, mu
<1>6. PICK f : IsRec(rec, D, f)
  BY <1>1, <1>4, <1>5, RecExists
<1>7. f = [s \in D |-> FoldStep(fold, base, seq, f, s)]
  BY <1>2, <1>6 DEF IsRec
<1> QED
  BY <1>7 DEF D, IsFold

LEMMA FoldRuns ==
  ASSUME NEW fold, NEW base, NEW seq, IsSeq(seq), NEW f, IsFold(fold, base, seq, f)
  PROVE  IsRun(fold, base, seq, f) /\ DOMAIN seq = 1 .. Len(seq)
<1>1. Len(seq) \in Nat /\ DOMAIN seq = 1 .. Len(seq)
  BY SeqFacts
<1>2. \A s \in SUBSET DOMAIN seq : f[s] = FoldStep(fold, base, seq, f, s)
  BY DEF IsFold
<1>3. f[1 .. 0] = base
  <2>1. 1 .. 0 = {} /\ 1 .. 0 \in SUBSET DOMAIN seq
    BY <1>1
  <2> QED
    BY <1>2, <2>1 DEF FoldStep
<1>4. ASSUME NEW i \in 1 .. Len(seq)
      PROVE  f[1 .. i] = Folded(fold, f[1 .. (i - 1)], seq[i])
  <2>1. 1 .. i \in SUBSET DOMAIN seq /\ 1 .. i # {}
    BY <1>1
  <2>2. Max(1 .. i) \in 1 .. i /\ \A x \in 1 .. i : x <= Max(1 .. i)
    BY <1>1, <2>1, MaxIsMember
  <2>3. Max(1 .. i) = i
    <3> DEFINE mx == Max(1 .. i)
    <3>1. mx \in 1 .. i /\ i <= mx
      BY <2>2, <1>1
    <3> HIDE DEF mx
    <3>2. mx = i
      BY <3>1, <1>1
    <3> QED
      BY <3>2 DEF mx
  <2>4. (1 .. i) \ {i} = 1 .. (i - 1)
    BY <1>1
  <2> QED
    BY <1>2, <2>1, <2>3, <2>4 DEF FoldStep
<1> QED
  BY <1>1, <1>3, <1>4 DEF IsRun

LEMMA FixFold ==
  ASSUME NEW h, NEW seq, IsSeq(seq)
  PROVE  \E f : /\ IsRun([k |-> "fix"], h, seq, f)
                /\ FoldLeft(fixType, h, seq) = f[1 .. Len(seq)]
<1> DEFINE E(k) == [s \in SUBSET DOMAIN seq |->
                      IF s = {} THEN h ELSE fixType(k[s \ {Max(s)}], seq[Max(s)])]
           f == CHOOSE k : k = E(k)
           fold == [k |-> "fix"]
<1>1. FoldLeft(fixType, h, seq) = f[DOMAIN seq]
  BY Zenon DEF FoldLeft, MapThenFoldSet
<1>2. \A k : E(k) = [s \in SUBSET DOMAIN seq |-> FoldStep(fold, h, seq, k, s)]
  BY DEF FoldStep, Folded
<1>3. \E k : k = E(k)
  <2> HIDE DEF fold, E
  <2>1. PICK k : IsFold(fold, h, seq, k)
    BY FoldExists
  <2> QED
    BY <1>2, <2>1 DEF IsFold
<1> HIDE DEF E
<1>4. f = E(f)
  BY <1>3
<1> HIDE DEF f
<1>5. IsFold(fold, h, seq, f)
  BY <1>2, <1>4 DEF IsFold
<1>6. IsRun(fold, h, seq, f) /\ DOMAIN seq = 1 .. Len(seq)
  <2> HIDE DEF fold
  <2> QED
    BY <1>5, FoldRuns
<1> QED
  BY <1>1, <1>6

ExtendAll(h, tables, seq) ==
  FoldLeft(LAMBDA ts, x : extendVTables(h, ts, x), tables, seq)

LEMMA ExtendFold ==
  ASSUME NEW h, NEW tables, NEW seq, IsSeq(seq)
  PROVE  \E f : /\ IsRun([k |-> "extend", h |-> h], tables, seq, f)
                /\ ExtendAll(h, tables, seq) = f[1 .. Len(seq)]
<1> DEFINE E(k) == [s \in SUBSET DOMAIN seq |->
                      IF s = {} THEN tables
                      ELSE extendVTables(h, k[s \ {Max(s)}], seq[Max(s)])]
           f == CHOOSE k : k = E(k)
           fold == [k |-> "extend", h |-> h]
<1>1. ExtendAll(h, tables, seq) = f[DOMAIN seq]
  BY Zenon DEF ExtendAll, FoldLeft, MapThenFoldSet
<1>2. \A k : E(k) = [s \in SUBSET DOMAIN seq |-> FoldStep(fold, tables, seq, k, s)]
  BY DEF FoldStep, Folded
<1>3. \E k : k = E(k)
  <2> HIDE DEF fold, E
  <2>1. PICK k : IsFold(fold, tables, seq, k)
    BY FoldExists
  <2> QED
    BY <1>2, <2>1 DEF IsFold
<1> HIDE DEF E
<1>4. f = E(f)
  BY <1>3
<1> HIDE DEF f
<1>5. IsFold(fold, tables, seq, f)
  BY <1>2, <1>4 DEF IsFold
<1>6. IsRun(fold, tables, seq, f) /\ DOMAIN seq = 1 .. Len(seq)
  <2> HIDE DEF fold
  <2> QED
    BY <1>5, FoldRuns
<1> QED
  BY <1>1, <1>6

LEMMA AddFold ==
  ASSUME NEW h, NEW tables, NEW x, IsSeq(h.funcs)
  PROVE  \E f : LET seq == [i \in DOMAIN h.funcs |-> i]
                IN  /\ IsRun([k |-> "add", h |-> h, x |-> x], tables, seq, f)
                    /\ extendVTables(h, tables, x) = f[1 .. Len(h.funcs)]
                    /\ Len(seq) = Len(h.funcs)
<1> DEFINE seq == [i \in DOMAIN h.funcs |-> i]
           E(k) == [s \in SUBSET DOMAIN seq |->
                      IF s = {} THEN tables
                      ELSE IF /\ h.funcs[seq[Max(s)]].owner = x
                              /\ h.funcs[seq[Max(s)]].virtual
                           THEN addToVTables(h, k[s \ {Max(s)}], seq[Max(s)])
                           ELSE k[s \ {Max(s)}]]
           f == CHOOSE k : k = E(k)
           fold == [k |-> "add", h |-> h, x |-> x]
<1>1. extendVTables(h, tables, x) = f[DOMAIN seq]
  BY Zenon DEF extendVTables, FoldLeft, MapThenFoldSet
<1>2. \A k : E(k) = [s \in SUBSET DOMAIN seq |-> FoldStep(fold, tables, seq, k, s)]
  <2> HIDE DEF seq
  <2> QED
    BY DEF FoldStep, Folded
<1>3. IsSeq(seq) /\ Len(seq) = Len(h.funcs)
  <2>1. Len(h.funcs) \in Nat /\ DOMAIN h.funcs = 1 .. Len(h.funcs)
    BY SeqFacts
  <2>2. seq \in [1 .. Len(h.funcs) -> Nat]
    BY <2>1
  <2>3. seq \in Seq(Nat) /\ Len(seq) = Len(h.funcs)
    <3> HIDE DEF seq
    <3> QED
      BY <2>1, <2>2
  <2> HIDE DEF seq
  <2> QED
    BY <2>3, SeqIs
<1>4. \E k : k = E(k)
  <2> HIDE DEF fold, E, seq
  <2>1. PICK k : IsFold(fold, tables, seq, k)
    BY <1>3, FoldExists
  <2> QED
    BY <1>2, <2>1 DEF IsFold
<1> HIDE DEF E
<1>5. f = E(f)
  BY <1>4
<1> HIDE DEF f, seq
<1>6. IsFold(fold, tables, seq, f)
  BY <1>2, <1>5 DEF IsFold
<1>7. IsRun(fold, tables, seq, f) /\ DOMAIN seq = 1 .. Len(seq)
  <2> HIDE DEF fold
  <2> QED
    BY <1>3, <1>6, FoldRuns
<1> QED
  BY <1>1, <1>3, <1>7 DEF seq

-----------------------------------------------------------------------------
(* Concatenation.                                                          *)

LEMMA ConcatIs ==
  ASSUME NEW s, IsSeq(s), NEW t, IsSeq(t)
  PROVE  /\ IsSeq(s \o t)
         /\ Len(s \o t) = Len(s) + Len(t)
         /\ \A i \in 1 .. Len(s) : (s \o t)[i] = s[i]
         /\ \A i \in 1 .. Len(t) : (s \o t)[Len(s) + i] = t[i]
         /\ Range(s \o t) = Range(s) \cup Range(t)
<1> DEFINE S == Range(s) \cup Range(t)
<1>1. s \in Seq(S) /\ t \in Seq(S)
  BY SeqMonotonic DEF IsSeq
<1> HIDE DEF S
<1>2. s \o t \in Seq(S) /\ Len(s \o t) = Len(s) + Len(t)
  BY <1>1
<1>3. IsSeq(s \o t)
  BY <1>2, SeqIs
<1>4. /\ Len(s) \in Nat /\ DOMAIN s = 1 .. Len(s)
      /\ Len(t) \in Nat /\ DOMAIN t = 1 .. Len(t)
  BY SeqFacts
<1>5. \A i \in 1 .. (Len(s) + Len(t)) :
        (s \o t)[i] = IF i <= Len(s) THEN s[i] ELSE t[i - Len(s)]
  BY <1>1, <1>4
<1>6. \A i \in 1 .. Len(s) : (s \o t)[i] = s[i]
  BY <1>4, <1>5
<1>7. \A i \in 1 .. Len(t) : (s \o t)[Len(s) + i] = t[i]
  <2> TAKE i \in 1 .. Len(t)
  <2>1. Len(s) + i \in 1 .. (Len(s) + Len(t)) /\ ~(Len(s) + i <= Len(s)) /\ (Len(s) + i) - Len(s) = i
    BY <1>4
  <2> QED
    BY <1>5, <2>1
<1>8. DOMAIN (s \o t) = 1 .. (Len(s) + Len(t))
  BY <1>2, <1>3, SeqFacts
<1>9. Range(s \o t) \subseteq Range(s) \cup Range(t)
  <2> SUFFICES ASSUME NEW i \in 1 .. (Len(s) + Len(t)) PROVE (s \o t)[i] \in Range(s) \cup Range(t)
    BY <1>8 DEF Range
  <2>1. CASE i <= Len(s)
    BY <1>4, <1>5, <2>1 DEF Range
  <2>2. CASE ~(i <= Len(s))
    <3>1. i - Len(s) \in DOMAIN t /\ (s \o t)[i] = t[i - Len(s)]
      BY <1>4, <1>5, <2>2
    <3> QED
      BY <3>1 DEF Range
  <2> QED
    BY <2>1, <2>2
<1>10. Range(s) \subseteq Range(s \o t)
  <2> SUFFICES ASSUME NEW i \in DOMAIN s PROVE s[i] \in Range(s \o t)
    BY DEF Range
  <2>1. i \in DOMAIN (s \o t) /\ (s \o t)[i] = s[i]
    BY <1>4, <1>6, <1>8
  <2> QED
    BY <2>1 DEF Range
<1>11. Range(t) \subseteq Range(s \o t)
  <2> SUFFICES ASSUME NEW i \in DOMAIN t PROVE t[i] \in Range(s \o t)
    BY DEF Range
  <2>1. Len(s) + i \in DOMAIN (s \o t) /\ (s \o t)[Len(s) + i] = t[i]
    BY <1>4, <1>7, <1>8
  <2> QED
    BY <2>1 DEF Range
<1> QED
  BY <1>2, <1>3, <1>6, <1>7, <1>9, <1>10, <1>11

LEMMA ConcatOne ==
  ASSUME NEW s, IsSeq(s), NEW e
  PROVE  /\ IsSeq(s \o <<e>>)
         /\ Len(s \o <<e>>) = Len(s) + 1
         /\ \A i \in 1 .. Len(s) : (s \o <<e>>)[i] = s[i]
         /\ (s \o <<e>>)[Len(s) + 1] = e
<1> DEFINE t == <<e>>
<1>1. IsSeq(t) /\ Len(t) = 1 /\ t[1] = e
  <2>1. t \in Seq({e})
    OBVIOUS
  <2> QED
    BY <2>1, SeqIs
<1>2. 1 \in 1 .. 1
  OBVIOUS
<1> HIDE DEF t
<1>3. /\ IsSeq(s \o t)
      /\ Len(s \o t) = Len(s) + 1
      /\ \A i \in 1 .. Len(s) : (s \o t)[i] = s[i]
      /\ (s \o t)[Len(s) + 1] = e
  <2>1. /\ IsSeq(s \o t)
        /\ Len(s \o t) = Len(s) + Len(t)
        /\ \A i \in 1 .. Len(s) : (s \o t)[i] = s[i]
        /\ \A i \in 1 .. Len(t) : (s \o t)[Len(s) + i] = t[i]
    <3>1. IsSeq(s) /\ IsSeq(t)
      BY <1>1
    <3>2. IsSeq(s \o t) /\ Len(s \o t) = Len(s) + Len(t)
      BY <3>1, ConcatIs
    <3>3. \A i \in 1 .. Len(s) : (s \o t)[i] = s[i]
      BY <3>1, ConcatIs
    <3>4. \A i \in 1 .. Len(t) : (s \o t)[Len(s) + i] = t[i]
      BY <3>1, ConcatIs
    <3> QED
      BY <3>2, <3>3, <3>4
  <2>2. (s \o t)[Len(s) + 1] = t[1]
    BY <1>1, <1>2, <2>1
  <2> QED
    BY <1>1, <2>1, <2>2
<1> QED
  BY <1>3 DEF t

\* The parts of a concatenation of sequences.
LEMMA FlattenRuns ==
  ASSUME NEW seqs, IsSeq(seqs), Len(seqs) # 0
  PROVE  \E f : /\ f[1] = seqs[1]
                /\ \A i \in 2 .. Len(seqs) : f[i] = f[i - 1] \o seqs[i]
                /\ FlattenSeq(seqs) = f[Len(seqs)]
<1> DEFINE rec == [k |-> "flatten", h |-> seqs]
           D == 1 .. Len(seqs)
           mu == [i \in D |-> i]
           E(f) == [i \in D |-> IF i = 1 THEN seqs[i] ELSE f[i - 1] \o seqs[i]]
           flat == CHOOSE f : f = E(f)
<1>1. Len(seqs) \in Nat
  BY SeqFacts
<1>2. FlattenSeq(seqs) = flat[Len(seqs)]
  BY Zenon DEF FlattenSeq
<1>3. \A f, i : RecStep(rec, f, i) = FlattenStep(seqs, f, i)
  BY DEF RecStep
<1>4. mu \in [D -> 0 .. Len(seqs)]
  BY <1>1
<1>5. \A f, g : \A i \in D :
        AgreeBelow(D, mu, f, g, i) => RecStep(rec, f, i) = RecStep(rec, g, i)
  <2> TAKE f, g
  <2> TAKE i \in D
  <2> HAVE AgreeBelow(D, mu, f, g, i)
  <2>1. CASE i = 1
    BY <1>3, <2>1 DEF FlattenStep
  <2>2. CASE i # 1
    <3>1. i - 1 \in D /\ mu[i - 1] < mu[i]
      BY <1>1, <2>2
    <3>2. f[i - 1] = g[i - 1]
      BY <3>1 DEF AgreeBelow
    <3> QED
      BY <1>3, <2>2, <3>2 DEF FlattenStep
  <2> QED
    BY <2>1, <2>2
<1>6. PICK f : IsRec(rec, D, f)
  <2> HIDE DEF rec, D, mu
  <2> QED
    BY <1>1, <1>4, <1>5, RecExists
<1>7. f = E(f)
  BY <1>3, <1>6 DEF FlattenStep, IsRec
<1> HIDE DEF E
<1>8. flat = E(flat)
  BY <1>7
<1> HIDE DEF flat
<1>9. \A i \in D : flat[i] = IF i = 1 THEN seqs[i] ELSE flat[i - 1] \o seqs[i]
  BY <1>8 DEF E
<1>10. flat[1] = seqs[1]
  <2>1. 1 \in D
    BY <1>1
  <2> QED
    BY <1>9, <2>1
<1>11. ASSUME NEW i \in 2 .. Len(seqs) PROVE flat[i] = flat[i - 1] \o seqs[i]
  <2>1. i \in D /\ i # 1
    BY <1>1
  <2> HIDE DEF D
  <2> QED
    BY <1>9, <2>1, Zenon
<1> QED
  BY <1>2, <1>10, <1>11

LEMMA FlattenIs ==
  ASSUME NEW seqs, IsSeq(seqs), \A i \in DOMAIN seqs : IsSeq(seqs[i])
  PROVE  /\ IsSeq(FlattenSeq(seqs))
         /\ Range(FlattenSeq(seqs)) = UNION {Range(seqs[i]) : i \in DOMAIN seqs}
<1>1. Len(seqs) \in Nat /\ DOMAIN seqs = 1 .. Len(seqs) /\ (seqs = <<>> <=> Len(seqs) = 0)
  BY SeqFacts
<1>2. CASE Len(seqs) = 0
  <2>1. FlattenSeq(seqs) = <<>> /\ DOMAIN seqs = {}
    BY <1>1, <1>2 DEF FlattenSeq
  <2>2. IsSeq(<<>>) /\ Range(<<>>) = {}
    BY DEF IsSeq, Range
  <2> QED
    BY <2>1, <2>2
<1>3. CASE Len(seqs) # 0
  <2>1. PICK f : /\ f[1] = seqs[1]
                 /\ \A i \in 2 .. Len(seqs) : f[i] = f[i - 1] \o seqs[i]
                 /\ FlattenSeq(seqs) = f[Len(seqs)]
    BY <1>3, FlattenRuns
  <2> DEFINE Good(i) == IsSeq(f[i]) /\ Range(f[i]) = UNION {Range(seqs[j]) : j \in 1 .. i}
             Bad == {i \in 1 .. Len(seqs) : ~Good(i)}
  <2>2. Good(1)
    <3>1. 1 .. 1 = {1} /\ 1 \in DOMAIN seqs
      BY <1>1, <1>3
    <3> QED
      BY <2>1, <3>1
  <2>3. ASSUME NEW i \in 2 .. Len(seqs), Good(i - 1) PROVE Good(i)
    <3>1. f[i] = f[i - 1] \o seqs[i] /\ IsSeq(seqs[i]) /\ IsSeq(f[i - 1])
      <4>1. f[i] = f[i - 1] \o seqs[i]
        BY <2>1, Zenon
      <4>2. IsSeq(seqs[i])
        BY <1>1
      <4> QED
        BY <2>3, <4>1, <4>2
    <3>2. IsSeq(f[i]) /\ Range(f[i]) = Range(f[i - 1]) \cup Range(seqs[i])
      BY <3>1, ConcatIs
    <3>3. 1 .. i = (1 .. (i - 1)) \cup {i}
      BY <1>1
    <3> QED
      BY <2>3, <3>2, <3>3
  <2>4. Bad = {}
    <3> SUFFICES ASSUME Bad # {} PROVE FALSE
      OBVIOUS
    <3>1. Bad \subseteq Nat
      BY <1>1
    <3>2. PICK i \in Bad : \A j \in Bad : i <= j
      <4> HIDE DEF Bad
      <4> QED
        BY <3>1, LeastNumber
    <3>3. i \in 1 .. Len(seqs) /\ ~Good(i)
      OBVIOUS
    <3>4. i # 1
      BY <2>2, <3>3
    <3>5. i \in 2 .. Len(seqs) /\ i - 1 \in 1 .. Len(seqs) /\ ~(i <= i - 1)
      BY <1>1, <3>3, <3>4
    <3>6. i - 1 \notin Bad
      BY <3>2, <3>5
    <3>7. Good(i - 1)
      BY <3>5, <3>6
    <3> QED
      BY <2>3, <3>3, <3>5, <3>7
  <2>5. Len(seqs) \in 1 .. Len(seqs)
    BY <1>1, <1>3
  <2>6. Good(Len(seqs))
    BY <2>4, <2>5
  <2> QED
    BY <1>1, <2>1, <2>6
<1> QED
  BY <1>2, <1>3

\* The concatenation of sequences of one element.
LEMMA FlattenOnes ==
  ASSUME NEW kids, IsSeq(kids), NEW seqs, seqs = [i \in DOMAIN kids |-> <<kids[i]>>]
  PROVE  /\ IsSeq(FlattenSeq(seqs))
         /\ Len(FlattenSeq(seqs)) = Len(kids)
         /\ \A i \in DOMAIN kids : FlattenSeq(seqs)[i] = kids[i]
<1>1. Len(kids) \in Nat /\ DOMAIN kids = 1 .. Len(kids)
  BY SeqFacts
<1>2. IsSeq(seqs) /\ Len(seqs) = Len(kids)
  <2>1. seqs \in [1 .. Len(kids) -> Range(seqs)]
    BY <1>1 DEF Range
  <2> QED
    BY <1>1, <2>1, FunctionIsSeq DEF IsSeq
<1>3. CASE Len(seqs) = 0
  <2>1. FlattenSeq(seqs) = seqs
    BY <1>3 DEF FlattenSeq
  <2> QED
    BY <1>1, <1>2, <1>3, <2>1
<1>4. CASE Len(seqs) # 0
  <2>1. PICK f : /\ f[1] = seqs[1]
                 /\ \A i \in 2 .. Len(seqs) : f[i] = f[i - 1] \o seqs[i]
                 /\ FlattenSeq(seqs) = f[Len(seqs)]
    BY <1>2, <1>4, FlattenRuns
  <2> DEFINE Good(i) == IsSeq(f[i]) /\ Len(f[i]) = i /\ \A j \in 1 .. i : f[i][j] = kids[j]
             Bad == {i \in 1 .. Len(seqs) : ~Good(i)}
  <2>2. \A e : IsSeq(<<e>>) /\ Len(<<e>>) = 1 /\ <<e>>[1] = e
    <3> TAKE e
    <3>1. <<e>> \in Seq({e})
      OBVIOUS
    <3> QED
      BY <3>1, SeqIs
  <2>3. Good(1)
    <3>1. f[1] = <<kids[1]>>
      BY <1>1, <1>2, <1>4, <2>1
    <3>2. \A j \in 1 .. 1 : j = 1
      OBVIOUS
    <3> QED
      BY <2>2, <3>1, <3>2
  <2>4. ASSUME NEW i \in 2 .. Len(seqs), Good(i - 1) PROVE Good(i)
    <3>1. f[i] = f[i - 1] \o <<kids[i]>> /\ IsSeq(f[i - 1]) /\ Len(f[i - 1]) = i - 1
      <4>1. f[i] = f[i - 1] \o seqs[i]
        BY <2>1, Zenon
      <4>2. seqs[i] = <<kids[i]>>
        BY <1>1, <1>2
      <4> QED
        BY <2>4, <4>1, <4>2
    <3> DEFINE prev == f[i - 1]
               e == kids[i]
               cur == f[i]
    <3>2. /\ IsSeq(f[i]) /\ Len(f[i]) = (i - 1) + 1
          /\ \A j \in 1 .. (i - 1) : f[i][j] = f[i - 1][j]
          /\ f[i][(i - 1) + 1] = kids[i]
      <4>1. cur = prev \o <<e>> /\ IsSeq(prev) /\ Len(prev) = i - 1
        BY <3>1
      <4> HIDE DEF prev, e, cur
      <4>2. /\ IsSeq(prev \o <<e>>)
            /\ Len(prev \o <<e>>) = Len(prev) + 1
            /\ \A j \in 1 .. Len(prev) : (prev \o <<e>>)[j] = prev[j]
            /\ (prev \o <<e>>)[Len(prev) + 1] = e
        BY <4>1, ConcatOne
      <4>3. /\ IsSeq(cur) /\ Len(cur) = (i - 1) + 1
            /\ \A j \in 1 .. (i - 1) : cur[j] = prev[j]
            /\ cur[(i - 1) + 1] = e
        BY <4>1, <4>2
      <4> QED
        BY <4>3 DEF prev, e, cur
    <3>3. (i - 1) + 1 = i /\ \A j \in 1 .. i : j \in 1 .. (i - 1) \/ j = i
      BY <1>1
    <3> QED
      BY <2>4, <3>2, <3>3
  <2>5. Bad = {}
    <3> SUFFICES ASSUME Bad # {} PROVE FALSE
      OBVIOUS
    <3>1. Bad \subseteq Nat
      BY <1>1
    <3>2. PICK i \in Bad : \A j \in Bad : i <= j
      <4> HIDE DEF Bad
      <4> QED
        BY <3>1, LeastNumber
    <3>3. i \in 1 .. Len(seqs) /\ ~Good(i)
      OBVIOUS
    <3>4. i # 1
      BY <2>3, <3>3
    <3>5. i \in 2 .. Len(seqs) /\ i - 1 \in 1 .. Len(seqs) /\ ~(i <= i - 1)
      BY <1>1, <1>2, <3>3, <3>4
    <3>6. i - 1 \notin Bad
      BY <3>2, <3>5
    <3>7. Good(i - 1)
      BY <3>5, <3>6
    <3> QED
      BY <2>4, <3>3, <3>5, <3>7
  <2>6. Len(seqs) \in 1 .. Len(seqs)
    BY <1>1, <1>2, <1>4
  <2>7. Good(Len(seqs))
    BY <2>5, <2>6
  <2> QED
    BY <1>1, <1>2, <2>1, <2>7
<1> QED
  BY <1>3, <1>4

-----------------------------------------------------------------------------
(* Ancestors.                                                              *)

\* Induction over the types in the order of their definitions.
LEMMA TypeInduction ==
  ASSUME NEW n \in Nat, NEW S,
         \A x \in 1 .. n : (\A y \in 1 .. (x - 1) : y \in S) => x \in S
  PROVE  \A x \in 1 .. n : x \in S
<1> DEFINE Bad == {x \in 1 .. n : x \notin S}
<1> SUFFICES ASSUME Bad # {} PROVE FALSE
  OBVIOUS
<1>1. Bad \subseteq Nat
  OBVIOUS
<1>2. PICK x \in Bad : \A y \in Bad : x <= y
  <2> HIDE DEF Bad
  <2> QED
    BY <1>1, LeastNumber
<1>3. x \in 1 .. n /\ x \notin S
  OBVIOUS
<1>4. \A y \in 1 .. (x - 1) : y \in S
  <2> TAKE y \in 1 .. (x - 1)
  <2>1. y \in 1 .. n /\ ~(x <= y)
    BY <1>3
  <2>2. y \notin Bad
    BY <1>2, <2>1
  <2> QED
    BY <2>1, <2>2
<1> QED
  BY <1>3, <1>4

\* The parents of a type were defined before it.
Lineage(h) ==
  /\ IsSeq(h.types)
  /\ \A x \in DOMAIN h.types :
        /\ IsSeq(h.types[x].parents)
        /\ Range(h.types[x].parents) \subseteq 1 .. (x - 1)

LEMMA LineageFacts ==
  ASSUME NEW h, Lineage(h)
  PROVE  /\ Len(h.types) \in Nat
         /\ DOMAIN h.types = 1 .. Len(h.types)
         /\ \A x \in DOMAIN h.types : \A p \in Range(h.types[x].parents) :
               p \in 1 .. (x - 1) /\ p \in DOMAIN h.types /\ p < x /\ x \in Nat
<1>1. Len(h.types) \in Nat /\ DOMAIN h.types = 1 .. Len(h.types)
  BY SeqFacts DEF Lineage
<1>2. ASSUME NEW x \in DOMAIN h.types, NEW p \in Range(h.types[x].parents)
      PROVE  p \in 1 .. (x - 1) /\ p \in DOMAIN h.types /\ p < x /\ x \in Nat
  <2>1. p \in 1 .. (x - 1)
    BY DEF Lineage
  <2>2. x \in 1 .. Len(h.types)
    BY <1>1
  <2> QED
    BY <1>1, <2>1, <2>2
<1> QED
  BY <1>1, <1>2

LEMMA AncestorsRec ==
  ASSUME NEW h, Lineage(h), NEW x \in DOMAIN h.types
  PROVE  Ancestors(h, x) =
           {x} \union UNION {Ancestors(h, p) : p \in Range(h.types[x].parents)}
<1> DEFINE rec == [k |-> "up", h |-> h]
           D == DOMAIN h.types
           mu == [y \in D |-> y]
           E(f) == [y \in D |-> {y} \union UNION {f[p] : p \in Range(h.types[y].parents)}]
           up == CHOOSE f : f = E(f)
<1>1. /\ Len(h.types) \in Nat
      /\ D = 1 .. Len(h.types)
      /\ \A y \in D : \A p \in Range(h.types[y].parents) : p \in D /\ p < y
  BY LineageFacts
<1>2. \A t : Ancestors(h, t) = up[t]
  BY Zenon DEF Ancestors
<1>3. \A f, y : RecStep(rec, f, y) = UpStep(h, f, y)
  BY DEF RecStep
<1>4. mu \in [D -> 0 .. Len(h.types)]
  BY <1>1
<1>5. \A f, g : \A y \in D :
        AgreeBelow(D, mu, f, g, y) => RecStep(rec, f, y) = RecStep(rec, g, y)
  <2> TAKE f, g
  <2> TAKE y \in D
  <2> HAVE AgreeBelow(D, mu, f, g, y)
  <2>1. \A p \in Range(h.types[y].parents) : f[p] = g[p]
    BY <1>1 DEF AgreeBelow
  <2>2. UpStep(h, f, y) = UpStep(h, g, y)
    BY <2>1 DEF UpStep
  <2> QED
    BY <1>3, <2>2
<1>6. PICK f : IsRec(rec, D, f)
  <2>1. Len(h.types) \in Nat
    BY <1>1
  <2> HIDE DEF rec, D, mu
  <2> QED
    BY <1>4, <1>5, <2>1, RecExists
<1>7. f = E(f)
  BY <1>3, <1>6 DEF UpStep, IsRec
<1> HIDE DEF E
<1>8. up = E(up)
  BY <1>7
<1> HIDE DEF up
<1>9. \A y \in D : up[y] = {y} \union UNION {up[p] : p \in Range(h.types[y].parents)}
  BY <1>8 DEF E
<1> QED
  BY <1>2, <1>9

LEMMA AncestorIs ==
  ASSUME NEW h, Lineage(h), NEW x \in DOMAIN h.types
  PROVE  /\ x \in Ancestors(h, x)
         /\ \A a \in Ancestors(h, x) :
               a = x \/ \E p \in Range(h.types[x].parents) : a \in Ancestors(h, p)
         /\ \A p \in Range(h.types[x].parents) : Ancestors(h, p) \subseteq Ancestors(h, x)
<1>1. Ancestors(h, x) =
        {x} \union UNION {Ancestors(h, p) : p \in Range(h.types[x].parents)}
  BY AncestorsRec
<1> QED
  BY <1>1

\* An ancestor is a type, of which a class is derived if it is another one.
LEMMA AncestorsAre ==
  ASSUME NEW h, Lineage(h)
  PROVE  \A x \in DOMAIN h.types : \A a \in Ancestors(h, x) :
            /\ a \in DOMAIN h.types
            /\ a <= x
            /\ a = x \/ \E z \in DOMAIN h.types : a \in Range(h.types[z].parents)
<1> DEFINE P(x) == \A a \in Ancestors(h, x) :
                     /\ a \in DOMAIN h.types
                     /\ a <= x
                     /\ a = x \/ \E z \in DOMAIN h.types : a \in Range(h.types[z].parents)
           S == {x \in DOMAIN h.types : P(x)}
<1>1. /\ Len(h.types) \in Nat
      /\ DOMAIN h.types = 1 .. Len(h.types)
      /\ \A x \in DOMAIN h.types : \A p \in Range(h.types[x].parents) :
            p \in 1 .. (x - 1) /\ p \in DOMAIN h.types /\ p < x /\ x \in Nat
  BY LineageFacts
<1>2. ASSUME NEW x \in 1 .. Len(h.types), \A y \in 1 .. (x - 1) : y \in S
      PROVE  x \in S
  <2>1. x \in DOMAIN h.types
    BY <1>1
  <2>2. ASSUME NEW a \in Ancestors(h, x)
        PROVE  /\ a \in DOMAIN h.types
               /\ a <= x
               /\ a = x \/ \E z \in DOMAIN h.types : a \in Range(h.types[z].parents)
    <3>1. CASE a = x
      BY <2>1, <3>1
    <3>2. CASE a # x
      <4>1. PICK p \in Range(h.types[x].parents) : a \in Ancestors(h, p)
        BY <2>1, <3>2, AncestorIs
      <4>2. p \in 1 .. (x - 1) /\ p < x /\ P(p)
        BY <1>1, <1>2, <2>1
      <4>3. /\ a \in DOMAIN h.types /\ a <= p
            /\ a = p \/ \E z \in DOMAIN h.types : a \in Range(h.types[z].parents)
        BY <4>1, <4>2
      <4>4. a \in Nat /\ p \in Nat /\ x \in Nat
        BY <1>1, <4>2, <4>3
      <4> QED
        BY <2>1, <4>2, <4>3, <4>4
    <3> QED
      BY <3>1, <3>2
  <2> QED
    BY <2>1, <2>2
<1>3. \A x \in 1 .. Len(h.types) : x \in S
  <2> HIDE DEF S
  <2> QED
    BY <1>1, <1>2, TypeInduction
<1> QED
  BY <1>1, <1>3

LEMMA AncestorsTrans ==
  ASSUME NEW h, Lineage(h)
  PROVE  \A x \in DOMAIN h.types : \A b \in Ancestors(h, x) :
            Ancestors(h, b) \subseteq Ancestors(h, x)
<1> DEFINE P(x) == \A b \in Ancestors(h, x) : Ancestors(h, b) \subseteq Ancestors(h, x)
           S == {x \in DOMAIN h.types : P(x)}
<1>1. /\ Len(h.types) \in Nat
      /\ DOMAIN h.types = 1 .. Len(h.types)
      /\ \A x \in DOMAIN h.types : \A p \in Range(h.types[x].parents) :
            p \in 1 .. (x - 1) /\ p \in DOMAIN h.types /\ p < x /\ x \in Nat
  BY LineageFacts
<1>2. ASSUME NEW x \in 1 .. Len(h.types), \A y \in 1 .. (x - 1) : y \in S
      PROVE  x \in S
  <2>1. x \in DOMAIN h.types
    BY <1>1
  <2>2. ASSUME NEW b \in Ancestors(h, x) PROVE Ancestors(h, b) \subseteq Ancestors(h, x)
    <3>1. CASE b = x
      BY <3>1
    <3>2. CASE b # x
      <4>1. PICK p \in Range(h.types[x].parents) : b \in Ancestors(h, p)
        BY <2>1, <3>2, AncestorIs
      <4>2. P(p)
        BY <1>1, <1>2, <2>1
      <4>3. Ancestors(h, p) \subseteq Ancestors(h, x)
        BY <2>1, AncestorIs
      <4> QED
        BY <4>1, <4>2, <4>3
    <3> QED
      BY <3>1, <3>2
  <2> QED
    BY <2>1, <2>2
<1>3. \A x \in 1 .. Len(h.types) : x \in S
  <2> HIDE DEF S
  <2> QED
    BY <1>1, <1>2, TypeInduction
<1> QED
  BY <1>1, <1>3

\* The ancestors of a type stay the same when others are added.
LEMMA AncestorsSame ==
  ASSUME NEW h, Lineage(h), NEW g, Lineage(g), DOMAIN h.types \subseteq DOMAIN g.types,
         \A x \in DOMAIN h.types : g.types[x].parents = h.types[x].parents
  PROVE  \A x \in DOMAIN h.types : Ancestors(g, x) = Ancestors(h, x)
<1> DEFINE S == {x \in DOMAIN h.types : Ancestors(g, x) = Ancestors(h, x)}
<1>1. /\ Len(h.types) \in Nat
      /\ DOMAIN h.types = 1 .. Len(h.types)
      /\ \A x \in DOMAIN h.types : \A p \in Range(h.types[x].parents) :
            p \in 1 .. (x - 1) /\ p \in DOMAIN h.types /\ p < x /\ x \in Nat
  BY LineageFacts
<1>2. ASSUME NEW x \in 1 .. Len(h.types), \A y \in 1 .. (x - 1) : y \in S
      PROVE  x \in S
  <2>1. x \in DOMAIN h.types /\ x \in DOMAIN g.types
    BY <1>1
  <2>2. \A p \in Range(h.types[x].parents) : Ancestors(g, p) = Ancestors(h, p)
    BY <1>1, <1>2, <2>1
  <2>3. Ancestors(h, x) =
          {x} \union UNION {Ancestors(h, p) : p \in Range(h.types[x].parents)}
    BY <2>1, AncestorsRec
  <2>4. Ancestors(g, x) =
          {x} \union UNION {Ancestors(g, p) : p \in Range(h.types[x].parents)}
    BY <2>1, AncestorsRec
  <2>5. Ancestors(g, x) = Ancestors(h, x)
    BY <2>2, <2>3, <2>4
  <2> QED
    BY <2>1, <2>5
<1>3. \A x \in 1 .. Len(h.types) : x \in S
  <2> HIDE DEF S
  <2> QED
    BY <1>1, <1>2, TypeInduction
<1> QED
  BY <1>1, <1>3

-----------------------------------------------------------------------------
(* The invariant.                                                          *)

TypeFields == {"parents", "hasVTable", "abstract", "complete", "first", "next",
               "children", "flags", "vtables"}
FuncFields == {"name", "owner", "virtual", "kind", "slot", "receiver", "decl"}

\* What the definitions are made of.
Shape(h) ==
  /\ DOMAIN h = {"types", "funcs", "failed"}
  /\ Lineage(h) /\ VTableBase \in DOMAIN h.types
  /\ \A x \in DOMAIN h.types :
        /\ DOMAIN h.types[x] = TypeFields
        /\ {h.types[x].hasVTable, h.types[x].abstract, h.types[x].complete} \subseteq BOOLEAN
        /\ h.types[x].first \in Nat /\ h.types[x].next \in Nat
        /\ h.types[x].first <= h.types[x].next
        /\ IsSeq(h.types[x].children)
        /\ \A k \in Range(h.types[x].children) : k \in DOMAIN h.types /\ x < k
  /\ IsSeq(h.funcs)
  /\ \A f \in DOMAIN h.funcs :
        /\ DOMAIN h.funcs[f] = FuncFields
        /\ h.funcs[f].owner \in DOMAIN h.types
        /\ h.funcs[f].virtual \in BOOLEAN
        /\ h.funcs[f].slot \in Nat

\* The slots of x begin where those of its first base end.
Settled(h, x) ==
  h.types[x].hasVTable /\ x # VTableBase
    => h.types[x].first = h.types[h.types[x].parents[1]].next

Closed(h, x) == \A p \in Range(h.types[x].parents) : h.types[p].complete

\* No ancestor has two base classes with vtables.
Straight(h, x) ==
  \A a \in Ancestors(h, x) : \A p, q \in Range(h.types[a].parents) :
     h.types[p].hasVTable /\ h.types[q].hasVTable => p = q

\* Base classes begin where theirs end, and nothing is added to the bases of a
\* class that was derived from.
RootOK(h) ==
  /\ h.types[VTableBase].parents = <<>>
  /\ h.types[VTableBase].hasVTable /\ h.types[VTableBase].complete
  /\ h.types[VTableBase].first = 0 /\ h.types[VTableBase].next = 1

ClassOK(h, x) ==
  LET c == h.types[x]
  IN  /\ c.hasVTable <=> \E p \in Range(c.parents) : h.types[p].hasVTable
      /\ c.abstract => c.hasVTable
      /\ c.hasVTable =>
            /\ c.parents # <<>> /\ h.types[c.parents[1]].hasVTable
            /\ 1 <= c.first /\ c.first <= h.types[c.parents[1]].next
      /\ c.complete => Closed(h, x)
      /\ \A p \in Range(c.parents) :
            /\ Settled(h, p) /\ Closed(h, p)
            /\ ~h.types[p].complete => c.parents = <<p>>
      /\ ~c.complete => Straight(h, x) \/ (Settled(h, x) /\ Closed(h, x))

Classes(h) == RootOK(h) /\ \A x \in DOMAIN h.types \ {VTableBase} : ClassOK(h, x)

\* The slots of x are where first and next say.
Placed(h, x) == ~h.types[x].complete \/ Settled(h, x)

FunctionOK(h, f) ==
  LET func == h.funcs[f]
      o    == h.types[func.owner]
      c    == h.types[func.receiver]
  IN  /\ func.name = "oper class" => func.virtual /\ func.receiver = VTableBase
      /\ func.virtual =>
            /\ o.hasVTable /\ func.receiver \in Ancestors(h, func.owner) /\ c.hasVTable
            /\ func.receiver = VTableBase => func.slot = 0
            /\ func.receiver \notin {VTableBase, func.owner} =>
                  c.first <= func.slot /\ func.slot < c.next
            /\ Placed(h, func.owner) =>
                  /\ func.receiver = func.owner /\ func.owner # VTableBase =>
                        o.first <= func.slot /\ func.slot < o.next
                  /\ func.receiver # func.owner /\ Straight(h, func.owner) =>
                        func.slot < o.first

\* Slot s has a function that x introduced.
Introduced(h, x, s) ==
  \E f \in DOMAIN h.funcs : /\ h.funcs[f].virtual /\ h.funcs[f].owner = x
                            /\ h.funcs[f].receiver = x /\ h.funcs[f].slot = s

FilledOK(h, x) ==
  h.types[x].hasVTable /\ Placed(h, x) =>
     \A s \in Nat : h.types[x].first <= s /\ s < h.types[x].next => Introduced(h, x, s)

HasOperClass(h, x) ==
  h.types[x].hasVTable =>
     \E f \in DOMAIN h.funcs : h.funcs[f].owner = x /\ h.funcs[f].name = "oper class"

\* The definitions between two steps; X are types that have no "oper class" yet.
Good(h, X) ==
  /\ Shape(h)
  /\ Classes(h)
  /\ \A f \in DOMAIN h.funcs : FunctionOK(h, f)
  /\ \A x \in DOMAIN h.types \ {VTableBase} : FilledOK(h, x)
  /\ \A x \in DOMAIN h.types \ X : HasOperClass(h, x)

\* The nested classes that wait for p.
KidsOK(h, o, p) ==
  LET kids == h.types[p].children
  IN  ~h.types[p].complete =>
        \A i \in DOMAIN kids :
           /\ ~h.types[kids[i]].complete
           /\ h.types[kids[i]].parents = <<p>>
           /\ kids[i] \notin Range(o)
           /\ \A j \in DOMAIN kids : kids[j] = kids[i] => j = i

OpenOK(h, o) ==
  /\ IsSeq(o)
  /\ \A i \in DOMAIN o : /\ o[i] \in DOMAIN h.types /\ o[i] # VTableBase
                         /\ ~h.types[o[i]].complete /\ Settled(h, o[i])
  /\ \A i, j \in DOMAIN o : i < j => o[i] < o[j]

Defs(h, o) ==
  /\ ~h.failed
  /\ Good(h, {})
  /\ \A p \in DOMAIN h.types : KidsOK(h, o, p)
  /\ OpenOK(h, o)
  /\ Object \in DOMAIN h.types

DefsInv == Defs(m, open)
-----------------------------------------------------------------------------
(* What the invariant says of ancestors and of names.                      *)

LEMMA TypeFacts ==
  ASSUME NEW h, Shape(h), NEW x \in DOMAIN h.types
  PROVE  /\ Len(h.types) \in Nat /\ DOMAIN h.types = 1 .. Len(h.types)
         /\ x \in Nat /\ x >= 1
         /\ h.types[x].first \in Nat /\ h.types[x].next \in Nat
         /\ h.types[x].first <= h.types[x].next
         /\ h.types[x].hasVTable \in BOOLEAN
         /\ h.types[x].abstract \in BOOLEAN
         /\ h.types[x].complete \in BOOLEAN
         /\ Len(h.types[x].parents) \in Nat
         /\ DOMAIN h.types[x].parents = 1 .. Len(h.types[x].parents)
         /\ h.types[x].parents = <<>> <=> Len(h.types[x].parents) = 0
         /\ h.types[x].parents # <<>> => h.types[x].parents[1] \in Range(h.types[x].parents)
         /\ \A p \in Range(h.types[x].parents) : p \in DOMAIN h.types /\ p < x
<1>1. Len(h.types) \in Nat /\ DOMAIN h.types = 1 .. Len(h.types)
  BY LineageFacts DEF Shape
<1>2. x \in Nat /\ x >= 1
  BY <1>1
<1>3. IsSeq(h.types[x].parents)
  BY DEF Shape, Lineage
<1>4. /\ Len(h.types[x].parents) \in Nat
      /\ DOMAIN h.types[x].parents = 1 .. Len(h.types[x].parents)
      /\ h.types[x].parents = <<>> <=> Len(h.types[x].parents) = 0
  BY <1>3, SeqFacts
<1>5. h.types[x].parents # <<>> => h.types[x].parents[1] \in Range(h.types[x].parents)
  <2>1. h.types[x].parents # <<>> => 1 \in DOMAIN h.types[x].parents
    BY <1>4
  <2> QED
    BY <2>1 DEF Range
<1>6. \A p \in Range(h.types[x].parents) : p \in DOMAIN h.types /\ p < x
  BY LineageFacts DEF Shape
<1>7. /\ h.types[x].first \in Nat /\ h.types[x].next \in Nat
      /\ h.types[x].first <= h.types[x].next
      /\ h.types[x].hasVTable \in BOOLEAN
      /\ h.types[x].abstract \in BOOLEAN
      /\ h.types[x].complete \in BOOLEAN
  BY DEF Shape
<1> QED
  BY <1>1, <1>2, <1>4, <1>5, <1>6, <1>7

\* A class with a base with a vtable has one, and its slots follow those of the
\* first base.
LEMMA BaseFacts ==
  ASSUME NEW h, Shape(h), Classes(h), NEW x \in DOMAIN h.types,
         NEW p \in Range(h.types[x].parents)
  PROVE  /\ x # VTableBase /\ ClassOK(h, x)
         /\ Settled(h, p) /\ Closed(h, p)
         /\ h.types[p].hasVTable => h.types[x].hasVTable
         /\ Straight(h, x) => Straight(h, p)
         /\ Straight(h, x) /\ h.types[p].hasVTable => p = h.types[x].parents[1]
<1>1. x # VTableBase
  BY DEF Classes, RootOK, Range
<1>2. ClassOK(h, x)
  BY <1>1 DEF Classes
<1>3. Settled(h, p) /\ Closed(h, p) /\ (h.types[p].hasVTable => h.types[x].hasVTable)
  BY <1>2 DEF ClassOK
<1>4. Straight(h, x) => Straight(h, p)
  <2>1. Ancestors(h, p) \subseteq Ancestors(h, x)
    BY AncestorIs DEF Shape
  <2> QED
    BY <2>1 DEF Straight
<1>5. ASSUME Straight(h, x), h.types[p].hasVTable
      PROVE  p = h.types[x].parents[1]
  <2>1. x \in Ancestors(h, x)
    BY AncestorIs DEF Shape
  <2>2. h.types[x].parents # <<>> /\ h.types[h.types[x].parents[1]].hasVTable
    BY <1>2, <1>3, <1>5 DEF ClassOK
  <2>3. h.types[x].parents[1] \in Range(h.types[x].parents)
    BY <2>2, TypeFacts
  <2> QED
    BY <1>5, <2>1, <2>2, <2>3 DEF Straight
<1> QED
  BY <1>1, <1>2, <1>3, <1>4, <1>5

LEMMA AncestorFacts ==
  ASSUME NEW h, Shape(h), Classes(h), NEW x \in DOMAIN h.types, NEW a \in Ancestors(h, x)
  PROVE  /\ a \in DOMAIN h.types
         /\ h.types[a].hasVTable => h.types[x].hasVTable
         /\ a # x => Settled(h, a) /\ Closed(h, a) /\ a < x
<1> DEFINE P(y) == \A b \in Ancestors(h, y) : h.types[b].hasVTable => h.types[y].hasVTable
           S == {y \in DOMAIN h.types : P(y)}
<1>1. Lineage(h) /\ Len(h.types) \in Nat /\ DOMAIN h.types = 1 .. Len(h.types)
  BY LineageFacts DEF Shape
<1>2. /\ a \in DOMAIN h.types /\ a <= x
      /\ a = x \/ \E z \in DOMAIN h.types : a \in Range(h.types[z].parents)
  BY <1>1, AncestorsAre
<1>3. a # x => Settled(h, a) /\ Closed(h, a) /\ a < x
  <2>1. a # x => Settled(h, a) /\ Closed(h, a)
    BY <1>2, BaseFacts
  <2>2. a # x => a < x
    BY <1>1, <1>2
  <2> QED
    BY <2>1, <2>2
<1>4. ASSUME NEW y \in 1 .. Len(h.types), \A z \in 1 .. (y - 1) : z \in S
      PROVE  y \in S
  <2>1. y \in DOMAIN h.types
    BY <1>1
  <2>2. ASSUME NEW b \in Ancestors(h, y), h.types[b].hasVTable
        PROVE  h.types[y].hasVTable
    <3>1. CASE b = y
      BY <2>2, <3>1
    <3>2. CASE b # y
      <4>1. PICK p \in Range(h.types[y].parents) : b \in Ancestors(h, p)
        BY <1>1, <2>1, <3>2, AncestorIs
      <4>2. p \in 1 .. (y - 1)
        BY <1>1, <2>1, LineageFacts
      <4>3. h.types[p].hasVTable
        BY <1>4, <2>2, <4>1, <4>2
      <4> QED
        BY <2>1, <4>3, BaseFacts
    <3> QED
      BY <3>1, <3>2
  <2> QED
    BY <2>1, <2>2
<1>5. \A y \in 1 .. Len(h.types) : y \in S
  <2> HIDE DEF S
  <2> QED
    BY <1>1, <1>4, TypeInduction
<1>6. h.types[a].hasVTable => h.types[x].hasVTable
  BY <1>1, <1>5
<1> QED
  BY <1>2, <1>3, <1>6

LEMMA LookUpRec ==
  ASSUME NEW h, Lineage(h), IsSeq(h.funcs), NEW n, NEW x \in DOMAIN h.types
  PROVE  LET e  == lookUp(h, x, n)
             ps == h.types[x].parents
             named == \E f \in DOMAIN h.funcs : h.funcs[f].owner = x /\ h.funcs[f].name = n
         IN  \/ /\ named
                /\ e \in DOMAIN h.funcs /\ h.funcs[e].owner = x /\ h.funcs[e].name = n
             \/ /\ ~named
                /\ \E i \in DOMAIN ps : lookUp(h, ps[i], n) # 0 /\ e = lookUp(h, ps[i], n)
             \/ /\ ~named
                /\ \A i \in DOMAIN ps : lookUp(h, ps[i], n) = 0
                /\ e = 0
<1> DEFINE rec == [k |-> "find", h |-> h, n |-> n]
           D == DOMAIN h.types
           mu == [y \in D |-> y]
           Step(f, y) ==
             LET own  == {g \in Own(h, y) : h.funcs[g].name = n}
                 ps   == h.types[y].parents
                 hits == {i \in DOMAIN ps : f[ps[i]] # 0}
             IN  IF own # {} THEN Min(own)
                 ELSE IF hits = {} THEN 0 ELSE f[ps[Min(hits)]]
           E(f) == [y \in D |-> Step(f, y)]
           find == CHOOSE f : f = E(f)
<1>1. /\ Len(h.types) \in Nat
      /\ D = 1 .. Len(h.types)
      /\ \A y \in D : \A p \in Range(h.types[y].parents) : p \in D /\ p < y
  BY LineageFacts
<1>2. \A t : lookUp(h, t, n) = find[t]
  BY Zenon DEF lookUp
<1>3. \A f, y : RecStep(rec, f, y) = Step(f, y)
  BY DEF RecStep, FindStep
<1>4. mu \in [D -> 0 .. Len(h.types)]
  BY <1>1
<1>5. \A f, g : \A y \in D :
        AgreeBelow(D, mu, f, g, y) => RecStep(rec, f, y) = RecStep(rec, g, y)
  <2> TAKE f, g
  <2> TAKE y \in D
  <2> HAVE AgreeBelow(D, mu, f, g, y)
  <2> DEFINE ps == h.types[y].parents
             hits(k) == {i \in DOMAIN ps : k[ps[i]] # 0}
  <2>1. \A i \in DOMAIN ps : f[ps[i]] = g[ps[i]]
    BY <1>1 DEF AgreeBelow, Range
  <2>2. hits(f) = hits(g)
    BY <2>1
  <2>3. hits(f) # {} => Min(hits(f)) \in DOMAIN ps
    <3>1. IsSeq(ps)
      BY DEF Lineage
    <3>2. Len(ps) \in Nat /\ DOMAIN ps = 1 .. Len(ps)
      BY <3>1, SeqFacts
    <3>3. hits(f) \in SUBSET (1 .. Len(ps))
      BY <3>2
    <3> HIDE DEF hits
    <3>4. hits(f) # {} => Min(hits(f)) \in hits(f)
      BY <3>2, <3>3, MinIsMember
    <3> QED
      BY <3>2, <3>3, <3>4
  <2>4. hits(f) # {} => f[ps[Min(hits(f))]] = g[ps[Min(hits(g))]]
    <3> HIDE DEF hits, ps
    <3> QED
      BY <2>1, <2>2, <2>3
  <2>5. Step(f, y) = Step(g, y)
    BY <2>2, <2>4, Zenon
  <2> HIDE DEF Step
  <2> QED
    BY <1>3, <2>5
<1>6. PICK f : IsRec(rec, D, f)
  <2>1. Len(h.types) \in Nat
    BY <1>1
  <2> HIDE DEF rec, D, mu
  <2> QED
    BY <1>4, <1>5, <2>1, RecExists
<1>7. f = E(f)
  <2> HIDE DEF Step
  <2> QED
    BY <1>3, <1>6 DEF IsRec
<1> HIDE DEF E
<1>8. find = E(find)
  BY <1>7
<1> HIDE DEF find
<1>9. \A y \in D : find[y] = Step(find, y)
  <2> HIDE DEF Step
  <2> QED
    BY <1>8 DEF E
<1> DEFINE own  == {g \in Own(h, x) : h.funcs[g].name = n}
           ps   == h.types[x].parents
           hits == {i \in DOMAIN ps : lookUp(h, ps[i], n) # 0}
<1>10. hits = {i \in DOMAIN ps : find[ps[i]] # 0}
  BY <1>2
<1>11. find[x] = IF own # {} THEN Min(own) ELSE IF hits = {} THEN 0 ELSE find[ps[Min(hits)]]
  BY <1>9, <1>10, Zenon
<1>12. lookUp(h, x, n) = IF own # {} THEN Min(own)
                         ELSE IF hits = {} THEN 0 ELSE lookUp(h, ps[Min(hits)], n)
  <2> HIDE DEF own, hits
  <2> QED
    BY <1>2, <1>11
<1>13. own = {g \in DOMAIN h.funcs : h.funcs[g].owner = x /\ h.funcs[g].name = n}
  BY DEF Own
<1>14. own # {} => Min(own) \in own
  <2>1. Len(h.funcs) \in Nat /\ DOMAIN h.funcs = 1 .. Len(h.funcs)
    BY SeqFacts
  <2>2. own \in SUBSET (1 .. Len(h.funcs))
    BY <1>13, <2>1
  <2> HIDE DEF own
  <2> QED
    BY <2>1, <2>2, MinIsMember
<1>15. hits # {} => Min(hits) \in hits
  <2>1. IsSeq(ps)
    BY DEF Lineage
  <2>2. Len(ps) \in Nat /\ DOMAIN ps = 1 .. Len(ps)
    BY <2>1, SeqFacts
  <2>3. hits \in SUBSET (1 .. Len(ps))
    BY <2>2
  <2> HIDE DEF hits
  <2> QED
    BY <2>2, <2>3, MinIsMember
<1>16. CASE own # {}
  <2>1. lookUp(h, x, n) \in own
    <3> HIDE DEF own, hits
    <3> QED
      BY <1>12, <1>14, <1>16
  <2>2. \E g \in DOMAIN h.funcs : h.funcs[g].owner = x /\ h.funcs[g].name = n
    BY <1>13, <2>1
  <2> QED
    BY <1>13, <2>1, <2>2
<1>17. CASE own = {} /\ hits # {}
  <2>1. lookUp(h, x, n) = lookUp(h, ps[Min(hits)], n) /\ Min(hits) \in hits
    <3> HIDE DEF own, hits
    <3> QED
      BY <1>12, <1>15, <1>17
  <2>2. ~\E g \in DOMAIN h.funcs : h.funcs[g].owner = x /\ h.funcs[g].name = n
    BY <1>13, <1>17
  <2>3. \E i \in DOMAIN ps : lookUp(h, ps[i], n) # 0 /\ lookUp(h, x, n) = lookUp(h, ps[i], n)
    BY <2>1
  <2> QED
    BY <2>2, <2>3
<1>18. CASE own = {} /\ hits = {}
  <2>1. lookUp(h, x, n) = 0
    <3> HIDE DEF own, hits
    <3> QED
      BY <1>12, <1>18
  <2>2. ~\E g \in DOMAIN h.funcs : h.funcs[g].owner = x /\ h.funcs[g].name = n
    BY <1>13, <1>18
  <2>3. \A i \in DOMAIN ps : lookUp(h, ps[i], n) = 0
    BY <1>18
  <2> QED
    BY <2>1, <2>2, <2>3
<1> QED
  BY <1>16, <1>17, <1>18

\* What a name means in x: a function of an ancestor, with a slot before those
\* of x if it is not of x itself.
LEMMA LookUpIs ==
  ASSUME NEW h, Shape(h), Classes(h), \A f \in DOMAIN h.funcs : FunctionOK(h, f), NEW n
  PROVE  \A x \in DOMAIN h.types : LET e == lookUp(h, x, n) IN
            e # 0 =>
              /\ e \in DOMAIN h.funcs /\ h.funcs[e].name = n
              /\ h.funcs[e].owner \in Ancestors(h, x)
              /\ h.funcs[e].virtual /\ Straight(h, x) /\ Settled(h, x) =>
                    /\ h.funcs[e].slot < h.types[x].next
                    /\ h.funcs[e].owner # x => h.funcs[e].slot < h.types[x].first
<1> DEFINE e(x) == lookUp(h, x, n)
           P(x) == e(x) # 0 =>
              /\ e(x) \in DOMAIN h.funcs /\ h.funcs[e(x)].name = n
              /\ h.funcs[e(x)].owner \in Ancestors(h, x)
              /\ h.funcs[e(x)].virtual /\ Straight(h, x) /\ Settled(h, x) =>
                    /\ h.funcs[e(x)].slot < h.types[x].next
                    /\ h.funcs[e(x)].owner # x => h.funcs[e(x)].slot < h.types[x].first
           S == {x \in DOMAIN h.types : P(x)}
<1>1. /\ Lineage(h) /\ IsSeq(h.funcs)
      /\ Len(h.types) \in Nat /\ DOMAIN h.types = 1 .. Len(h.types)
  BY LineageFacts DEF Shape
<1>2. ASSUME NEW x \in 1 .. Len(h.types), \A y \in 1 .. (x - 1) : y \in S
      PROVE  x \in S
  <2> DEFINE ps == h.types[x].parents
  <2>1. x \in DOMAIN h.types
    BY <1>1
  <2>2. /\ h.types[x].first \in Nat /\ h.types[x].next \in Nat
        /\ h.types[x].first <= h.types[x].next
    BY <2>1, TypeFacts
  <2>3. CASE e(x) \in DOMAIN h.funcs /\ h.funcs[e(x)].owner = x /\ h.funcs[e(x)].name = n
    <3>1. x \in Ancestors(h, x)
      BY <1>1, <2>1, AncestorIs
    <3>2. ASSUME h.funcs[e(x)].virtual, Straight(h, x), Settled(h, x)
          PROVE  h.funcs[e(x)].slot < h.types[x].next
      <4> DEFINE c == h.funcs[e(x)].receiver
                 s == h.funcs[e(x)].slot
      <4>1. FunctionOK(h, e(x)) /\ Placed(h, x) /\ s \in Nat
        BY <2>3, <3>2 DEF Placed, Shape
      <4>2. c = x /\ x # VTableBase => s < h.types[x].next
        BY <2>3, <3>2, <4>1 DEF FunctionOK
      <4>3. c # x => s < h.types[x].first
        BY <2>3, <3>2, <4>1 DEF FunctionOK
      <4>4. c = x /\ x = VTableBase => s < h.types[x].next
        <5>1. c = VTableBase => s = 0
          BY <3>2, <4>1 DEF FunctionOK
        <5>2. h.types[VTableBase].next = 1
          BY DEF Classes, RootOK
        <5> QED
          BY <5>1, <5>2
      <4> QED
        BY <2>2, <4>1, <4>2, <4>3, <4>4
    <3> QED
      BY <2>1, <2>3, <3>1, <3>2
  <2>4. CASE \E i \in DOMAIN ps : e(ps[i]) # 0 /\ e(x) = e(ps[i])
    <3>1. PICK i \in DOMAIN ps : e(ps[i]) # 0 /\ e(x) = e(ps[i])
      BY <2>4
    <3> DEFINE p == ps[i]
    <3>2. p \in Range(ps) /\ p \in 1 .. (x - 1) /\ p \in DOMAIN h.types
      <4>1. p \in Range(ps)
        BY DEF Range
      <4> QED
        BY <1>1, <2>1, <4>1, LineageFacts
    <3>3. P(p)
      BY <1>2, <3>2
    <3>4. e(x) \in DOMAIN h.funcs /\ h.funcs[e(x)].name = n
          /\ h.funcs[e(x)].owner \in Ancestors(h, p)
      BY <3>1, <3>3
    <3>5. h.funcs[e(x)].owner \in Ancestors(h, x)
      BY <1>1, <2>1, <3>2, <3>4, AncestorIs
    <3>6. ASSUME h.funcs[e(x)].virtual, Straight(h, x), Settled(h, x)
          PROVE  h.funcs[e(x)].slot < h.types[x].first /\ h.funcs[e(x)].slot \in Nat
      <4>1. FunctionOK(h, e(x)) /\ h.funcs[e(x)].slot \in Nat
        BY <3>4 DEF Shape
      <4>2. h.types[h.funcs[e(x)].owner].hasVTable
        BY <3>6, <4>1 DEF FunctionOK
      <4>3. h.types[p].hasVTable
        BY <3>2, <3>4, <4>2, AncestorFacts
      <4>4. /\ Straight(h, p) /\ Settled(h, p) /\ p = ps[1]
            /\ h.types[x].hasVTable /\ x # VTableBase
        BY <2>1, <3>2, <3>6, <4>3, BaseFacts
      <4>5. h.types[x].first = h.types[p].next
        BY <3>6, <4>4 DEF Settled
      <4>6. h.funcs[e(x)].slot < h.types[p].next
        BY <3>1, <3>3, <3>6, <4>4
      <4> QED
        BY <4>1, <4>5, <4>6
    <3> HIDE DEF e
    <3>7. h.funcs[e(x)].virtual /\ Straight(h, x) /\ Settled(h, x) =>
                    /\ h.funcs[e(x)].slot < h.types[x].next
                    /\ h.funcs[e(x)].owner # x => h.funcs[e(x)].slot < h.types[x].first
      BY <2>2, <3>6
    <3> QED
      BY <2>1, <3>4, <3>5, <3>7
  <2>5. CASE e(x) = 0
    BY <2>1, <2>5
  <2>6. \/ e(x) \in DOMAIN h.funcs /\ h.funcs[e(x)].owner = x /\ h.funcs[e(x)].name = n
        \/ \E i \in DOMAIN ps : e(ps[i]) # 0 /\ e(x) = e(ps[i])
        \/ e(x) = 0
    BY <1>1, <2>1, LookUpRec, Zenon
  <2> QED
    BY <2>3, <2>4, <2>5, <2>6
<1>3. \A x \in 1 .. Len(h.types) : x \in S
  <2> HIDE DEF S
  <2> QED
    BY <1>1, <1>2, TypeInduction
<1> QED
  BY <1>1, <1>3

-----------------------------------------------------------------------------
(* The vtable of a class, and the types whose functions go into vtables.   *)

LEMMA FirstParent ==
  ASSUME NEW h, Shape(h), Classes(h), NEW x \in DOMAIN h.types, x # VTableBase,
         h.types[x].hasVTable
  PROVE  /\ FirstVTableParent(h, x) = 1
         /\ h.types[x].parents[1] \in Range(h.types[x].parents)
         /\ h.types[h.types[x].parents[1]].hasVTable
<1> DEFINE ps == h.types[x].parents
           I == {i \in 1 .. Len(ps) : h.types[ps[i]].hasVTable}
<1>1. FirstVTableParent(h, x) = IF I # {} THEN Min(I) ELSE 0
  BY Zenon DEF FirstVTableParent, SelectInSeq
<1>2. ps # <<>> /\ h.types[ps[1]].hasVTable
  BY DEF Classes, ClassOK
<1>3. Len(ps) \in Nat /\ Len(ps) # 0 /\ ps[1] \in Range(ps)
  BY <1>2, TypeFacts
<1>4. 1 \in I
  BY <1>2, <1>3
<1>5. \A i \in I : i \in Nat /\ 1 <= i
  BY <1>3
<1> HIDE DEF I
<1>6. \E i \in I : \A j \in I : i <= j
  BY <1>4, <1>5
<1>7. Min(I) \in I /\ \A j \in I : Min(I) <= j
  BY <1>6 DEF Min
<1>8. Min(I) = 1
  <2>1. Min(I) \in Nat /\ 1 <= Min(I) /\ Min(I) <= 1
    BY <1>4, <1>5, <1>7
  <2> QED
    BY <2>1
<1> QED
  BY <1>1, <1>2, <1>3, <1>4, <1>8

LEMMA FirstVTableRec ==
  ASSUME NEW h, Shape(h), Classes(h), NEW x \in DOMAIN h.types, h.types[x].hasVTable
  PROVE  LET p == h.types[x].parents[1]
         IN  findFirstVTable(h, x) =
               IF x = VTableBase \/ p = VTableBase THEN x ELSE findFirstVTable(h, p)
<1> DEFINE rec == [k |-> "first", h |-> h]
           D == {y \in DOMAIN h.types : h.types[y].hasVTable}
           mu == [y \in D |-> y]
           Step(f, y) == LET p == h.types[y].parents[FirstVTableParent(h, y)]
                         IN  IF y = VTableBase \/ p = VTableBase THEN y ELSE f[p]
           E(f) == [y \in D |-> Step(f, y)]
           first == CHOOSE f : f = E(f)
<1>1. Len(h.types) \in Nat /\ \A y \in D : y \in 1 .. Len(h.types)
  BY LineageFacts DEF Shape
<1>2. \A t : findFirstVTable(h, t) = first[t]
  BY Zenon DEF findFirstVTable
<1>3. \A f, y : RecStep(rec, f, y) = Step(f, y)
  BY DEF RecStep, FirstStep
<1>4. mu \in [D -> 0 .. Len(h.types)]
  BY <1>1
<1>5. \A y \in D : y # VTableBase =>
        LET p == h.types[y].parents[FirstVTableParent(h, y)]
        IN  p = h.types[y].parents[1] /\ p \in D /\ p < y
  <2> TAKE y \in D
  <2> HAVE y # VTableBase
  <2> DEFINE p == h.types[y].parents[1]
  <2>1. FirstVTableParent(h, y) = 1 /\ p \in Range(h.types[y].parents) /\ h.types[p].hasVTable
    BY FirstParent
  <2>2. p \in DOMAIN h.types /\ p < y
    BY <2>1, LineageFacts DEF Shape
  <2> QED
    BY <2>1, <2>2
<1>6. \A f, g : \A y \in D :
        AgreeBelow(D, mu, f, g, y) => RecStep(rec, f, y) = RecStep(rec, g, y)
  <2> TAKE f, g
  <2> TAKE y \in D
  <2> HAVE AgreeBelow(D, mu, f, g, y)
  <2>1. CASE y = VTableBase
    BY <1>3, <2>1
  <2>2. CASE y # VTableBase
    <3> DEFINE p == h.types[y].parents[FirstVTableParent(h, y)]
    <3>1. p \in D /\ p < y
      BY <1>5, <2>2
    <3>2. f[p] = g[p]
      BY <3>1 DEF AgreeBelow
    <3>3. Step(f, y) = Step(g, y)
      BY <3>2
    <3> HIDE DEF Step
    <3> QED
      BY <1>3, <3>3
  <2> QED
    BY <2>1, <2>2
<1>7. PICK f : IsRec(rec, D, f)
  <2>1. Len(h.types) \in Nat
    BY <1>1
  <2> HIDE DEF rec, D, mu
  <2> QED
    BY <1>4, <1>6, <2>1, RecExists
<1>8. f = E(f)
  <2> HIDE DEF Step
  <2> QED
    BY <1>3, <1>7 DEF IsRec
<1> HIDE DEF E
<1>9. first = E(first)
  BY <1>8
<1> HIDE DEF first
<1>10. x \in D /\ first[x] = Step(first, x)
  <2> HIDE DEF Step
  <2> QED
    BY <1>9 DEF E
<1>11. CASE x = VTableBase
  BY <1>2, <1>10, <1>11
<1>12. CASE x # VTableBase
  <2>1. h.types[x].parents[FirstVTableParent(h, x)] = h.types[x].parents[1]
    BY <1>5, <1>10, <1>12
  <2> QED
    BY <1>2, <1>10, <2>1
<1> QED
  BY <1>11, <1>12

LEMMA OrderRec ==
  ASSUME NEW h, Lineage(h), NEW x \in DOMAIN h.types
  PROVE  LET ps == h.types[x].parents
             of(b) == IF b # VTableBase /\ h.types[b].hasVTable
                      THEN VTableTypes(h, b) ELSE <<>>
         IN  VTableTypes(h, x) = Append(FlattenSeq([i \in DOMAIN ps |-> of(ps[i])]), x)
<1> DEFINE rec == [k |-> "order", h |-> h]
           D == DOMAIN h.types
           mu == [y \in D |-> y]
           parts(f, y) == [i \in DOMAIN h.types[y].parents |->
                             IF /\ h.types[y].parents[i] # VTableBase
                                /\ h.types[h.types[y].parents[i]].hasVTable
                             THEN f[h.types[y].parents[i]] ELSE <<>>]
           E(f) == [y \in D |-> Append(FlattenSeq(parts(f, y)), y)]
           order == CHOOSE f : f = E(f)
<1>1. /\ Len(h.types) \in Nat
      /\ D = 1 .. Len(h.types)
      /\ \A y \in D : \A p \in Range(h.types[y].parents) : p \in D /\ p < y
  BY LineageFacts
<1>2. \A t : VTableTypes(h, t) = order[t]
  BY Zenon DEF VTableTypes
<1>3. \A f, y : RecStep(rec, f, y) = Append(FlattenSeq(parts(f, y)), y)
  BY Zenon DEF RecStep, OrderStep
<1>4. mu \in [D -> 0 .. Len(h.types)]
  BY <1>1
<1>5. \A f, g : \A y \in D :
        AgreeBelow(D, mu, f, g, y) => RecStep(rec, f, y) = RecStep(rec, g, y)
  <2> TAKE f, g
  <2> TAKE y \in D
  <2> HAVE AgreeBelow(D, mu, f, g, y)
  <2>1. \A i \in DOMAIN h.types[y].parents : f[h.types[y].parents[i]] = g[h.types[y].parents[i]]
    BY <1>1 DEF AgreeBelow, Range
  <2>2. parts(f, y) = parts(g, y)
    BY <2>1
  <2> HIDE DEF parts
  <2> QED
    BY <1>3, <2>2
<1>6. PICK f : IsRec(rec, D, f)
  <2>1. Len(h.types) \in Nat
    BY <1>1
  <2> HIDE DEF rec, D, mu
  <2> QED
    BY <1>4, <1>5, <2>1, RecExists
<1>7. f = E(f)
  <2> HIDE DEF parts
  <2> QED
    BY <1>3, <1>6 DEF IsRec
<1> HIDE DEF E
<1>8. order = E(order)
  BY <1>7
<1> HIDE DEF order
<1>9. order[x] = Append(FlattenSeq(parts(order, x)), x)
  <2> HIDE DEF parts
  <2> QED
    BY <1>8 DEF E
<1>10. parts(order, x) =
         [i \in DOMAIN h.types[x].parents |->
            IF /\ h.types[x].parents[i] # VTableBase
               /\ h.types[h.types[x].parents[i]].hasVTable
            THEN VTableTypes(h, h.types[x].parents[i]) ELSE <<>>]
  BY <1>2
<1> HIDE DEF parts
<1> QED
  BY <1>2, <1>9, <1>10, Zenon

\* The functions in the vtables are those of all ancestors with vtables.
LEMMA ListIs ==
  ASSUME NEW h, Shape(h), Classes(h)
  PROVE  \A x \in DOMAIN h.types : x # VTableBase /\ h.types[x].hasVTable =>
            /\ IsSeq(VTableTypes(h, x))
            /\ Range(VTableTypes(h, x)) =
                 {a \in Ancestors(h, x) : h.types[a].hasVTable /\ a # VTableBase}
<1> DEFINE L(x) == VTableTypes(h, x)
           R(x) == {a \in Ancestors(h, x) : h.types[a].hasVTable /\ a # VTableBase}
           P(x) == x # VTableBase /\ h.types[x].hasVTable => IsSeq(L(x)) /\ Range(L(x)) = R(x)
           S == {x \in DOMAIN h.types : P(x)}
<1>1. /\ Lineage(h)
      /\ Len(h.types) \in Nat /\ DOMAIN h.types = 1 .. Len(h.types)
  BY LineageFacts DEF Shape
<1>2. ASSUME NEW x \in 1 .. Len(h.types), \A y \in 1 .. (x - 1) : y \in S
      PROVE  x \in S
  <2>1. x \in DOMAIN h.types
    BY <1>1
  <2> SUFFICES ASSUME x # VTableBase, h.types[x].hasVTable
               PROVE  IsSeq(L(x)) /\ Range(L(x)) = R(x)
    BY <2>1
  <2> DEFINE ps == h.types[x].parents
             of(b) == IF b # VTableBase /\ h.types[b].hasVTable THEN L(b) ELSE <<>>
             parts == [i \in DOMAIN ps |-> of(ps[i])]
             flat == FlattenSeq(parts)
  <2>2. L(x) = Append(flat, x)
    BY <1>1, <2>1, OrderRec
  <2>3. IsSeq(ps) /\ Len(ps) \in Nat /\ DOMAIN ps = 1 .. Len(ps)
    <3>1. IsSeq(ps)
      BY <1>1, <2>1 DEF Lineage
    <3> QED
      BY <3>1, SeqFacts
  <2>4. \A p \in Range(ps) : IsSeq(of(p)) /\ Range(of(p)) = R(p)
    <3> TAKE p \in Range(ps)
    <3>1. p \in 1 .. (x - 1) /\ p \in DOMAIN h.types
      BY <1>1, <2>1, LineageFacts
    <3>2. CASE p # VTableBase /\ h.types[p].hasVTable
      BY <1>2, <3>1, <3>2
    <3>3. CASE ~(p # VTableBase /\ h.types[p].hasVTable)
      <4>1. of(p) = <<>>
        BY <3>3
      <4>2. IsSeq(<<>>) /\ Range(<<>>) = {}
        BY DEF IsSeq, Range
      <4>3. R(p) = {}
        <5> SUFFICES ASSUME NEW a \in R(p) PROVE FALSE
          OBVIOUS
        <5>1. a \in Ancestors(h, p) /\ h.types[a].hasVTable /\ a # VTableBase
          OBVIOUS
        <5>2. h.types[p].hasVTable
          BY <3>1, <5>1, AncestorFacts
        <5>3. p = VTableBase
          BY <3>3, <5>2
        <5>4. h.types[p].parents = <<>>
          BY <5>3 DEF Classes, RootOK
        <5>5. \A z : z \notin Range(h.types[p].parents)
          BY <5>4 DEF Range
        <5>6. a = p
          BY <1>1, <3>1, <5>1, <5>5, AncestorIs
        <5> QED
          BY <5>1, <5>3, <5>6
      <4> QED
        BY <4>1, <4>2, <4>3
    <3> QED
      BY <3>2, <3>3
  <2>5. IsSeq(parts) /\ DOMAIN parts = DOMAIN ps
    <3>1. parts \in [1 .. Len(ps) -> Range(parts)]
      BY <2>3 DEF Range
    <3> HIDE DEF parts
    <3>2. parts \in Seq(Range(parts))
      BY <2>3, <3>1, FunctionIsSeq, Zenon
    <3> QED
      BY <2>3, <3>1, <3>2 DEF IsSeq
  <2>6. \A i \in DOMAIN parts : IsSeq(parts[i]) /\ Range(parts[i]) = R(ps[i])
    <3> TAKE i \in DOMAIN parts
    <3>1. ps[i] \in Range(ps)
      BY <2>5 DEF Range
    <3>2. parts[i] = of(ps[i])
      BY <2>5
    <3> HIDE DEF parts, of, R
    <3> QED
      BY <2>4, <3>1, <3>2
  <2>7. IsSeq(flat) /\ Range(flat) = UNION {Range(parts[i]) : i \in DOMAIN parts}
    <3> HIDE DEF parts
    <3> QED
      BY <2>5, <2>6, FlattenIs
  <2>8. IsSeq(L(x)) /\ Range(L(x)) = Range(flat) \cup {x}
    <3> HIDE DEF flat
    <3>1. /\ IsSeq(Append(flat, x))
          /\ DOMAIN Append(flat, x) = DOMAIN flat \cup {Len(flat) + 1}
          /\ \A i \in DOMAIN flat : Append(flat, x)[i] = flat[i]
          /\ Append(flat, x)[Len(flat) + 1] = x
      BY <2>7, AppendIs
    <3> DEFINE s == Append(flat, x)
    <3>2. /\ IsSeq(s) /\ DOMAIN s = DOMAIN flat \cup {Len(flat) + 1}
          /\ \A i \in DOMAIN flat : s[i] = flat[i]
          /\ s[Len(flat) + 1] = x
      BY <3>1
    <3> HIDE DEF s
    <3>3. Range(s) = Range(flat) \cup {x}
      BY <3>2 DEF Range
    <3> QED
      BY <2>2, <3>2, <3>3 DEF s
  <2>9. Range(flat) = UNION {R(p) : p \in Range(ps)}
    <3>1. \A i \in DOMAIN ps : Range(parts[i]) = R(ps[i])
      BY <2>5, <2>6
    <3>2. Range(flat) = UNION {Range(parts[i]) : i \in DOMAIN ps}
      BY <2>5, <2>7
    <3>3. \A p : p \in Range(ps) <=> \E i \in DOMAIN ps : p = ps[i]
      BY DEF Range
    <3> HIDE DEF parts, flat, R, ps
    <3> QED
      BY <3>1, <3>2, <3>3
  <2>10. R(x) = {x} \cup UNION {R(p) : p \in Range(ps)}
    <3>1. Ancestors(h, x) = {x} \union UNION {Ancestors(h, p) : p \in Range(ps)}
      BY <1>1, <2>1, AncestorsRec
    <3>2. \A a : a \in R(x) => a = x \/ \E p \in Range(ps) : a \in R(p)
      BY <3>1
    <3>3. \A p \in Range(ps) : R(p) \subseteq R(x)
      BY <3>1
    <3>4. x \in R(x)
      BY <3>1
    <3> HIDE DEF R, ps
    <3> QED
      BY <3>2, <3>3, <3>4
  <2> QED
    BY <2>8, <2>9, <2>10
<1>3. \A x \in 1 .. Len(h.types) : x \in S
  <2> HIDE DEF S
  <2> QED
    BY <1>1, <1>2, TypeInduction
<1> QED
  BY <1>1, <1>3

-----------------------------------------------------------------------------
(* The entries of vtables.                                                 *)

\* A finite set that has with each number the one below is an interval from 0.
LEMMA NoGaps ==
  ASSUME NEW D \in SUBSET Nat, IsFiniteSet(D), 0 \in D,
         \A s \in D : s # 0 => s - 1 \in D
  PROVE  D = 0 .. (Cardinality(D) - 1)
<1>1. Nat \ D # {}
  <2> SUFFICES ASSUME Nat \subseteq D PROVE FALSE
    OBVIOUS
  <2> DEFINE n == Cardinality(D)
  <2>1. n \in Nat
    BY FS_CardinalityType
  <2>2. 0 .. n \subseteq D
    BY <2>1
  <2>3. Cardinality(0 .. n) <= n
    BY <2>2, FS_Subset
  <2> HIDE DEF n
  <2>4. Cardinality(0 .. n) = n + 1
    BY <2>1, FS_Interval
  <2> QED
    BY <2>1, <2>3, <2>4
<1>2. PICK k \in Nat \ D : \A j \in Nat \ D : k <= j
  <2>1. Nat \ D \subseteq Nat
    OBVIOUS
  <2> QED
    BY <1>1, <2>1, LeastNumber
<1>3. k \in Nat /\ k \notin D /\ k # 0 /\ \A j \in Nat : j < k => j \in D
  BY <1>2
<1>4. \A j \in D : j < k
  <2> DEFINE B == {j \in D : ~(j < k)}
  <2> SUFFICES ASSUME B # {} PROVE FALSE
    OBVIOUS
  <2>1. B \subseteq Nat
    OBVIOUS
  <2>2. PICK j \in B : \A i \in B : j <= i
    <3> HIDE DEF B
    <3> QED
      BY <2>1, LeastNumber
  <2>3. j \in Nat /\ j \in D /\ k < j
    BY <1>3, <2>2
  <2>4. j - 1 \in D /\ k <= j - 1 /\ j - 1 < j
    BY <1>3, <2>3
  <2>5. j - 1 \in B /\ ~(j <= j - 1)
    BY <1>3, <2>3, <2>4
  <2> QED
    BY <2>2, <2>5
<1>5. D = 0 .. (k - 1)
  <2>1. \A j \in D : j \in 0 .. (k - 1)
    BY <1>3, <1>4
  <2>2. \A j \in 0 .. (k - 1) : j \in D
    BY <1>3
  <2> QED
    BY <2>1, <2>2
<1>6. Cardinality(0 .. (k - 1)) = k
  <2>1. k - 1 \in Nat /\ (k - 1) - 0 + 1 = k /\ ~(0 > k - 1)
    BY <1>3
  <2> QED
    BY <2>1, FS_Interval
<1> QED
  BY <1>5, <1>6

\* The functions of x that get into the vtable of r.
InTable(h, r, f) == findFirstVTable(h, h.funcs[f].receiver) \in {r, VTableBase}
Entries(h, r, x) ==
  {f \in DOMAIN h.funcs : /\ h.funcs[f].owner = x /\ h.funcs[f].virtual
                          /\ InTable(h, r, f)}
Slots(h, r, x) == {h.funcs[f].slot : f \in Entries(h, r, x)}

LEMMA AddSlots ==
  ASSUME NEW h, NEW tables, NEW f
  PROVE  /\ DOMAIN addToVTables(h, tables, f) = DOMAIN tables
         /\ \A r \in DOMAIN tables :
               DOMAIN addToVTables(h, tables, f)[r] =
                 DOMAIN tables[r] \cup (IF InTable(h, r, f) THEN {h.funcs[f].slot} ELSE {})
  BY DEF addToVTables, InTable

LEMMA ExtendSlots ==
  ASSUME NEW h, IsSeq(h.funcs), NEW tables, NEW x
  PROVE  /\ DOMAIN extendVTables(h, tables, x) = DOMAIN tables
         /\ \A r \in DOMAIN tables :
               DOMAIN extendVTables(h, tables, x)[r] = DOMAIN tables[r] \cup Slots(h, r, x)
<1> DEFINE n == Len(h.funcs)
           seq == [i \in DOMAIN h.funcs |-> i]
           fold == [k |-> "add", h |-> h, x |-> x]
<1>1. n \in Nat /\ DOMAIN h.funcs = 1 .. n
  BY SeqFacts
<1>2. PICK f : /\ IsRun(fold, tables, seq, f)
               /\ extendVTables(h, tables, x) = f[1 .. n]
               /\ Len(seq) = n
  BY AddFold
<1>3. \A i \in 1 .. n : seq[i] = i
  BY <1>1
<1> HIDE DEF seq
<1>4. f[1 .. 0] = tables /\ \A i \in 1 .. n : f[1 .. i] = Folded(fold, f[1 .. (i - 1)], i)
  BY <1>2, <1>3 DEF IsRun
<1>5. \A acc, i : Folded(fold, acc, i) =
        IF h.funcs[i].owner = x /\ h.funcs[i].virtual THEN addToVTables(h, acc, i) ELSE acc
  BY DEF Folded
<1> HIDE DEF fold
<1> DEFINE upto(r, i) == {g \in Entries(h, r, x) : g <= i}
           P(i) == /\ DOMAIN f[1 .. i] = DOMAIN tables
                   /\ \A r \in DOMAIN tables :
                        DOMAIN f[1 .. i][r] =
                          DOMAIN tables[r] \cup {h.funcs[g].slot : g \in upto(r, i)}
           S == {i \in 1 .. n : P(i)}
<1>6. P(0)
  <2>1. \A r : upto(r, 0) = {}
    BY <1>1 DEF Entries
  <2> HIDE DEF upto
  <2> QED
    BY <1>4, <2>1
<1>7. ASSUME NEW i \in 1 .. n, P(i - 1) PROVE P(i)
  <2> DEFINE prev == f[1 .. (i - 1)]
             cur == f[1 .. i]
  <2>1. cur = IF h.funcs[i].owner = x /\ h.funcs[i].virtual
              THEN addToVTables(h, prev, i) ELSE prev
    BY <1>4, <1>5
  <2>2. /\ DOMAIN prev = DOMAIN tables
        /\ \A r \in DOMAIN tables :
             DOMAIN prev[r] = DOMAIN tables[r] \cup {h.funcs[g].slot : g \in upto(r, i - 1)}
    BY <1>7
  <2>3. \A r : upto(r, i) = upto(r, i - 1) \cup (IF i \in Entries(h, r, x) THEN {i} ELSE {})
    BY <1>1 DEF Entries
  <2>4. \A r : i \in Entries(h, r, x) <=>
                  /\ h.funcs[i].owner = x /\ h.funcs[i].virtual /\ InTable(h, r, i)
    BY <1>1 DEF Entries
  <2> HIDE DEF prev, cur, upto
  <2>5. DOMAIN cur = DOMAIN tables
    BY <2>1, <2>2, AddSlots
  <2>6. ASSUME NEW r \in DOMAIN tables
        PROVE  DOMAIN cur[r] = DOMAIN tables[r] \cup {h.funcs[g].slot : g \in upto(r, i)}
    <3>1. DOMAIN cur[r] =
            DOMAIN prev[r] \cup (IF i \in Entries(h, r, x) THEN {h.funcs[i].slot} ELSE {})
      BY <2>1, <2>2, <2>4, AddSlots
    <3>2. {h.funcs[g].slot : g \in upto(r, i)} =
            {h.funcs[g].slot : g \in upto(r, i - 1)}
              \cup (IF i \in Entries(h, r, x) THEN {h.funcs[i].slot} ELSE {})
      BY <2>3
    <3> QED
      BY <2>2, <3>1, <3>2
  <2> QED
    BY <2>5, <2>6 DEF cur
<1>8. ASSUME NEW i \in 1 .. n, \A j \in 1 .. (i - 1) : j \in S PROVE i \in S
  <2>1. i - 1 = 0 \/ i - 1 \in 1 .. (i - 1)
    BY <1>1
  <2>2. P(i - 1)
    <3>1. CASE i - 1 = 0
      BY <1>6, <3>1
    <3>2. CASE i - 1 \in 1 .. (i - 1)
      BY <1>8, <3>2
    <3> QED
      BY <2>1, <3>1, <3>2
  <2> QED
    BY <1>7, <2>2
<1>9. \A i \in 1 .. n : i \in S
  <2> HIDE DEF S, n
  <2> QED
    BY <1>1, <1>8, TypeInduction
<1>10. P(n)
  <2>1. n = 0 \/ n \in 1 .. n
    BY <1>1
  <2>2. CASE n = 0
    BY <1>6, <2>2
  <2>3. CASE n \in 1 .. n
    BY <1>9, <2>3
  <2> QED
    BY <2>1, <2>2, <2>3
<1>11. \A r : upto(r, n) = Entries(h, r, x)
  BY <1>1 DEF Entries
<1> HIDE DEF upto
<1> QED
  BY <1>2, <1>10, <1>11 DEF Slots

LEMMA AllSlots ==
  ASSUME NEW h, IsSeq(h.funcs), NEW x, IsSeq(VTableTypes(h, x))
  PROVE  LET types  == Range(VTableTypes(h, x))
             tables == createAllVTables(h, x)
         IN  /\ DOMAIN tables = {y \in types : Contains(h.types[y].parents, VTableBase)}
             /\ \A r \in DOMAIN tables :
                   DOMAIN tables[r] = UNION {Slots(h, r, y) : y \in types}
<1> DEFINE seq == VTableTypes(h, x)
           n == Len(seq)
           roots == {y \in Range(seq) : Contains(h.types[y].parents, VTableBase)}
           tables == [r \in roots |-> <<>>]
           fold == [k |-> "extend", h |-> h]
<1>1. n \in Nat /\ DOMAIN seq = 1 .. n
  BY SeqFacts
<1>2. createAllVTables(h, x) = ExtendAll(h, tables, seq)
  BY Zenon DEF createAllVTables, ExtendAll
<1>3. DOMAIN tables = roots /\ \A r \in roots : DOMAIN tables[r] = {}
  OBVIOUS
<1> HIDE DEF tables, roots
<1>4. PICK f : /\ IsRun(fold, tables, seq, f)
               /\ ExtendAll(h, tables, seq) = f[1 .. n]
  <2>1. IsSeq(seq)
    OBVIOUS
  <2> HIDE DEF seq
  <2> QED
    BY <2>1, ExtendFold
<1>5. createAllVTables(h, x) = f[1 .. n]
  BY <1>2, <1>4, Zenon
<1>6. /\ f[1 .. 0] = tables
      /\ \A i \in 1 .. n : f[1 .. i] = extendVTables(h, f[1 .. (i - 1)], seq[i])
  BY <1>4 DEF IsRun, Folded
<1> HIDE DEF fold, seq
<1> DEFINE P(i) == /\ DOMAIN f[1 .. i] = roots
                   /\ \A r \in roots :
                        DOMAIN f[1 .. i][r] = UNION {Slots(h, r, seq[j]) : j \in 1 .. i}
           S == {i \in 1 .. n : P(i)}
<1>7. P(0)
  BY <1>3, <1>6
<1>8. ASSUME NEW i \in 1 .. n, P(i - 1) PROVE P(i)
  <2> DEFINE prev == f[1 .. (i - 1)]
             cur == f[1 .. i]
  <2>1. cur = extendVTables(h, prev, seq[i])
    BY <1>6
  <2>2. /\ DOMAIN prev = roots
        /\ \A r \in roots :
             DOMAIN prev[r] = UNION {Slots(h, r, seq[j]) : j \in 1 .. (i - 1)}
    BY <1>8
  <2>3. 1 .. i = (1 .. (i - 1)) \cup {i}
    BY <1>1
  <2> HIDE DEF prev, cur
  <2>4. /\ DOMAIN cur = roots
        /\ \A r \in roots : DOMAIN cur[r] = DOMAIN prev[r] \cup Slots(h, r, seq[i])
    BY <2>1, <2>2, ExtendSlots
  <2>5. \A r \in roots : DOMAIN cur[r] = UNION {Slots(h, r, seq[j]) : j \in 1 .. i}
    BY <2>2, <2>3, <2>4
  <2> QED
    BY <2>4, <2>5 DEF cur
<1>9. ASSUME NEW i \in 1 .. n, \A j \in 1 .. (i - 1) : j \in S PROVE i \in S
  <2>1. i - 1 = 0 \/ i - 1 \in 1 .. (i - 1)
    BY <1>1
  <2>2. P(i - 1)
    <3>1. CASE i - 1 = 0
      BY <1>7, <3>1
    <3>2. CASE i - 1 \in 1 .. (i - 1)
      BY <1>9, <3>2
    <3> QED
      BY <2>1, <3>1, <3>2
  <2> QED
    BY <1>8, <2>2
<1>10. \A i \in 1 .. n : i \in S
  <2> HIDE DEF S, n
  <2> QED
    BY <1>1, <1>9, TypeInduction
<1>11. P(n)
  <2>1. n = 0 \/ n \in 1 .. n
    BY <1>1
  <2>2. CASE n = 0
    BY <1>7, <2>2
  <2>3. CASE n \in 1 .. n
    BY <1>10, <2>3
  <2> QED
    BY <2>1, <2>2, <2>3
<1>12. \A r : UNION {Slots(h, r, seq[j]) : j \in 1 .. n} = UNION {Slots(h, r, y) : y \in Range(seq)}
  <2>1. \A y : y \in Range(seq) <=> \E j \in 1 .. n : y = seq[j]
    BY <1>1 DEF Range
  <2> QED
    BY <2>1
<1> QED
  BY <1>5, <1>11, <1>12 DEF seq, roots

\* Where the slots of c begin when its functions have been moved.
Start(h, c) == h.types[h.types[c].parents[1]].next
Size(h, c) == h.types[c].next - h.types[c].first

LEMMA TablesFull ==
  ASSUME NEW h, Shape(h), Classes(h),
         NEW x \in DOMAIN h.types, x # VTableBase, h.types[x].hasVTable,
         \A f \in DOMAIN h.funcs :
            h.funcs[f].virtual /\ h.funcs[f].owner \in Ancestors(h, x) =>
               LET c == h.funcs[f].receiver
                   s == h.funcs[f].slot
               IN  /\ c \in Ancestors(h, h.funcs[f].owner) /\ h.types[c].hasVTable
                   /\ c = VTableBase => s = 0
                   /\ c # VTableBase => Start(h, c) <= s /\ s < Start(h, c) + Size(h, c),
         \A c \in Ancestors(h, x) : c # VTableBase /\ h.types[c].hasVTable =>
            \A s \in Nat : Start(h, c) <= s /\ s < Start(h, c) + Size(h, c)
                              => Introduced(h, c, s),
         \E f \in DOMAIN h.funcs : /\ h.funcs[f].virtual /\ h.funcs[f].owner = x
                                   /\ h.funcs[f].receiver = VTableBase
  PROVE  LET tables == createAllVTables(h, x)
         IN  \A r \in DOMAIN tables :
                DOMAIN tables[r] = 0 .. (Cardinality(DOMAIN tables[r]) - 1)
<1> DEFINE L == {a \in Ancestors(h, x) : h.types[a].hasVTable /\ a # VTableBase}
           tables == createAllVTables(h, x)
           root(c) == findFirstVTable(h, c)
<1>1. /\ Lineage(h) /\ IsSeq(h.funcs)
      /\ Len(h.types) \in Nat /\ DOMAIN h.types = 1 .. Len(h.types)
  BY LineageFacts DEF Shape
<1>2. IsSeq(VTableTypes(h, x)) /\ Range(VTableTypes(h, x)) = L
  BY ListIs
<1>3. \A r \in DOMAIN tables : DOMAIN tables[r] = UNION {Slots(h, r, y) : y \in L}
  <2>1. \A r \in DOMAIN createAllVTables(h, x) :
          DOMAIN createAllVTables(h, x)[r] =
            UNION {Slots(h, r, y) : y \in Range(VTableTypes(h, x))}
    <3>1. IsSeq(h.funcs) /\ IsSeq(VTableTypes(h, x))
      BY <1>1, <1>2
    <3> QED
      BY <3>1, AllSlots, Zenon
  <2> QED
    BY <1>2, <2>1, Zenon
<1> SUFFICES ASSUME NEW r \in DOMAIN tables
             PROVE  DOMAIN tables[r] = 0 .. (Cardinality(DOMAIN tables[r]) - 1)
  BY Zenon
<1> DEFINE D == UNION {Slots(h, r, y) : y \in L}
           In(f) == /\ f \in DOMAIN h.funcs /\ h.funcs[f].virtual
                    /\ h.funcs[f].owner \in L /\ InTable(h, r, f)
<1>4. DOMAIN tables[r] = D
  BY <1>3
<1> HIDE DEF tables
<1>5. /\ \A s \in D : \E f : In(f) /\ h.funcs[f].slot = s
      /\ \A f : In(f) => h.funcs[f].slot \in D
  BY DEF Slots, Entries
<1> HIDE DEF D
<1>6. x \in L
  BY <1>1, AncestorIs
<1>7. root(VTableBase) = VTableBase
  BY FirstVTableRec DEF Classes, RootOK, Shape
<1>8. 0 \in D
  <2>1. PICK f \in DOMAIN h.funcs : /\ h.funcs[f].virtual /\ h.funcs[f].owner = x
                                    /\ h.funcs[f].receiver = VTableBase
    OBVIOUS
  <2>2. h.funcs[f].slot = 0
    BY <1>1, <2>1, AncestorIs
  <2>3. In(f)
    BY <1>6, <1>7, <2>1 DEF InTable
  <2> QED
    BY <1>5, <2>2, <2>3
<1>9. \A c \in L : /\ c \in DOMAIN h.types /\ c # VTableBase /\ h.types[c].hasVTable
                   /\ c \in Ancestors(h, x)
  BY <1>1, AncestorsAre
<1>10. \A c \in L : \A a \in Ancestors(h, c) : h.types[a].hasVTable /\ a # VTableBase => a \in L
  BY <1>1, <1>9, AncestorsTrans
<1>11. \A c \in L : LET p == h.types[c].parents[1] IN
          /\ p \in DOMAIN h.types /\ p < c /\ h.types[p].hasVTable
          /\ p # VTableBase => p \in L /\ root(c) = root(p)
          /\ Settled(h, p)
          /\ p = VTableBase \/ Start(h, p) = h.types[p].first
  <2> TAKE c \in L
  <2> DEFINE p == h.types[c].parents[1]
  <2>1. p \in Range(h.types[c].parents) /\ h.types[p].hasVTable
    BY <1>9, FirstParent
  <2>2. p \in DOMAIN h.types /\ p < c
    BY <1>1, <1>9, <2>1, LineageFacts
  <2>3. p \in Ancestors(h, c)
    BY <1>1, <1>9, <2>1, <2>2, AncestorIs
  <2>4. Settled(h, p)
    BY <1>9, <2>1, BaseFacts
  <2>5. p # VTableBase => root(c) = root(p)
    BY <1>9, FirstVTableRec
  <2>6. p # VTableBase => p \in L
    BY <1>10, <2>1, <2>3
  <2>7. p = VTableBase \/ Start(h, p) = h.types[p].first
    BY <2>1, <2>4 DEF Settled, Start
  <2> QED
    BY <2>1, <2>2, <2>4, <2>5, <2>6, <2>7
<1>12. \A c \in L : /\ h.types[c].first \in Nat /\ h.types[c].next \in Nat
                    /\ h.types[c].first <= h.types[c].next
                    /\ Size(h, c) = h.types[c].next - h.types[c].first
                    /\ Start(h, c) \in Nat
  <2> TAKE c \in L
  <2>1. h.types[h.types[c].parents[1]].next \in Nat
    BY <1>11, TypeFacts
  <2> QED
    BY <1>9, <2>1, TypeFacts DEF Start, Size
  \* The last slot of a base class of a class in the vtable is in it.
<1> DEFINE B(p) == (p = VTableBase \/ (p \in L /\ root(p) \in {r, VTableBase}
                                        /\ Start(h, p) = h.types[p].first))
                     => h.types[p].next - 1 \in D /\ h.types[p].next \in Nat
           S == {p \in DOMAIN h.types : B(p)}
<1>13. ASSUME NEW p \in 1 .. Len(h.types), \A y \in 1 .. (p - 1) : y \in S
       PROVE  p \in S
  <2>1. p \in DOMAIN h.types
    BY <1>1
  <2>2. CASE p = VTableBase
    <3>1. h.types[p].next = 1 /\ 1 \in Nat /\ 1 - 1 = 0
      BY <2>2 DEF Classes, RootOK
    <3> HIDE DEF L, root
    <3>2. h.types[p].next - 1 \in D /\ h.types[p].next \in Nat
      BY <1>8, <3>1
    <3> QED
      BY <2>1, <3>2
  <2>3. CASE p # VTableBase
    <3> SUFFICES ASSUME p \in L, root(p) \in {r, VTableBase}, Start(h, p) = h.types[p].first
                 PROVE  h.types[p].next - 1 \in D /\ h.types[p].next \in Nat
      BY <2>1, <2>3
    <3> HIDE DEF L
    <3> DEFINE fs == h.types[p].first
               nx == h.types[p].next
    <3>1. fs \in Nat /\ nx \in Nat /\ fs <= nx /\ Start(h, p) = fs /\ Size(h, p) = nx - fs
      BY <1>12
    <3>2. CASE fs = nx
      <4> DEFINE q == h.types[p].parents[1]
      <4>1. /\ q \in 1 .. (p - 1)
            /\ q # VTableBase => q \in L /\ root(q) \in {r, VTableBase}
            /\ q = VTableBase \/ Start(h, q) = h.types[q].first
        <5>1. q \in DOMAIN h.types /\ q < p
          BY <1>11
        <5>2. q \in 1 .. (p - 1)
          BY <1>1, <5>1
        <5> QED
          BY <1>11, <5>2
      <4>2. B(q)
        BY <1>13, <4>1
      <4>3. h.types[q].next - 1 \in D /\ h.types[q].next \in Nat
        BY <4>1, <4>2
      <4> QED
        BY <3>1, <3>2, <4>3 DEF Start
    <3>3. CASE fs # nx
      <4>1. nx - 1 \in Nat /\ fs <= nx - 1 /\ nx - 1 < fs + (nx - fs)
        BY <3>1, <3>3
      <4> HIDE DEF fs, nx
      <4>2. Introduced(h, p, nx - 1)
        BY <1>9, <3>1, <4>1
      <4>3. PICK g \in DOMAIN h.funcs : /\ h.funcs[g].virtual /\ h.funcs[g].owner = p
                                        /\ h.funcs[g].receiver = p /\ h.funcs[g].slot = nx - 1
        BY <4>2 DEF Introduced
      <4>4. In(g)
        BY <4>3 DEF InTable
      <4>5. nx - 1 \in D
        BY <1>5, <4>3, <4>4
      <4> QED
        BY <3>1, <4>5 DEF nx
    <3> QED
      BY <3>2, <3>3
  <2> QED
    BY <2>2, <2>3
<1>14. \A p \in DOMAIN h.types : B(p)
  <2>1. \A p \in 1 .. Len(h.types) : p \in S
    <3> HIDE DEF S
    <3> QED
      BY <1>1, <1>13, TypeInduction
  <2> QED
    BY <1>1, <2>1
<1>15. ASSUME NEW s \in D, s # 0 PROVE s - 1 \in D
  <2>1. PICK f : In(f) /\ h.funcs[f].slot = s
    BY <1>5
  <2> DEFINE c == h.funcs[f].receiver
             o == h.funcs[f].owner
  <2>2. s \in Nat
    BY <2>1 DEF Shape
  <2>3. /\ c \in Ancestors(h, o) /\ h.types[c].hasVTable
        /\ c = VTableBase => s = 0
        /\ c # VTableBase => Start(h, c) <= s /\ s < Start(h, c) + Size(h, c)
    BY <1>9, <2>1
  <2>4. c \in L /\ root(c) \in {r, VTableBase}
    BY <1>10, <1>15, <2>1, <2>3 DEF InTable
  <2> HIDE DEF L
  <2>5. /\ Start(h, c) <= s /\ s < Start(h, c) + Size(h, c)
        /\ Start(h, c) \in Nat /\ Size(h, c) \in Nat
    BY <1>9, <1>12, <2>3, <2>4
  <2>6. CASE s = Start(h, c)
    <3> DEFINE p == h.types[c].parents[1]
    <3>1. /\ p \in DOMAIN h.types
          /\ p # VTableBase => p \in L /\ root(p) \in {r, VTableBase}
          /\ p = VTableBase \/ Start(h, p) = h.types[p].first
      BY <1>11, <2>4
    <3>2. h.types[p].next - 1 \in D
      BY <1>14, <3>1
    <3> QED
      BY <2>6, <3>2 DEF Start
  <2>7. CASE s # Start(h, c)
    <3>1. s - 1 \in Nat /\ Start(h, c) <= s - 1 /\ s - 1 < Start(h, c) + Size(h, c)
      BY <1>15, <2>2, <2>5, <2>7
    <3> HIDE DEF c, o
    <3>2. Introduced(h, c, s - 1)
      BY <1>9, <2>4, <3>1
    <3>3. PICK g \in DOMAIN h.funcs : /\ h.funcs[g].virtual /\ h.funcs[g].owner = c
                                      /\ h.funcs[g].receiver = c /\ h.funcs[g].slot = s - 1
      BY <3>2 DEF Introduced
    <3>4. In(g)
      BY <2>4, <3>3 DEF InTable
    <3> QED
      BY <1>5, <3>3, <3>4
  <2> QED
    BY <2>6, <2>7
<1>16. D \in SUBSET Nat
  BY <1>5 DEF Shape
<1>17. IsFiniteSet(D)
  <2> DEFINE F == {f \in DOMAIN h.funcs : In(f)}
             slots == [f \in F |-> h.funcs[f].slot]
  <2>1. Len(h.funcs) \in Nat /\ DOMAIN h.funcs = 1 .. Len(h.funcs)
    BY <1>1, SeqFacts
  <2>2. IsFiniteSet(F)
    <3>1. IsFiniteSet(1 .. Len(h.funcs))
      BY <2>1, FS_Interval
    <3>2. F \in SUBSET (1 .. Len(h.funcs))
      BY <2>1
    <3> HIDE DEF F
    <3> QED
      BY <3>1, <3>2, FS_Subset
  <2>3. \A f \in F : slots[f] \in D
    BY <1>5
  <2>4. \A s \in D : \E f \in F : slots[f] = s
    BY <1>5
  <2>5. slots \in [F -> D]
    BY <2>3
  <2> HIDE DEF F, slots
  <2>6. slots \in Surjection(F, D)
    BY <2>4, <2>5, Fun_IsSurj
  <2> QED
    BY <2>2, <2>6, FS_Surjection
<1> HIDE DEF D
<1>18. D = 0 .. (Cardinality(D) - 1)
  BY <1>8, <1>15, <1>16, <1>17, NoGaps
<1> QED
  BY <1>4, <1>18

-----------------------------------------------------------------------------
(* Declaring a method.                                                     *)

\* The same classes, but for the number of their slots, whether they are
\* complete, and what waits for them.
SameClass(c, d) ==
  /\ DOMAIN d = DOMAIN c
  /\ d.parents = c.parents /\ d.hasVTable = c.hasVTable
  /\ d.abstract = c.abstract /\ d.first = c.first

SameClasses(h, g) ==
  /\ IsSeq(g.types) /\ Len(g.types) = Len(h.types) /\ DOMAIN g.types = DOMAIN h.types
  /\ \A x \in DOMAIN h.types : SameClass(h.types[x], g.types[x])

\* One function more.
Added(h, g, t, n, v, e) ==
  LET new == Len(h.funcs) + 1
  IN  /\ DOMAIN g = {"types", "funcs", "failed"} /\ g.failed = h.failed
      /\ IsSeq(g.funcs) /\ DOMAIN g.funcs = DOMAIN h.funcs \cup {new}
      /\ new \notin DOMAIN h.funcs
      /\ \A f \in DOMAIN h.funcs : g.funcs[f] = h.funcs[f]
      /\ DOMAIN g.funcs[new] = FuncFields
      /\ g.funcs[new].name = n /\ g.funcs[new].owner = t /\ g.funcs[new].virtual = v
      /\ g.funcs[new].slot = IF v /\ e # 0 THEN h.funcs[e].slot ELSE h.types[t].next
      /\ g.funcs[new].receiver = IF v /\ e # 0 THEN h.funcs[e].receiver ELSE t

LEMMA AddMethodIs ==
  ASSUME NEW h, Shape(h), NEW t \in DOMAIN h.types, NEW n, NEW v \in BOOLEAN, NEW kind, NEW e,
         NEW g, g = addMethod(h, t, n, v, kind, e)
  PROVE  /\ SameClasses(h, g)
         /\ \A x \in DOMAIN h.types :
               /\ g.types[x].complete = h.types[x].complete
               /\ g.types[x].children = h.types[x].children
               /\ g.types[x].next = IF x = t /\ v /\ e = 0 THEN h.types[x].next + 1
                                    ELSE h.types[x].next
         /\ Added(h, g, t, n, v, e)
<1> DEFINE func == [name |-> n, owner |-> t, virtual |-> v, kind |-> kind,
                    slot |-> h.types[t].next, receiver |-> t,
                    decl |-> Len(h.funcs) + 1]
           new == IF v /\ e # 0 THEN wrapOverride(h, func, e) ELSE func
           next == IF v /\ e = 0 THEN h.types[t].next + 1 ELSE h.types[t].next
           cls == [h.types[t] EXCEPT !.next = next]
           types == [h.types EXCEPT ![t] = cls]
<1>1. /\ DOMAIN h = {"types", "funcs", "failed"} /\ IsSeq(h.types) /\ IsSeq(h.funcs)
      /\ \A x \in DOMAIN h.types : DOMAIN h.types[x] = TypeFields
  BY DEF Shape, Lineage
<1>2. g = [h EXCEPT !.funcs = Append(h.funcs, new),
                    !.types = [h.types EXCEPT ![t] = [h.types[t] EXCEPT !.next = next]]]
  BY Zenon DEF addMethod
<1>3. /\ DOMAIN g = DOMAIN h /\ g.failed = h.failed
      /\ g.types = types
      /\ g.funcs = Append(h.funcs, new)
  <2> HIDE DEF new, next
  <2> QED
    BY <1>1, <1>2
<1>4. /\ DOMAIN cls = TypeFields /\ cls.next = next
      /\ cls.parents = h.types[t].parents /\ cls.hasVTable = h.types[t].hasVTable
      /\ cls.abstract = h.types[t].abstract /\ cls.first = h.types[t].first
      /\ cls.complete = h.types[t].complete /\ cls.children = h.types[t].children
  <2> HIDE DEF next
  <2> QED
    BY <1>1 DEF TypeFields
<1>5. /\ IsSeq(types) /\ Len(types) = Len(h.types) /\ DOMAIN types = DOMAIN h.types
      /\ types[t] = cls
      /\ \A x \in DOMAIN h.types : x # t => types[x] = h.types[x]
  <2> HIDE DEF cls
  <2> QED
    BY <1>1, ExceptIs
<1>6. \A x \in DOMAIN h.types :
         /\ SameClass(h.types[x], types[x])
         /\ types[x].complete = h.types[x].complete
         /\ types[x].children = h.types[x].children
         /\ types[x].next = IF x = t THEN next ELSE h.types[x].next
  <2> HIDE DEF types, cls, next
  <2> QED
    BY <1>1, <1>4, <1>5 DEF SameClass
<1>7. \A x \in DOMAIN h.types :
         (IF x = t THEN next ELSE h.types[x].next) =
           IF x = t /\ v /\ e = 0 THEN h.types[x].next + 1 ELSE h.types[x].next
  OBVIOUS
<1>8. /\ DOMAIN new = FuncFields
      /\ new.name = n /\ new.owner = t /\ new.virtual = v
      /\ new.slot = IF v /\ e # 0 THEN h.funcs[e].slot ELSE h.types[t].next
      /\ new.receiver = IF v /\ e # 0 THEN h.funcs[e].receiver ELSE t
  <2>1. /\ DOMAIN func = FuncFields
        /\ func.name = n /\ func.owner = t /\ func.virtual = v
        /\ func.slot = h.types[t].next /\ func.receiver = t
    BY DEF FuncFields
  <2> HIDE DEF func
  <2>2. CASE v /\ e # 0
    BY <2>1, <2>2 DEF wrapOverride, FuncFields
  <2>3. CASE ~(v /\ e # 0)
    BY <2>1, <2>3
  <2> QED
    BY <2>2, <2>3
<1> HIDE DEF new, next, types
<1>9. Added(h, g, t, n, v, e)
  <2>1. /\ IsSeq(g.funcs)
        /\ DOMAIN g.funcs = DOMAIN h.funcs \cup {Len(h.funcs) + 1}
        /\ Len(h.funcs) + 1 \notin DOMAIN h.funcs
        /\ \A f \in DOMAIN h.funcs : g.funcs[f] = h.funcs[f]
        /\ g.funcs[Len(h.funcs) + 1] = new
    <3>1. g.funcs = Append(h.funcs, new) /\ IsSeq(h.funcs)
      BY <1>1, <1>3
    <3>2. IsSeq(g.funcs)
      BY <3>1, AppendIs
    <3>3. DOMAIN g.funcs = DOMAIN h.funcs \cup {Len(h.funcs) + 1}
      BY <3>1, AppendIs
    <3>4. Len(h.funcs) + 1 \notin DOMAIN h.funcs
      BY <3>1, AppendIs
    <3>5. \A f \in DOMAIN h.funcs : g.funcs[f] = h.funcs[f]
      BY <3>1, AppendIs
    <3>6. g.funcs[Len(h.funcs) + 1] = new
      BY <3>1, AppendIs
    <3> QED
      BY <3>2, <3>3, <3>4, <3>5, <3>6
  <2>2. DOMAIN g = {"types", "funcs", "failed"} /\ g.failed = h.failed
    BY <1>1, <1>3
  <2> QED
    BY <1>8, <2>1, <2>2, Zenon DEF Added
<1>10. SameClasses(h, g)
  BY <1>3, <1>5, <1>6 DEF SameClasses
<1>11. \A x \in DOMAIN h.types :
         /\ g.types[x].complete = h.types[x].complete
         /\ g.types[x].children = h.types[x].children
         /\ g.types[x].next = IF x = t /\ v /\ e = 0 THEN h.types[x].next + 1
                              ELSE h.types[x].next
  <2> TAKE x \in DOMAIN h.types
  <2>1. /\ g.types[x].complete = h.types[x].complete
        /\ g.types[x].children = h.types[x].children
        /\ g.types[x].next = IF x = t THEN next ELSE h.types[x].next
    BY <1>3, <1>6
  <2> QED
    BY <1>7, <2>1
<1> QED
  BY <1>9, <1>10, <1>11

LEMMA SameFacts ==
  ASSUME NEW h, Lineage(h), NEW g, SameClasses(h, g)
  PROVE  /\ Lineage(g)
         /\ \A x \in DOMAIN h.types : Ancestors(g, x) = Ancestors(h, x)
         /\ \A x \in DOMAIN h.types : Straight(g, x) <=> Straight(h, x)
<1>1. \A x \in DOMAIN h.types : g.types[x].parents = h.types[x].parents
  BY DEF SameClasses, SameClass
<1>2. Lineage(g)
  BY <1>1 DEF Lineage, SameClasses
<1>3. DOMAIN h.types \subseteq DOMAIN g.types
  BY DEF SameClasses
<1>4. \A x \in DOMAIN h.types : Ancestors(g, x) = Ancestors(h, x)
  BY <1>1, <1>2, <1>3, AncestorsSame
<1>5. ASSUME NEW x \in DOMAIN h.types
      PROVE  Straight(g, x) <=> Straight(h, x)
  <2>1. \A a \in Ancestors(h, x) : a \in DOMAIN h.types
    BY AncestorsAre
  <2>2. \A a \in Ancestors(h, x) : \A p \in Range(h.types[a].parents) :
           g.types[p].hasVTable = h.types[p].hasVTable
    BY <2>1, LineageFacts DEF SameClasses, SameClass
  <2>3. \A a \in Ancestors(h, x) : g.types[a].parents = h.types[a].parents
    BY <1>1, <2>1
  <2>4. Ancestors(g, x) = Ancestors(h, x)
    BY <1>4
  <2> QED
    BY <2>2, <2>3, <2>4 DEF Straight
<1> QED
  BY <1>2, <1>4, <1>5

\* When function e is what a method of t overrides, 0 if it is a new one.
MayAdd(h, t, n, v, e) ==
  /\ t # VTableBase
  /\ v => h.types[t].hasVTable /\ ~h.types[t].complete /\ Settled(h, t)
  /\ v /\ e # 0 =>
        /\ e \in DOMAIN h.funcs /\ h.funcs[e].virtual
        /\ h.funcs[e].owner \in Ancestors(h, t)
        /\ Straight(h, t) /\ h.funcs[e].owner # t => h.funcs[e].slot < h.types[t].first
  /\ n = "oper class" => v /\ e # 0 /\ h.funcs[e].name = "oper class"

\* The types without an "oper class" of their own, after method n of t.
Without(X, n, t) == IF n = "oper class" THEN X \ {t} ELSE X

LEMMA AddMethodGood ==
  ASSUME NEW h, NEW X, Good(h, X), NEW t \in DOMAIN h.types, NEW n, NEW v \in BOOLEAN,
         NEW kind, NEW e, MayAdd(h, t, n, v, e),
         NEW g, g = addMethod(h, t, n, v, kind, e)
  PROVE  /\ Good(g, Without(X, n, t))
         /\ \A x \in DOMAIN h.types :
               h.types[x].parents = <<>> \/ h.types[x].parents[1] # t
                  => (Settled(g, x) <=> Settled(h, x))
<1> DEFINE T == DOMAIN h.types
           F == DOMAIN h.funcs
           new == Len(h.funcs) + 1
           Y == Without(X, n, t)
<1>1. Shape(h) /\ Classes(h) /\ Lineage(h)
  BY DEF Good, Shape
<1>2. /\ DOMAIN g = {"types", "funcs", "failed"}
      /\ SameClasses(h, g)
      /\ Added(h, g, t, n, v, e)
  <2>2. SameClasses(h, g)
    BY <1>1, AddMethodIs
  <2>3. Added(h, g, t, n, v, e)
    BY <1>1, AddMethodIs
  <2> QED
    BY <2>2, <2>3 DEF Added
<1>3. \A x \in T :
         /\ g.types[x].complete = h.types[x].complete
         /\ g.types[x].children = h.types[x].children
         /\ g.types[x].next = IF x = t /\ v /\ e = 0 THEN h.types[x].next + 1
                              ELSE h.types[x].next
  BY <1>1, AddMethodIs
<1>4. /\ IsSeq(g.types) /\ DOMAIN g.types = T
      /\ \A x \in T : /\ DOMAIN g.types[x] = DOMAIN h.types[x]
                      /\ g.types[x].parents = h.types[x].parents
                      /\ g.types[x].hasVTable = h.types[x].hasVTable
                      /\ g.types[x].abstract = h.types[x].abstract
                      /\ g.types[x].first = h.types[x].first
  BY <1>2 DEF SameClasses, SameClass
<1>5. /\ Lineage(g)
      /\ \A x \in T : Ancestors(g, x) = Ancestors(h, x)
      /\ \A x \in T : Straight(g, x) <=> Straight(h, x)
  BY <1>1, <1>2, SameFacts
<1>6. /\ IsSeq(g.funcs) /\ DOMAIN g.funcs = F \cup {new} /\ new \notin F
      /\ \A f \in F : g.funcs[f] = h.funcs[f]
      /\ DOMAIN g.funcs[new] = FuncFields
      /\ g.funcs[new].name = n /\ g.funcs[new].owner = t /\ g.funcs[new].virtual = v
      /\ g.funcs[new].slot = IF v /\ e # 0 THEN h.funcs[e].slot ELSE h.types[t].next
      /\ g.funcs[new].receiver = IF v /\ e # 0 THEN h.funcs[e].receiver ELSE t
  BY <1>2, Zenon DEF Added
<1> HIDE DEF new
<1>7. \A x \in T : /\ h.types[x].first \in Nat /\ h.types[x].next \in Nat
                   /\ h.types[x].first <= h.types[x].next /\ x \in Nat
                   /\ g.types[x].next \in Nat /\ h.types[x].next <= g.types[x].next
  BY <1>1, <1>3, TypeFacts
<1>8. \A f \in F : /\ FunctionOK(h, f) /\ h.funcs[f].slot \in Nat /\ h.funcs[f].owner \in T
  BY DEF Good, Shape
<1>9. Shape(g)
  <2>1. ASSUME NEW x \in T
        PROVE  /\ DOMAIN g.types[x] = TypeFields
               /\ {g.types[x].hasVTable, g.types[x].abstract, g.types[x].complete} \subseteq BOOLEAN
               /\ g.types[x].first \in Nat /\ g.types[x].next \in Nat
               /\ g.types[x].first <= g.types[x].next
               /\ IsSeq(g.types[x].children)
               /\ \A k \in Range(g.types[x].children) : k \in T /\ x < k
    <3>1. /\ DOMAIN h.types[x] = TypeFields
          /\ {h.types[x].hasVTable, h.types[x].abstract, h.types[x].complete} \subseteq BOOLEAN
          /\ IsSeq(h.types[x].children)
          /\ \A k \in Range(h.types[x].children) : k \in T /\ x < k
      BY <1>1 DEF Shape
    <3>2. g.types[x].first <= g.types[x].next
      BY <1>4, <1>7
    <3> QED
      BY <1>3, <1>4, <1>7, <3>1, <3>2
  <2>2. ASSUME NEW f \in F \cup {new}
        PROVE  /\ DOMAIN g.funcs[f] = FuncFields
               /\ g.funcs[f].owner \in T
               /\ g.funcs[f].virtual \in BOOLEAN
               /\ g.funcs[f].slot \in Nat
    <3>1. CASE f \in F
      BY <1>1, <1>6, <3>1 DEF Shape
    <3>2. CASE f = new
      <4>1. v /\ e # 0 => h.funcs[e].slot \in Nat
        BY <1>8 DEF MayAdd
      <4> QED
        BY <1>6, <1>7, <3>2, <4>1
    <3> QED
      BY <3>1, <3>2
  <2>3. DOMAIN g = {"types", "funcs", "failed"} /\ VTableBase \in T
    BY <1>1, <1>2 DEF Shape
  <2> QED
    BY <1>4, <1>5, <1>6, <2>1, <2>2, <2>3 DEF Shape
  \* A class that follows t on while t grows waits for it.
<1>10. ASSUME NEW x \in T, h.types[x].parents = <<>> \/ h.types[x].parents[1] # t
       PROVE  Settled(g, x) <=> Settled(h, x)
  <2>1. CASE x # VTableBase /\ h.types[x].hasVTable
    <3>1. h.types[x].parents[1] \in T /\ h.types[x].parents # <<>>
      BY <1>1, <2>1, FirstParent, LineageFacts DEF Classes, ClassOK
    <3>2. g.types[h.types[x].parents[1]].next = h.types[h.types[x].parents[1]].next
      BY <1>3, <1>10, <3>1
    <3> QED
      BY <1>4, <3>2 DEF Settled
  <2>2. CASE ~(x # VTableBase /\ h.types[x].hasVTable)
    BY <1>4, <2>2 DEF Settled
  <2> QED
    BY <2>1, <2>2
<1>11. ASSUME NEW x \in T PROVE Closed(g, x) <=> Closed(h, x)
  BY <1>1, <1>3, <1>4, LineageFacts DEF Closed
<1>12. ASSUME NEW x \in T, Closed(h, x)
       PROVE  Settled(g, x) <=> Settled(h, x)
  <2>1. CASE x # VTableBase /\ h.types[x].hasVTable
    <3>1. h.types[x].parents[1] \in Range(h.types[x].parents)
      BY <1>1, <2>1, FirstParent
    <3>2. h.types[h.types[x].parents[1]].complete
      BY <1>12, <3>1 DEF Closed
    <3>3. CASE v
      <4>1. ~h.types[t].complete
        BY <3>3 DEF MayAdd
      <4>2. h.types[x].parents[1] # t
        BY <3>2, <4>1
      <4> QED
        BY <1>10, <4>2
    <3>4. CASE ~v
      <4>1. h.types[x].parents[1] \in T
        BY <1>1, <3>1, LineageFacts
      <4>2. g.types[h.types[x].parents[1]].next = h.types[h.types[x].parents[1]].next
        BY <1>3, <3>4, <4>1
      <4> QED
        BY <1>4, <4>2 DEF Settled
    <3> QED
      BY <3>3, <3>4
  <2>2. CASE ~(x # VTableBase /\ h.types[x].hasVTable)
    BY <1>4, <2>2 DEF Settled
  <2> QED
    BY <2>1, <2>2
<1>13. Classes(g)
  <2>1. RootOK(g)
    <3>1. VTableBase \in T /\ VTableBase # t /\ RootOK(h)
      BY <1>1 DEF Shape, Classes, MayAdd
    <3> QED
      BY <1>3, <1>4, <3>1 DEF RootOK
  <2>2. ASSUME NEW x \in T \ {VTableBase} PROVE ClassOK(g, x)
    <3> DEFINE ps == h.types[x].parents
    <3>1. ClassOK(h, x)
      BY <1>1 DEF Classes
    <3>2. g.types[x].parents = ps /\ \A p \in Range(ps) : p \in T
      BY <1>1, <1>4, LineageFacts
    <3>3. g.types[x].hasVTable <=> \E p \in Range(ps) : g.types[p].hasVTable
      BY <1>4, <3>1, <3>2 DEF ClassOK
    <3>4. g.types[x].abstract => g.types[x].hasVTable
      BY <1>4, <3>1 DEF ClassOK
    <3>5. ASSUME g.types[x].hasVTable
          PROVE  /\ ps # <<>> /\ g.types[ps[1]].hasVTable
                 /\ 1 <= g.types[x].first /\ g.types[x].first <= g.types[ps[1]].next
      <4>1. h.types[x].hasVTable
        BY <1>4, <3>5
      <4>2. ps[1] \in T /\ h.types[ps[1]].hasVTable
        BY <1>1, <3>2, <4>1, FirstParent
      <4>3. ps # <<>> /\ 1 <= h.types[x].first /\ h.types[x].first <= h.types[ps[1]].next
        BY <3>1, <4>1 DEF ClassOK
      <4>4. /\ h.types[ps[1]].next \in Nat /\ g.types[ps[1]].next \in Nat
            /\ h.types[ps[1]].next <= g.types[ps[1]].next
            /\ h.types[x].first \in Nat
        BY <1>7, <4>2
      <4>5. g.types[x].first = h.types[x].first /\ g.types[ps[1]].hasVTable
        BY <1>4, <4>2
      <4> HIDE DEF ps
      <4>6. g.types[x].first <= g.types[ps[1]].next
        BY <4>3, <4>4, <4>5
      <4> QED
        BY <4>3, <4>5, <4>6
    <3>6. g.types[x].complete => Closed(g, x)
      BY <1>3, <1>11, <3>1 DEF ClassOK
    <3>7. ASSUME NEW p \in Range(ps)
          PROVE  Settled(g, p) /\ Closed(g, p) /\ (~g.types[p].complete => ps = <<p>>)
      <4>1. Settled(h, p) /\ Closed(h, p) /\ (~h.types[p].complete => ps = <<p>>)
        BY <3>1 DEF ClassOK
      <4> QED
        BY <1>3, <1>11, <1>12, <3>2, <4>1
    <3>8. ~g.types[x].complete => Straight(g, x) \/ (Settled(g, x) /\ Closed(g, x))
      BY <1>3, <1>5, <1>11, <1>12, <3>1 DEF ClassOK
    <3> HIDE DEF ps
    <3> QED
      BY <3>2, <3>3, <3>4, <3>5, <3>6, <3>7, <3>8 DEF ClassOK
  <2> QED
    BY <1>4, <2>1, <2>2 DEF Classes
<1>14. ASSUME NEW x \in T PROVE Placed(g, x) <=> Placed(h, x)
  <2>1. CASE h.types[x].complete /\ x # VTableBase
    <3>1. Closed(h, x)
      BY <1>1, <2>1 DEF Classes, ClassOK
    <3> QED
      BY <1>3, <1>12, <3>1 DEF Placed
  <2>2. CASE x = VTableBase
    BY <2>2 DEF Placed, Settled
  <2>3. CASE ~h.types[x].complete
    BY <1>3, <2>3 DEF Placed
  <2> QED
    BY <2>1, <2>2, <2>3
<1>15. ASSUME NEW f \in F PROVE FunctionOK(g, f)
  <2> DEFINE func == h.funcs[f]
  <2>1. FunctionOK(h, f) /\ g.funcs[f] = func /\ func.owner \in T /\ func.slot \in Nat
    BY <1>6, <1>8
  <2>2. func.virtual => func.receiver \in Ancestors(h, func.owner)
    BY <2>1 DEF FunctionOK
  <2>3. func.virtual => func.receiver \in T
    BY <1>1, <2>1, <2>2, AncestorsAre
  <2>4. func.name = "oper class" => func.virtual /\ func.receiver = VTableBase
    BY <2>1 DEF FunctionOK
  <2>5. ASSUME func.virtual
        PROVE  LET o == g.types[func.owner]
                   c == g.types[func.receiver]
               IN  /\ o.hasVTable /\ func.receiver \in Ancestors(g, func.owner) /\ c.hasVTable
                   /\ func.receiver = VTableBase => func.slot = 0
                   /\ func.receiver \notin {VTableBase, func.owner} =>
                         c.first <= func.slot /\ func.slot < c.next
                   /\ Placed(g, func.owner) =>
                         /\ func.receiver = func.owner /\ func.owner # VTableBase =>
                               o.first <= func.slot /\ func.slot < o.next
                         /\ func.receiver # func.owner /\ Straight(g, func.owner) =>
                               func.slot < o.first
    <3> DEFINE ho == h.types[func.owner]
               hc == h.types[func.receiver]
               go == g.types[func.owner]
               gc == g.types[func.receiver]
    <3>1. /\ ho.hasVTable /\ func.receiver \in Ancestors(h, func.owner) /\ hc.hasVTable
          /\ func.receiver = VTableBase => func.slot = 0
          /\ func.receiver \notin {VTableBase, func.owner} =>
                hc.first <= func.slot /\ func.slot < hc.next
          /\ Placed(h, func.owner) =>
                /\ func.receiver = func.owner /\ func.owner # VTableBase =>
                      ho.first <= func.slot /\ func.slot < ho.next
                /\ func.receiver # func.owner /\ Straight(h, func.owner) =>
                      func.slot < ho.first
      BY <2>1, <2>5 DEF FunctionOK
    <3>2. /\ go.hasVTable = ho.hasVTable /\ gc.hasVTable = hc.hasVTable
          /\ go.first = ho.first /\ gc.first = hc.first
          /\ ho.next <= go.next /\ hc.next <= gc.next
          /\ ho.next \in Nat /\ hc.next \in Nat /\ go.next \in Nat /\ gc.next \in Nat
          /\ ho.first \in Nat /\ hc.first \in Nat
      BY <1>4, <1>7, <2>1, <2>3, <2>5
    <3>3. /\ Ancestors(g, func.owner) = Ancestors(h, func.owner)
          /\ Straight(g, func.owner) <=> Straight(h, func.owner)
          /\ Placed(g, func.owner) <=> Placed(h, func.owner)
      BY <1>5, <1>14, <2>1
    <3> HIDE DEF ho, hc, go, gc, func
    <3>4. /\ go.hasVTable /\ func.receiver \in Ancestors(g, func.owner) /\ gc.hasVTable
          /\ func.receiver = VTableBase => func.slot = 0
          /\ func.receiver \notin {VTableBase, func.owner} =>
                gc.first <= func.slot /\ func.slot < gc.next
          /\ Placed(g, func.owner) =>
                /\ func.receiver = func.owner /\ func.owner # VTableBase =>
                      go.first <= func.slot /\ func.slot < go.next
                /\ func.receiver # func.owner /\ Straight(g, func.owner) =>
                      func.slot < go.first
      BY <2>1, <3>1, <3>2, <3>3
    <3> QED
      BY <3>4 DEF go, gc
  <2> HIDE DEF func
  <2> QED
    BY <2>1, <2>4, <2>5 DEF FunctionOK
<1>16. FunctionOK(g, new)
  <2> DEFINE func == g.funcs[new]
             c == func.receiver
             s == func.slot
             o == h.funcs[e].owner
  <2>1. n = "oper class" => v /\ e # 0 /\ h.funcs[e].name = "oper class"
    BY DEF MayAdd
  <2>2. v => h.types[t].hasVTable /\ ~h.types[t].complete /\ t # VTableBase
    BY DEF MayAdd
  <2>3. v /\ e # 0 =>
          /\ e \in F /\ h.funcs[e].virtual
          /\ o \in Ancestors(h, t)
          /\ Straight(h, t) /\ o # t => h.funcs[e].slot < h.types[t].first
          /\ FunctionOK(h, e) /\ h.funcs[e].slot \in Nat
    BY <1>8 DEF MayAdd
  <2>4. func.name = "oper class" => func.virtual /\ c = VTableBase
    BY <1>6, <2>1, <2>3 DEF FunctionOK
  <2>5. ASSUME v
        PROVE  /\ c \in Ancestors(h, t) /\ h.types[c].hasVTable
               /\ c = VTableBase => s = 0
               /\ c \notin {VTableBase, t} =>
                     h.types[c].first <= s /\ s < h.types[c].next
               /\ c = t /\ t # VTableBase => h.types[t].first <= s /\ s < g.types[t].next
               /\ c # t /\ Straight(h, t) => s < h.types[t].first
    <3>1. CASE e = 0
      <4>1. c = t /\ s = h.types[t].next /\ t \in Ancestors(h, t)
        BY <1>1, <1>6, <3>1, AncestorIs
      <4>2. g.types[t].next = h.types[t].next + 1
        BY <1>3, <2>5, <3>1
      <4>3. h.types[t].next \in Nat /\ h.types[t].first <= h.types[t].next
        BY <1>7
      <4>4. h.types[t].first <= s /\ s < g.types[t].next
        BY <4>1, <4>2, <4>3
      <4>5. h.types[t].hasVTable /\ t # VTableBase
        BY <2>2, <2>5
      <4> HIDE DEF c, s
      <4> QED
        BY <4>1, <4>4, <4>5
    <3>2. CASE e # 0
      <4>1. c = h.funcs[e].receiver /\ s = h.funcs[e].slot /\ s \in Nat
        BY <1>6, <2>3, <2>5, <3>2
      <4>2. /\ e \in F /\ h.funcs[e].virtual /\ o \in Ancestors(h, t) /\ o \in T
            /\ Straight(h, t) /\ o # t => s < h.types[t].first
        BY <1>8, <2>3, <2>5, <3>2, <4>1
      <4> HIDE DEF func
      <4>3. /\ h.types[o].hasVTable /\ c \in Ancestors(h, o) /\ h.types[c].hasVTable
            /\ c = VTableBase => s = 0
            /\ c \notin {VTableBase, o} => h.types[c].first <= s /\ s < h.types[c].next
            /\ Placed(h, o) =>
                  /\ c = o /\ o # VTableBase => h.types[o].first <= s /\ s < h.types[o].next
                  /\ c # o /\ Straight(h, o) => s < h.types[o].first
        BY <2>3, <2>5, <3>2, <4>1, <4>2 DEF FunctionOK
      <4> HIDE DEF c, s, o
      <4>4. c \in Ancestors(h, t) /\ c \in T
        BY <1>1, <4>2, <4>3, AncestorsTrans, AncestorsAre
      <4>5. o # t => Placed(h, o) /\ o < t
        BY <1>1, <4>2, AncestorFacts DEF Placed
      <4>6. Placed(h, t)
        BY <2>2, <2>5 DEF Placed
      <4>7. c <= o
        BY <1>1, <4>2, <4>3, AncestorsAre
      <4>8. c = t => o = t
        BY <1>7, <4>2, <4>4, <4>5, <4>7
      <4>9. h.types[t].next \in Nat /\ g.types[t].next \in Nat /\ h.types[t].next <= g.types[t].next
        BY <1>7
      <4>10. c \notin {VTableBase, t} => h.types[c].first <= s /\ s < h.types[c].next
        BY <4>3, <4>5
      <4>11. c = t /\ t # VTableBase => h.types[t].first <= s /\ s < g.types[t].next
        BY <1>7, <4>1, <4>3, <4>6, <4>8, <4>9
      <4>12. c # t /\ Straight(h, t) => s < h.types[t].first
        BY <4>2, <4>3, <4>6
      <4> QED
        BY <4>3, <4>4, <4>10, <4>11, <4>12
    <3> QED
      BY <3>1, <3>2
  <2>6. func.owner = t /\ func.virtual = v /\ s \in Nat
    BY <1>6, <1>7, <2>3
  <2> HIDE DEF func
  <2>7. ASSUME v
        PROVE  /\ g.types[t].hasVTable /\ c \in Ancestors(g, t) /\ g.types[c].hasVTable
               /\ c = VTableBase => s = 0
               /\ c \notin {VTableBase, t} =>
                     g.types[c].first <= s /\ s < g.types[c].next
               /\ c = t /\ t # VTableBase => g.types[t].first <= s /\ s < g.types[t].next
               /\ c # t /\ Straight(g, t) => s < g.types[t].first
    <3>1. c \in T
      BY <1>1, <2>5, <2>7, AncestorsAre
    <3>2. Ancestors(g, t) = Ancestors(h, t) /\ (Straight(g, t) <=> Straight(h, t))
      BY <1>5
    <3>3. /\ g.types[t].hasVTable = h.types[t].hasVTable /\ g.types[t].first = h.types[t].first
          /\ g.types[c].hasVTable = h.types[c].hasVTable /\ g.types[c].first = h.types[c].first
          /\ h.types[c].next <= g.types[c].next
          /\ h.types[c].next \in Nat /\ g.types[c].next \in Nat
      BY <1>4, <1>7, <3>1
    <3> HIDE DEF c, s
    <3>4. /\ c \in Ancestors(h, t) /\ h.types[c].hasVTable
          /\ c = VTableBase => s = 0
          /\ c \notin {VTableBase, t} => h.types[c].first <= s /\ s < h.types[c].next
          /\ c = t /\ t # VTableBase => h.types[t].first <= s /\ s < g.types[t].next
          /\ c # t /\ Straight(h, t) => s < h.types[t].first
          /\ h.types[t].hasVTable
      BY <2>2, <2>5, <2>7
    <3>5. c \notin {VTableBase, t} => g.types[c].first <= s /\ s < g.types[c].next
      BY <2>6, <3>3, <3>4
    <3>6. c = t /\ t # VTableBase => g.types[t].first <= s /\ s < g.types[t].next
      BY <3>3, <3>4
    <3>7. c # t /\ Straight(g, t) => s < g.types[t].first
      BY <3>2, <3>3, <3>4
    <3>8. g.types[t].hasVTable /\ c \in Ancestors(g, t) /\ g.types[c].hasVTable
      BY <3>2, <3>3, <3>4
    <3> QED
      BY <3>4, <3>5, <3>6, <3>7, <3>8
  <2> HIDE DEF c, s
  <2> QED
    BY <2>4, <2>6, <2>7 DEF FunctionOK, func, c, s
<1>17. \A x \in T : \A s : Introduced(h, x, s) => Introduced(g, x, s)
  BY <1>6 DEF Introduced
<1>18. ASSUME NEW x \in T \ {VTableBase} PROVE FilledOK(g, x)
  <2>1. FilledOK(h, x)
    BY DEF Good
  <2> SUFFICES ASSUME g.types[x].hasVTable, Placed(g, x), NEW s \in Nat,
                      g.types[x].first <= s, s < g.types[x].next
               PROVE  Introduced(g, x, s)
    BY DEF FilledOK
  <2>2. h.types[x].hasVTable /\ Placed(h, x) /\ h.types[x].first <= s
    BY <1>4, <1>14
  <2>3. CASE s < h.types[x].next
    BY <1>17, <2>1, <2>2, <2>3 DEF FilledOK
  <2>4. CASE ~(s < h.types[x].next)
    <3>1. x = t /\ v /\ e = 0 /\ s = h.types[t].next
      <4>1. g.types[x].next = IF x = t /\ v /\ e = 0 THEN h.types[x].next + 1
                              ELSE h.types[x].next
        BY <1>3
      <4>2. h.types[x].next \in Nat
        BY <1>7
      <4>3. CASE x = t /\ v /\ e = 0
        <5>1. g.types[x].next = h.types[x].next + 1
          BY <4>1, <4>3
        <5>2. s = h.types[x].next
          BY <2>4, <4>2, <5>1
        <5> QED
          BY <4>3, <5>2
      <4>4. CASE ~(x = t /\ v /\ e = 0)
        <5>1. g.types[x].next = h.types[x].next
          BY <4>1, <4>4
        <5> QED
          BY <2>4, <5>1
      <4> QED
        BY <4>3, <4>4
    <3>2. /\ new \in DOMAIN g.funcs /\ g.funcs[new].virtual /\ g.funcs[new].owner = x
          /\ g.funcs[new].receiver = x /\ g.funcs[new].slot = s
      BY <1>6, <3>1
    <3> QED
      BY <3>2, Zenon DEF Introduced
  <2> QED
    BY <2>3, <2>4
<1>19. ASSUME NEW x \in T \ Y PROVE HasOperClass(g, x)
  <2>1. CASE x \in T \ X
    <3>1. HasOperClass(h, x)
      BY <2>1 DEF Good
    <3> SUFFICES ASSUME g.types[x].hasVTable
                 PROVE  \E f \in DOMAIN g.funcs : /\ g.funcs[f].owner = x
                                                  /\ g.funcs[f].name = "oper class"
      BY DEF HasOperClass
    <3>2. h.types[x].hasVTable
      BY <1>4
    <3>3. PICK f \in F : h.funcs[f].owner = x /\ h.funcs[f].name = "oper class"
      BY <3>1, <3>2 DEF HasOperClass
    <3>4. f \in DOMAIN g.funcs /\ g.funcs[f] = h.funcs[f]
      BY <1>6
    <3> QED
      BY <3>3, <3>4
  <2>2. CASE x = t /\ n = "oper class"
    BY <1>6, <2>2 DEF HasOperClass
  <2>3. x \in T \ X \/ (x = t /\ n = "oper class")
    BY DEF Without
  <2> QED
    BY <2>1, <2>2, <2>3
<1>20. Good(g, Y)
  <2>1. \A f \in DOMAIN g.funcs : FunctionOK(g, f)
    BY <1>6, <1>15, <1>16
  <2> QED
    BY <1>4, <1>9, <1>13, <1>18, <1>19, <2>1 DEF Good
<1> QED
  BY <1>10, <1>20

-----------------------------------------------------------------------------
(* Beginning a class.                                                      *)

\* What may be derived from: settled classes whose bases are complete, one only
\* if it is not complete itself, and those with vtables first.
MayDerive(h, bases) ==
  /\ IsSeq(bases) /\ Range(bases) \subseteq DOMAIN h.types
  /\ \A b \in Range(bases) :
        /\ Settled(h, b) /\ Closed(h, b)
        /\ ~h.types[b].complete => bases = <<b>> /\ Straight(h, b)
  /\ (\E b \in Range(bases) : h.types[b].hasVTable) => h.types[bases[1]].hasVTable

LEMMA NextSlotIs ==
  ASSUME NEW h, Shape(h), NEW bases, MayDerive(h, bases)
  PROVE  NextSlot(h, bases) = IF \E b \in Range(bases) : h.types[b].hasVTable
                              THEN h.types[bases[1]].next ELSE 0
<1> DEFINE I == {i \in 1 .. Len(bases) : h.types[bases[i]].hasVTable}
           first == IF I # {} THEN Min(I) ELSE 0
<1>1. NextSlot(h, bases) = IF first = 0 THEN 0 ELSE h.types[bases[first]].next
  BY Zenon DEF NextSlot, SelectInSeq
<1>2. Len(bases) \in Nat /\ DOMAIN bases = 1 .. Len(bases)
  BY SeqFacts DEF MayDerive
<1>3. I = {} <=> ~\E b \in Range(bases) : h.types[b].hasVTable
  BY <1>2 DEF Range
<1>4. CASE I = {}
  <2>1. first = 0
    BY <1>4
  <2> HIDE DEF first, I
  <2> QED
    BY <1>1, <1>3, <1>4, <2>1
<1>5. CASE I # {}
  <2>1. h.types[bases[1]].hasVTable /\ 1 \in I
    <3>1. h.types[bases[1]].hasVTable
      BY <1>3, <1>5 DEF MayDerive
    <3>2. 1 \in 1 .. Len(bases)
      BY <1>2, <1>5
    <3> QED
      BY <3>1, <3>2
  <2>2. \A i \in I : i \in Nat /\ 1 <= i
    BY <1>2
  <2> HIDE DEF I
  <2>3. \E i \in I : \A j \in I : i <= j
    BY <2>1, <2>2
  <2>4. Min(I) \in I /\ \A j \in I : Min(I) <= j
    BY <2>3 DEF Min
  <2>5. Min(I) = 1
    <3>1. Min(I) \in Nat /\ 1 <= Min(I) /\ Min(I) <= 1
      BY <2>1, <2>2, <2>4
    <3> QED
      BY <3>1
  <2>6. first = 1
    BY <1>5, <2>5
  <2> HIDE DEF first
  <2> QED
    BY <1>1, <1>3, <1>5, <2>6
<1> QED
  BY <1>4, <1>5

\* One class more, with the base classes bases.
Begun(h, g, bases, abstract) ==
  LET t == Len(h.types) + 1
  IN  /\ DOMAIN g = {"types", "funcs", "failed"}
      /\ g.failed = h.failed /\ g.funcs = h.funcs
      /\ IsSeq(g.types) /\ DOMAIN g.types = DOMAIN h.types \cup {t}
      /\ t \notin DOMAIN h.types
      /\ \A x \in DOMAIN h.types : g.types[x] = h.types[x]
      /\ DOMAIN g.types[t] = TypeFields
      /\ g.types[t].parents = bases
      /\ g.types[t].hasVTable = \E b \in Range(bases) : h.types[b].hasVTable
      /\ g.types[t].abstract = abstract /\ g.types[t].complete = FALSE
      /\ g.types[t].first = NextSlot(h, bases) /\ g.types[t].next = NextSlot(h, bases)
      /\ g.types[t].children = <<>>

LEMMA BeginIs ==
  ASSUME NEW h, Shape(h), NEW bases, NEW abstract,
         NEW g, g = emitBeginClass(h, bases, abstract)
  PROVE  LET t == Len(h.types) + 1
         IN  \E k : /\ Begun(h, k, bases, abstract)
                    /\ g = IF k.types[t].hasVTable THEN createOperClass(k, t) ELSE k
<1> DEFINE t == Len(h.types) + 1
           new == [parents   |-> bases,
                   hasVTable |-> \E b \in Range(bases) : h.types[b].hasVTable,
                   abstract  |-> abstract,
                   complete  |-> FALSE,
                   first     |-> NextSlot(h, bases),
                   next      |-> NextSlot(h, bases),
                   children  |-> <<>>,
                   flags     |-> "none",
                   vtables   |-> <<>>]
           k == [h EXCEPT !.types = Append(h.types, new)]
<1>1. g = IF k.types[t].hasVTable THEN createOperClass(k, t) ELSE k
  BY Zenon DEF emitBeginClass
<1>2. DOMAIN h = {"types", "funcs", "failed"} /\ IsSeq(h.types)
  BY DEF Shape, Lineage
<1>3. /\ DOMAIN new = TypeFields /\ new.parents = bases
      /\ new.hasVTable = \E b \in Range(bases) : h.types[b].hasVTable
      /\ new.abstract = abstract /\ new.complete = FALSE
      /\ new.first = NextSlot(h, bases) /\ new.next = NextSlot(h, bases)
      /\ new.children = <<>>
  BY DEF TypeFields
<1> HIDE DEF new
<1>4. /\ DOMAIN k = {"types", "funcs", "failed"}
      /\ k.failed = h.failed /\ k.funcs = h.funcs
      /\ k.types = Append(h.types, new)
  BY <1>2
<1> HIDE DEF k
<1>5. IsSeq(k.types) /\ DOMAIN k.types = DOMAIN h.types \cup {t} /\ t \notin DOMAIN h.types
  BY <1>2, <1>4, AppendIs
<1>6. (\A x \in DOMAIN h.types : k.types[x] = h.types[x]) /\ k.types[t] = new
  BY <1>2, <1>4, AppendIs
<1>7. Begun(h, k, bases, abstract)
  BY <1>3, <1>4, <1>5, <1>6, Zenon DEF Begun
<1> QED
  BY <1>1, <1>7

LEMMA BegunGood ==
  ASSUME NEW h, Good(h, {}), NEW bases, MayDerive(h, bases), NEW abstract \in BOOLEAN,
         abstract => \E b \in Range(bases) : h.types[b].hasVTable,
         NEW g, Begun(h, g, bases, abstract)
  PROVE  LET t == Len(h.types) + 1
         IN  /\ Good(g, {t})
             /\ \A x \in DOMAIN h.types : Settled(g, x) <=> Settled(h, x)
             /\ Settled(g, t) /\ t # VTableBase
<1> DEFINE t == Len(h.types) + 1
           T == DOMAIN h.types
           vt == \E b \in Range(bases) : h.types[b].hasVTable
           slot == NextSlot(h, bases)
<1>1. Shape(h) /\ Classes(h) /\ Lineage(h) /\ IsSeq(h.funcs)
  BY DEF Good, Shape
<1>2. Len(h.types) \in Nat /\ T = 1 .. Len(h.types) /\ t \in Nat /\ VTableBase \in T
  BY <1>1, LineageFacts DEF Shape
<1>3. /\ DOMAIN g = {"types", "funcs", "failed"} /\ g.funcs = h.funcs
      /\ IsSeq(g.types) /\ DOMAIN g.types = T \cup {t} /\ t \notin T
      /\ \A x \in T : g.types[x] = h.types[x]
  BY DEF Begun
<1>4. /\ DOMAIN g.types[t] = TypeFields /\ g.types[t].parents = bases
      /\ g.types[t].hasVTable = vt
      /\ g.types[t].abstract = abstract /\ g.types[t].complete = FALSE
      /\ g.types[t].first = slot /\ g.types[t].next = slot
      /\ g.types[t].children = <<>>
  BY Zenon DEF Begun
<1> HIDE DEF t
<1>5. IsSeq(bases) /\ Range(bases) \subseteq T
  BY DEF MayDerive
<1>6. Lineage(g)
  <2>1. ASSUME NEW x \in T \cup {t}
        PROVE  IsSeq(g.types[x].parents) /\ Range(g.types[x].parents) \subseteq 1 .. (x - 1)
    <3>1. CASE x \in T
      BY <1>1, <1>3, <3>1 DEF Lineage
    <3>2. CASE x = t
      <4>1. 1 .. (t - 1) = T
        BY <1>2 DEF t
      <4> QED
        BY <1>4, <1>5, <3>2, <4>1
    <3> QED
      BY <3>1, <3>2
  <2> QED
    BY <1>3, <2>1 DEF Lineage
<1>7. \A x \in T : Ancestors(g, x) = Ancestors(h, x)
  BY <1>1, <1>3, <1>6, AncestorsSame
<1>8. ASSUME NEW x \in T PROVE \A p \in Range(h.types[x].parents) : p \in T /\ g.types[p] = h.types[p]
  BY <1>1, <1>3, LineageFacts
<1>9. ASSUME NEW x \in T
      PROVE  /\ Settled(g, x) <=> Settled(h, x)
             /\ Closed(g, x) <=> Closed(h, x)
             /\ Placed(g, x) <=> Placed(h, x)
             /\ Straight(g, x) <=> Straight(h, x)
  <2>1. Settled(g, x) <=> Settled(h, x)
    <3>1. CASE x # VTableBase /\ h.types[x].hasVTable
      <4>1. h.types[x].parents[1] \in Range(h.types[x].parents)
        BY <1>1, <3>1, FirstParent
      <4> QED
        BY <1>3, <1>8, <4>1 DEF Settled
    <3>2. CASE ~(x # VTableBase /\ h.types[x].hasVTable)
      BY <1>3, <3>2 DEF Settled
    <3> QED
      BY <3>1, <3>2
  <2>2. Closed(g, x) <=> Closed(h, x)
    BY <1>3, <1>8 DEF Closed
  <2>3. Placed(g, x) <=> Placed(h, x)
    BY <1>3, <2>1 DEF Placed
  <2>4. Straight(g, x) <=> Straight(h, x)
    <3>1. \A a \in Ancestors(h, x) : a \in T
      BY <1>1, AncestorsAre
    <3>2. \A a \in Ancestors(h, x) :
             /\ g.types[a].parents = h.types[a].parents
             /\ \A p \in Range(h.types[a].parents) : g.types[p].hasVTable = h.types[p].hasVTable
      BY <1>3, <1>8, <3>1
    <3>3. Ancestors(g, x) = Ancestors(h, x)
      BY <1>7
    <3> QED
      BY <3>2, <3>3 DEF Straight
  <2> QED
    BY <2>1, <2>2, <2>3, <2>4
<1>10. vt => /\ bases # <<>> /\ bases[1] \in Range(bases) /\ h.types[bases[1]].hasVTable
             /\ slot = h.types[bases[1]].next
  <2>1. vt => slot = h.types[bases[1]].next /\ h.types[bases[1]].hasVTable
    <3>1. slot = IF vt THEN h.types[bases[1]].next ELSE 0
      BY <1>1, NextSlotIs, Zenon
    <3>2. vt => h.types[bases[1]].hasVTable
      BY DEF MayDerive
    <3> HIDE DEF vt, slot
    <3> QED
      BY <3>1, <3>2
  <2>2. vt => bases # <<>> /\ 1 \in DOMAIN bases
    <3>1. /\ Len(bases) \in Nat /\ DOMAIN bases = 1 .. Len(bases)
          /\ bases = <<>> <=> Len(bases) = 0
      BY <1>5, SeqFacts
    <3>2. vt => DOMAIN bases # {}
      BY DEF Range
    <3> HIDE DEF vt
    <3> QED
      BY <3>1, <3>2
  <2> QED
    BY <2>1, <2>2 DEF Range
<1>11. slot \in Nat /\ (vt => 1 <= slot)
  <2>1. CASE vt
    <3> DEFINE b == bases[1]
    <3>1. b \in T /\ h.types[b].hasVTable /\ slot = h.types[b].next
      BY <1>5, <1>10, <2>1
    <3>2. h.types[b].first \in Nat /\ h.types[b].next \in Nat /\ h.types[b].first <= h.types[b].next
      BY <1>1, <3>1, TypeFacts
    <3>3. CASE b = VTableBase
      BY <1>1, <3>1, <3>3 DEF Classes, RootOK
    <3>4. CASE b # VTableBase
      <4>1. 1 <= h.types[b].first
        BY <1>1, <3>1, <3>4 DEF Classes, ClassOK
      <4> HIDE DEF b, slot
      <4> QED
        BY <3>1, <3>2, <4>1
    <3> QED
      BY <3>3, <3>4
  <2>2. CASE ~vt
    <3>1. slot = IF vt THEN h.types[bases[1]].next ELSE 0
      BY <1>1, NextSlotIs, Zenon
    <3> HIDE DEF vt, slot
    <3> QED
      BY <2>2, <3>1
  <2> QED
    BY <2>1, <2>2
<1> HIDE DEF slot
<1>12. Shape(g)
  <2>1. ASSUME NEW x \in T \cup {t}
        PROVE  /\ DOMAIN g.types[x] = TypeFields
               /\ {g.types[x].hasVTable, g.types[x].abstract, g.types[x].complete} \subseteq BOOLEAN
               /\ g.types[x].first \in Nat /\ g.types[x].next \in Nat
               /\ g.types[x].first <= g.types[x].next
               /\ IsSeq(g.types[x].children)
               /\ \A k \in Range(g.types[x].children) : k \in T \cup {t} /\ x < k
    <3>1. CASE x \in T
      BY <1>1, <1>3, <3>1 DEF Shape
    <3>2. CASE x = t
      <4>1. IsSeq(<<>>) /\ \A k : k \notin Range(<<>>)
        BY DEF IsSeq, Range
      <4>2. g.types[t].hasVTable \in BOOLEAN
        BY <1>4
      <4>3. /\ DOMAIN g.types[t] = TypeFields
            /\ g.types[t].abstract = abstract /\ g.types[t].complete = FALSE
            /\ g.types[t].first = slot /\ g.types[t].next = slot
            /\ g.types[t].children = <<>>
        BY <1>4
      <4>4. slot \in Nat /\ slot <= slot
        BY <1>11
      <4> HIDE DEF vt
      <4> QED
        BY <3>2, <4>1, <4>2, <4>3, <4>4
    <3> QED
      BY <3>1, <3>2
  <2>2. \A f \in DOMAIN g.funcs :
           /\ DOMAIN g.funcs[f] = FuncFields
           /\ g.funcs[f].owner \in T \cup {t}
           /\ g.funcs[f].virtual \in BOOLEAN
           /\ g.funcs[f].slot \in Nat
    BY <1>1, <1>3 DEF Shape
  <2> QED
    BY <1>1, <1>2, <1>3, <1>6, <2>1, <2>2 DEF Shape
<1>13. t # VTableBase /\ Settled(g, t)
  <2>1. t # VTableBase
    BY <1>2, <1>3
  <2>2. CASE vt
    <3>1. g.types[bases[1]] = h.types[bases[1]]
      BY <1>3, <1>5, <1>10, <2>2
    <3>2. slot = h.types[bases[1]].next
      BY <1>10, <2>2
    <3>3. g.types[t].first = slot /\ g.types[t].parents = bases
      BY <1>4
    <3> QED
      BY <2>1, <3>1, <3>2, <3>3 DEF Settled
  <2>3. CASE ~vt
    <3>1. ~g.types[t].hasVTable
      BY <1>4, <2>3
    <3> QED
      BY <2>1, <3>1 DEF Settled
  <2> QED
    BY <2>1, <2>2, <2>3
<1>14. ClassOK(g, t)
  <2>1. \A b \in Range(bases) : b \in T /\ g.types[b] = h.types[b]
    BY <1>3, <1>5
  <2>2. g.types[t].hasVTable <=> \E p \in Range(bases) : g.types[p].hasVTable
    BY <1>4, <2>1
  <2>3. g.types[t].abstract => g.types[t].hasVTable
    BY <1>4
  <2>4. ASSUME g.types[t].hasVTable
        PROVE  /\ bases # <<>> /\ g.types[bases[1]].hasVTable
               /\ 1 <= g.types[t].first /\ g.types[t].first <= g.types[bases[1]].next
    <3>1. vt
      BY <1>4, <2>4
    <3>2. g.types[bases[1]] = h.types[bases[1]] /\ bases[1] \in T
      BY <1>10, <2>1, <3>1
    <3>3. h.types[bases[1]].next \in Nat
      BY <1>1, <3>2, TypeFacts
    <3> HIDE DEF vt
    <3> QED
      BY <1>4, <1>10, <1>11, <3>1, <3>2, <3>3
  <2>5. \A p \in Range(bases) :
           /\ Settled(g, p) /\ Closed(g, p)
           /\ ~g.types[p].complete => bases = <<p>>
    BY <1>9, <2>1 DEF MayDerive
  <2>6. Straight(g, t) \/ (Settled(g, t) /\ Closed(g, t))
    <3>1. CASE \A p \in Range(bases) : g.types[p].complete
      BY <1>4, <1>13, <3>1 DEF Closed
    <3>2. CASE ~\A p \in Range(bases) : g.types[p].complete
      <4>1. PICK p \in Range(bases) : ~g.types[p].complete
        BY <3>2
      <4>2. bases = <<p>> /\ Straight(g, p) /\ p \in T
        BY <1>9, <2>1, <4>1 DEF MayDerive
      <4>3. Range(bases) = {p}
        BY <4>2 DEF Range
      <4>4. t \in DOMAIN g.types
        BY <1>3
      <4>5. \A a \in Ancestors(g, t) : a = t \/ a \in Ancestors(g, p)
        BY <1>4, <1>6, <4>3, <4>4, AncestorIs
      <4> QED
        BY <1>4, <4>2, <4>3, <4>5 DEF Straight
    <3> QED
      BY <3>1, <3>2
  <2> QED
    BY <1>4, <2>2, <2>3, <2>4, <2>5, <2>6 DEF ClassOK
<1>15. ASSUME NEW x \in T \ {VTableBase} PROVE ClassOK(g, x)
  <2>1. ClassOK(h, x)
    BY <1>1 DEF Classes
  <2>2. g.types[x] = h.types[x]
    BY <1>3
  <2>3. \A p \in Range(h.types[x].parents) :
           /\ p \in T /\ g.types[p] = h.types[p]
           /\ Settled(g, p) <=> Settled(h, p)
           /\ Closed(g, p) <=> Closed(h, p)
    BY <1>8, <1>9
  <2>4. /\ Settled(g, x) <=> Settled(h, x)
        /\ Closed(g, x) <=> Closed(h, x)
        /\ Straight(g, x) <=> Straight(h, x)
    BY <1>9
  <2>5. h.types[x].hasVTable => g.types[h.types[x].parents[1]] = h.types[h.types[x].parents[1]]
    <3>1. h.types[x].hasVTable => h.types[x].parents[1] \in Range(h.types[x].parents)
      BY <1>1, FirstParent
    <3> QED
      BY <2>3, <3>1
  <2> QED
    BY <2>1, <2>2, <2>3, <2>4, <2>5 DEF ClassOK
<1>16. Classes(g)
  <2>1. RootOK(g)
    BY <1>1, <1>2, <1>3 DEF Classes, RootOK
  <2> QED
    BY <1>3, <1>14, <1>15, <2>1 DEF Classes
<1>17. ASSUME NEW f \in DOMAIN g.funcs PROVE FunctionOK(g, f)
  <2>1. FunctionOK(h, f) /\ g.funcs[f] = h.funcs[f] /\ h.funcs[f].owner \in T
    BY <1>1, <1>3 DEF Good, Shape
  <2>2. /\ g.types[h.funcs[f].owner] = h.types[h.funcs[f].owner]
        /\ Ancestors(g, h.funcs[f].owner) = Ancestors(h, h.funcs[f].owner)
        /\ Placed(g, h.funcs[f].owner) <=> Placed(h, h.funcs[f].owner)
        /\ Straight(g, h.funcs[f].owner) <=> Straight(h, h.funcs[f].owner)
    BY <1>3, <1>7, <1>9, <2>1
  <2>3. h.funcs[f].virtual => h.funcs[f].receiver \in Ancestors(h, h.funcs[f].owner)
    BY <2>1 DEF FunctionOK
  <2>4. h.funcs[f].virtual => g.types[h.funcs[f].receiver] = h.types[h.funcs[f].receiver]
    BY <1>1, <1>3, <2>1, <2>3, AncestorsAre
  <2> QED
    BY <2>1, <2>2, <2>4 DEF FunctionOK
<1>18. ASSUME NEW x \in (T \cup {t}) \ {VTableBase} PROVE FilledOK(g, x)
  <2>1. CASE x \in T
    BY <1>3, <1>9, <2>1 DEF FilledOK, Introduced, Good
  <2>2. CASE x = t
    <3>1. \A s \in Nat : ~(g.types[t].first <= s /\ s < g.types[t].next)
      BY <1>4, <1>11
    <3> QED
      BY <2>2, <3>1 DEF FilledOK
  <2> QED
    BY <2>1, <2>2
<1>19. ASSUME NEW x \in (T \cup {t}) \ {t} PROVE HasOperClass(g, x)
  <2>1. HasOperClass(h, x) /\ x \in T
    BY DEF Good
  <2> QED
    BY <1>3, <2>1 DEF HasOperClass
<1>20. Good(g, {t})
  BY <1>3, <1>12, <1>16, <1>17, <1>18, <1>19 DEF Good
<1> QED
  BY <1>9, <1>13, <1>20 DEF t

\* A step that leaves everything about classes but the slots of t.
Frame(h, g, t) ==
  /\ g.failed = h.failed
  /\ SameClasses(h, g)
  /\ \A x \in DOMAIN h.types :
        /\ g.types[x].complete = h.types[x].complete
        /\ g.types[x].children = h.types[x].children
        /\ h.types[x].parents = <<>> \/ h.types[x].parents[1] # t
              => (Settled(g, x) <=> Settled(h, x))

LEMMA AddMethodFrame ==
  ASSUME NEW h, NEW X, Good(h, X), NEW t \in DOMAIN h.types, NEW n, NEW v \in BOOLEAN,
         NEW kind, NEW e, MayAdd(h, t, n, v, e),
         NEW g, g = addMethod(h, t, n, v, kind, e)
  PROVE  Good(g, Without(X, n, t)) /\ Frame(h, g, t)
<1>1. Shape(h)
  BY DEF Good
<1>2. SameClasses(h, g)
  BY <1>1, AddMethodIs
<1>3. g.failed = h.failed
  <2>1. Added(h, g, t, n, v, e)
    BY <1>1, AddMethodIs
  <2> QED
    BY <2>1 DEF Added
<1>4. \A x \in DOMAIN h.types : /\ g.types[x].complete = h.types[x].complete
                                /\ g.types[x].children = h.types[x].children
  BY <1>1, AddMethodIs
<1>5. /\ Good(g, Without(X, n, t))
      /\ \A x \in DOMAIN h.types :
            h.types[x].parents = <<>> \/ h.types[x].parents[1] # t
               => (Settled(g, x) <=> Settled(h, x))
  BY AddMethodGood
<1> QED
  BY <1>2, <1>3, <1>4, <1>5 DEF Frame

LEMMA OperClassGood ==
  ASSUME NEW h, NEW t \in DOMAIN h.types, Good(h, {t}), t # VTableBase,
         h.types[t].hasVTable, ~h.types[t].complete, Settled(h, t),
         NEW g, g = createOperClass(h, t)
  PROVE  Good(g, {}) /\ Frame(h, g, t)
<1> DEFINE e == lookUp(h, t, "oper class")
           p == h.types[t].parents[1]
<1>1. Shape(h) /\ Classes(h) /\ Lineage(h) /\ IsSeq(h.funcs) /\ \A f \in DOMAIN h.funcs : FunctionOK(h, f)
  BY DEF Good, Shape
<1>2. p \in Range(h.types[t].parents) /\ h.types[p].hasVTable
  BY <1>1, FirstParent
<1>3. p \in DOMAIN h.types /\ p # t
  BY <1>1, <1>2, TypeFacts
<1>4. \E f \in DOMAIN h.funcs : h.funcs[f].owner = p /\ h.funcs[f].name = "oper class"
  BY <1>2, <1>3 DEF Good, HasOperClass
<1>5. lookUp(h, p, "oper class") # 0
  <2>1. lookUp(h, p, "oper class") \in DOMAIN h.funcs
    BY <1>1, <1>3, <1>4, LookUpRec, Zenon
  <2>2. DOMAIN h.funcs = 1 .. Len(h.funcs) /\ Len(h.funcs) \in Nat
    BY <1>1, SeqFacts
  <2>3. \A f \in 1 .. Len(h.funcs) : f # 0
    BY <2>2
  <2> QED
    BY <2>1, <2>2, <2>3, Zenon
<1>6. e # 0
  <2>1. PICK j \in DOMAIN h.types[t].parents : h.types[t].parents[j] = p
    BY <1>2 DEF Range
  <2>2. ~\A i \in DOMAIN h.types[t].parents : lookUp(h, h.types[t].parents[i], "oper class") = 0
    <3> SUFFICES ASSUME \A k \in DOMAIN h.types[t].parents :
                           lookUp(h, h.types[t].parents[k], "oper class") = 0
                 PROVE  FALSE
      OBVIOUS
    <3>1. lookUp(h, h.types[t].parents[j], "oper class") = 0
      OBVIOUS
    <3> HIDE DEF p
    <3>2. lookUp(h, p, "oper class") = 0
      BY <2>1, <3>1
    <3> QED
      BY <1>5, <3>2
  <2>3. CASE e \in DOMAIN h.funcs
    <3>1. DOMAIN h.funcs = 1 .. Len(h.funcs) /\ Len(h.funcs) \in Nat
      BY <1>1, SeqFacts
    <3>2. \A f \in 1 .. Len(h.funcs) : f # 0
      BY <3>1
    <3> QED
      BY <2>3, <3>1, <3>2, Zenon
  <2>4. CASE \E i \in DOMAIN h.types[t].parents :
               /\ lookUp(h, h.types[t].parents[i], "oper class") # 0
               /\ e = lookUp(h, h.types[t].parents[i], "oper class")
    BY <2>4
  <2>5. \/ e \in DOMAIN h.funcs
        \/ \E i \in DOMAIN h.types[t].parents :
              /\ lookUp(h, h.types[t].parents[i], "oper class") # 0
              /\ e = lookUp(h, h.types[t].parents[i], "oper class")
        \/ \A i \in DOMAIN h.types[t].parents :
              lookUp(h, h.types[t].parents[i], "oper class") = 0
    BY <1>1, LookUpRec, Zenon
  <2> HIDE DEF e
  <2> QED
    BY <2>2, <2>3, <2>4, <2>5
<1>7. /\ e \in DOMAIN h.funcs /\ h.funcs[e].name = "oper class"
      /\ h.funcs[e].owner \in Ancestors(h, t)
      /\ h.funcs[e].virtual /\ Straight(h, t) /\ Settled(h, t) =>
            (h.funcs[e].owner # t => h.funcs[e].slot < h.types[t].first)
  BY <1>1, <1>6, LookUpIs
<1>8. h.funcs[e].virtual
  BY <1>1, <1>7 DEF FunctionOK
<1>9. MayAdd(h, t, "oper class", TRUE, e)
  <2> HIDE DEF e
  <2> QED
    BY <1>6, <1>7, <1>8 DEF MayAdd
<1>10. g = addMethod(h, t, "oper class", TRUE, "defined", e)
  BY DEF createOperClass
<1> HIDE DEF e
<1>11. Good(g, {t} \ {t}) /\ Frame(h, g, t)
  <2>1. Good(g, Without({t}, "oper class", t)) /\ Frame(h, g, t)
    <3>1. TRUE \in BOOLEAN
      OBVIOUS
    <3> QED
      BY <1>9, <1>10, <3>1, AddMethodFrame
  <2>2. Without({t}, "oper class", t) = {t} \ {t}
    BY DEF Without
  <2> QED
    BY <2>1, <2>2
<1>12. {t} \ {t} = {}
  OBVIOUS
<1> QED
  BY <1>11, <1>12

LEMMA DestructorGood ==
  ASSUME NEW h, Good(h, {}), NEW t \in DOMAIN h.types, t # VTableBase,
         h.types[t].hasVTable => ~h.types[t].complete /\ Settled(h, t),
         NEW g, g = createDefaultDestructor(h, t)
  PROVE  Good(g, {}) /\ Frame(h, g, t)
<1> DEFINE del == lookUp(h, t, "oper del")
           v == h.types[t].hasVTable
           e == IF del # 0 /\ v /\ ~h.funcs[del].virtual THEN 0 ELSE del
<1>1. /\ Shape(h) /\ Classes(h) /\ Lineage(h) /\ IsSeq(h.funcs)
      /\ \A f \in DOMAIN h.funcs : FunctionOK(h, f)
      /\ v \in BOOLEAN
  BY DEF Good, Shape
<1>2. del # 0 =>
        /\ del \in DOMAIN h.funcs
        /\ h.funcs[del].owner \in Ancestors(h, t)
        /\ h.funcs[del].virtual /\ Straight(h, t) /\ Settled(h, t) =>
              (h.funcs[del].owner # t => h.funcs[del].slot < h.types[t].first)
  BY <1>1, LookUpIs
<1>3. g = addMethod(h, t, "oper del", v, "defined", e)
  BY Zenon DEF createDefaultDestructor
<1> HIDE DEF del
<1>4. v /\ e # 0 => e = del /\ del # 0 /\ h.funcs[del].virtual
  OBVIOUS
<1> HIDE DEF e
<1>5. MayAdd(h, t, "oper del", v, e)
  BY <1>2, <1>4 DEF MayAdd
<1> HIDE DEF v
<1>6. Good(g, Without({}, "oper del", t)) /\ Frame(h, g, t)
  BY <1>1, <1>3, <1>5, AddMethodFrame
<1>7. Without({}, "oper del", t) = {}
  BY DEF Without
<1> QED
  BY <1>6, <1>7

\* Class t has begun.
Opened(h, g, bases) ==
  LET t == Len(h.types) + 1
  IN  /\ Good(g, {}) /\ g.failed = h.failed
      /\ t # VTableBase /\ t \notin DOMAIN h.types
      /\ DOMAIN g.types = DOMAIN h.types \cup {t}
      /\ \A x \in DOMAIN h.types :
            /\ g.types[x].parents = h.types[x].parents
            /\ g.types[x].complete = h.types[x].complete
            /\ g.types[x].children = h.types[x].children
            /\ Settled(g, x) <=> Settled(h, x)
      /\ g.types[t].complete = FALSE /\ g.types[t].children = <<>>
      /\ g.types[t].parents = bases
      /\ Settled(g, t)

LEMMA BeginGood ==
  ASSUME NEW h, Good(h, {}), NEW bases, MayDerive(h, bases), NEW abstract \in BOOLEAN,
         abstract => \E b \in Range(bases) : h.types[b].hasVTable,
         NEW g, g = emitBeginClass(h, bases, abstract)
  PROVE  Opened(h, g, bases)
<1> DEFINE t == Len(h.types) + 1
<1>1. Shape(h)
  BY DEF Good
<1>2. PICK k : /\ Begun(h, k, bases, abstract)
               /\ g = IF k.types[t].hasVTable THEN createOperClass(k, t) ELSE k
  BY <1>1, BeginIs
<1>3. /\ Good(k, {t})
      /\ \A x \in DOMAIN h.types : Settled(k, x) <=> Settled(h, x)
      /\ Settled(k, t) /\ t # VTableBase
  BY <1>2, BegunGood
<1>4. /\ k.failed = h.failed
      /\ DOMAIN k.types = DOMAIN h.types \cup {t} /\ t \notin DOMAIN h.types
      /\ \A x \in DOMAIN h.types : k.types[x] = h.types[x]
      /\ k.types[t].parents = bases /\ k.types[t].complete = FALSE
      /\ k.types[t].children = <<>>
  BY <1>2 DEF Begun
<1> HIDE DEF t
<1>5. Good(g, {}) /\ (g = k \/ Frame(k, g, t))
  <2>1. CASE k.types[t].hasVTable
    BY <1>2, <1>3, <1>4, <2>1, OperClassGood
  <2>2. CASE ~k.types[t].hasVTable
    <3>1. HasOperClass(k, t)
      BY <2>2 DEF HasOperClass
    <3>2. Good(k, {})
      BY <1>3, <3>1 DEF Good
    <3> QED
      BY <1>2, <2>2, <3>2
  <2> QED
    BY <2>1, <2>2
<1>6. \A x \in DOMAIN k.types : k.types[x].parents = <<>> \/ k.types[x].parents[1] # t
  <2> TAKE x \in DOMAIN k.types
  <2>1. Shape(k) /\ \A y \in DOMAIN k.types : y <= t
    <3>1. Len(h.types) \in Nat /\ DOMAIN h.types = 1 .. Len(h.types)
      BY <1>1, LineageFacts DEF Shape
    <3>2. \A y \in DOMAIN k.types : y <= t
      BY <1>4, <3>1 DEF t
    <3> QED
      BY <1>3, <3>2 DEF Good
  <2>2. k.types[x].parents # <<>> => k.types[x].parents[1] \in DOMAIN k.types /\ k.types[x].parents[1] < x
    BY <2>1, TypeFacts
  <2>3. x <= t /\ x \in Nat /\ t \in Nat
    <3>1. x \in Nat /\ t \in DOMAIN k.types
      BY <1>4, <2>1, TypeFacts
    <3> QED
      BY <2>1, <3>1, TypeFacts
  <2>4. \A y \in DOMAIN k.types : y \in Nat
    BY <2>1, TypeFacts
  <2> QED
    BY <2>2, <2>3, <2>4
<1>7. /\ g.failed = k.failed /\ DOMAIN g.types = DOMAIN k.types
      /\ \A x \in DOMAIN k.types :
            /\ g.types[x].parents = k.types[x].parents
            /\ g.types[x].complete = k.types[x].complete
            /\ g.types[x].children = k.types[x].children
            /\ Settled(g, x) <=> Settled(k, x)
  <2>1. CASE g = k
    BY <2>1
  <2>2. CASE Frame(k, g, t)
    BY <1>6, <2>2 DEF Frame, SameClasses, SameClass
  <2> QED
    BY <1>5, <2>1, <2>2
<1>8. \A x \in DOMAIN h.types : /\ g.types[x].parents = h.types[x].parents
                                /\ g.types[x].complete = h.types[x].complete
                                /\ g.types[x].children = h.types[x].children
                                /\ Settled(g, x) <=> Settled(h, x)
  BY <1>3, <1>4, <1>7
<1>9. /\ g.types[t].complete = FALSE /\ g.types[t].children = <<>>
      /\ g.types[t].parents = bases /\ Settled(g, t)
  BY <1>3, <1>4, <1>7
<1>10. g.failed = h.failed /\ DOMAIN g.types = DOMAIN h.types \cup {t}
  BY <1>4, <1>7
<1> QED
  BY <1>3, <1>4, <1>5, <1>8, <1>9, <1>10 DEF Opened, t

-----------------------------------------------------------------------------
(* Vtables: the slots of a nested class move when its base is complete.    *)

\* The functions of x from its first slot on move by o; x may be complete then.
Moved(h, g, x, o, done) ==
  /\ DOMAIN g = {"types", "funcs", "failed"}
  /\ SameClasses(h, g)
  /\ \A y \in DOMAIN h.types :
        /\ g.types[y].next = h.types[y].next
        /\ g.types[y].complete = (h.types[y].complete \/ (y = x /\ done))
        /\ IsSeq(g.types[y].children)
        /\ \A k \in Range(g.types[y].children) : k \in DOMAIN h.types /\ y < k
  /\ IsSeq(g.funcs) /\ DOMAIN g.funcs = DOMAIN h.funcs
  /\ \A f \in DOMAIN h.funcs :
        /\ DOMAIN g.funcs[f] = FuncFields
        /\ g.funcs[f].name = h.funcs[f].name
        /\ g.funcs[f].owner = h.funcs[f].owner
        /\ g.funcs[f].virtual = h.funcs[f].virtual
        /\ g.funcs[f].receiver = h.funcs[f].receiver
        /\ g.funcs[f].slot =
             IF /\ h.funcs[f].owner = x /\ h.funcs[f].virtual
                /\ h.funcs[f].slot >= h.types[x].first
             THEN h.funcs[f].slot + o ELSE h.funcs[f].slot

\* Only a class with one line of bases moves, and it is then complete.
MayMove(h, x, o, done) ==
  /\ x \in DOMAIN h.types /\ x # VTableBase /\ o \in Nat /\ done \in BOOLEAN
  /\ done => Closed(h, x)
  /\ ~done \/ Settled(h, x) => o = 0
  /\ done /\ ~Settled(h, x) => Straight(h, x) /\ ~h.types[x].complete

LEMMA MovedGood ==
  ASSUME NEW h, NEW X, Good(h, X), NEW x, NEW o, NEW done, MayMove(h, x, o, done),
         NEW g, Moved(h, g, x, o, done)
  PROVE  /\ Good(g, X)
         /\ \A y \in DOMAIN h.types : Settled(g, y) <=> Settled(h, y)
         /\ \A y \in DOMAIN h.types : Straight(g, y) <=> Straight(h, y)
<1> DEFINE T == DOMAIN h.types
           F == DOMAIN h.funcs
<1>1. /\ Shape(h) /\ Classes(h) /\ Lineage(h)
      /\ x \in T /\ x # VTableBase /\ o \in Nat /\ done \in BOOLEAN
  BY DEF Good, Shape, MayMove
<1>2. /\ DOMAIN g = {"types", "funcs", "failed"}
      /\ SameClasses(h, g)
      /\ IsSeq(g.funcs) /\ DOMAIN g.funcs = F
  BY DEF Moved
<1>3. \A y \in T :
         /\ g.types[y].next = h.types[y].next
         /\ g.types[y].complete = (h.types[y].complete \/ (y = x /\ done))
         /\ IsSeq(g.types[y].children)
         /\ \A k \in Range(g.types[y].children) : k \in T /\ y < k
  BY DEF Moved
<1>4. \A f \in F :
         /\ DOMAIN g.funcs[f] = FuncFields
         /\ g.funcs[f].name = h.funcs[f].name
         /\ g.funcs[f].owner = h.funcs[f].owner
         /\ g.funcs[f].virtual = h.funcs[f].virtual
         /\ g.funcs[f].receiver = h.funcs[f].receiver
         /\ g.funcs[f].slot =
              IF /\ h.funcs[f].owner = x /\ h.funcs[f].virtual
                 /\ h.funcs[f].slot >= h.types[x].first
              THEN h.funcs[f].slot + o ELSE h.funcs[f].slot
  BY DEF Moved
<1>5. /\ IsSeq(g.types) /\ DOMAIN g.types = T
      /\ \A y \in T : /\ DOMAIN g.types[y] = DOMAIN h.types[y]
                      /\ g.types[y].parents = h.types[y].parents
                      /\ g.types[y].hasVTable = h.types[y].hasVTable
                      /\ g.types[y].abstract = h.types[y].abstract
                      /\ g.types[y].first = h.types[y].first
  BY <1>2 DEF SameClasses, SameClass
<1>6. /\ Lineage(g)
      /\ \A y \in T : Ancestors(g, y) = Ancestors(h, y)
      /\ \A y \in T : Straight(g, y) <=> Straight(h, y)
  BY <1>1, <1>2, SameFacts
<1>7. \A y \in T : /\ h.types[y].first \in Nat /\ h.types[y].next \in Nat
                   /\ h.types[y].first <= h.types[y].next /\ y \in Nat
                   /\ h.types[y].complete \in BOOLEAN
                   /\ DOMAIN h.types[y] = TypeFields
                   /\ {h.types[y].hasVTable, h.types[y].abstract} \subseteq BOOLEAN
                   /\ h.types[y].parents # <<>> => h.types[y].parents[1] \in T
                   /\ \A p \in Range(h.types[y].parents) : p \in T
  BY <1>1, TypeFacts DEF Shape
<1>8. \A f \in F : /\ FunctionOK(h, f) /\ h.funcs[f].slot \in Nat /\ h.funcs[f].owner \in T
                   /\ h.funcs[f].virtual \in BOOLEAN
  BY DEF Good, Shape
<1>9. Shape(g)
  <2>1. \A f \in F : /\ g.funcs[f].owner \in T /\ g.funcs[f].virtual \in BOOLEAN
                     /\ g.funcs[f].slot \in Nat
    BY <1>1, <1>4, <1>8
  <2>2. VTableBase \in T
    BY <1>1 DEF Shape
  <2>3. \A y \in T : g.types[y].complete \in BOOLEAN
    BY <1>1, <1>3, <1>7
  <2> QED
    BY <1>2, <1>3, <1>4, <1>5, <1>6, <1>7, <2>1, <2>2, <2>3 DEF Shape
<1>10. ASSUME NEW y \in T PROVE Settled(g, y) <=> Settled(h, y)
  <2>1. CASE y # VTableBase /\ h.types[y].hasVTable
    <3>1. h.types[y].parents[1] \in T
      BY <1>1, <1>7, <2>1, FirstParent
    <3> QED
      BY <1>3, <1>5, <3>1 DEF Settled
  <2>2. CASE ~(y # VTableBase /\ h.types[y].hasVTable)
    BY <1>5, <2>2 DEF Settled
  <2> QED
    BY <2>1, <2>2
<1>11. ASSUME NEW y \in T, Closed(h, y) PROVE Closed(g, y)
  BY <1>3, <1>5, <1>7, <1>11 DEF Closed
<1>12. Classes(g)
  <2>1. RootOK(g)
    <3>1. VTableBase \in T /\ RootOK(h)
      BY <1>1 DEF Shape, Classes
    <3> QED
      BY <1>1, <1>3, <1>5, <3>1 DEF RootOK
  <2>2. ASSUME NEW y \in T \ {VTableBase} PROVE ClassOK(g, y)
    <3> DEFINE ps == h.types[y].parents
    <3>1. ClassOK(h, y)
      BY <1>1 DEF Classes
    <3>2. g.types[y].parents = ps /\ \A p \in Range(ps) : p \in T
      BY <1>5, <1>7
    <3>3. g.types[y].hasVTable <=> \E p \in Range(ps) : g.types[p].hasVTable
      BY <1>5, <3>1, <3>2 DEF ClassOK
    <3>4. g.types[y].abstract => g.types[y].hasVTable
      BY <1>5, <3>1 DEF ClassOK
    <3>5. g.types[y].hasVTable =>
             /\ ps # <<>> /\ g.types[ps[1]].hasVTable
             /\ 1 <= g.types[y].first /\ g.types[y].first <= g.types[ps[1]].next
      BY <1>3, <1>5, <1>7, <3>1 DEF ClassOK
    <3>6. g.types[y].complete => Closed(g, y)
      <4>1. h.types[y].complete => Closed(h, y)
        BY <3>1 DEF ClassOK
      <4>2. y = x /\ done => Closed(h, y)
        BY DEF MayMove
      <4> QED
        BY <1>3, <1>11, <4>1, <4>2
    <3>7. ASSUME NEW p \in Range(ps)
          PROVE  Settled(g, p) /\ Closed(g, p) /\ (~g.types[p].complete => ps = <<p>>)
      <4>1. Settled(h, p) /\ Closed(h, p) /\ (~h.types[p].complete => ps = <<p>>)
        BY <3>1 DEF ClassOK
      <4> QED
        BY <1>3, <1>10, <1>11, <3>2, <4>1
    <3>8. ~g.types[y].complete => Straight(g, y) \/ (Settled(g, y) /\ Closed(g, y))
      <4>1. ~h.types[y].complete => Straight(h, y) \/ (Settled(h, y) /\ Closed(h, y))
        BY <3>1 DEF ClassOK
      <4> QED
        BY <1>3, <1>6, <1>10, <1>11, <4>1
    <3> HIDE DEF ps
    <3> QED
      BY <3>2, <3>3, <3>4, <3>5, <3>6, <3>7, <3>8 DEF ClassOK
  <2> QED
    BY <1>5, <2>1, <2>2 DEF Classes
  \* A class whose functions move is not placed before, and not afterwards.
<1>13. ASSUME NEW y \in T PROVE Placed(g, y) => Placed(h, y) /\ (y = x => o = 0)
  <2>1. Settled(g, y) <=> Settled(h, y)
    BY <1>10
  <2>2. CASE y # x
    BY <1>3, <2>1, <2>2 DEF Placed
  <2>3. CASE y = x
    BY <1>1, <1>3, <2>1, <2>3 DEF Placed, MayMove
  <2> QED
    BY <2>2, <2>3
<1>14. ASSUME NEW f \in F, h.funcs[f].virtual,
              h.funcs[f].owner # x \/ h.funcs[f].receiver # x
       PROVE  g.funcs[f].slot = h.funcs[f].slot
  <2>1. CASE h.funcs[f].owner # x
    BY <1>4, <2>1
  <2>2. CASE h.funcs[f].owner = x /\ o = 0
    BY <1>4, <1>8, <2>2
  <2>3. CASE h.funcs[f].owner = x /\ o # 0
    <3>1. Straight(h, x) /\ Placed(h, x)
      BY <1>1, <2>3 DEF MayMove, Placed
    <3>2. h.funcs[f].slot < h.types[x].first
      BY <1>8, <1>14, <2>3, <3>1 DEF FunctionOK
    <3> QED
      BY <1>4, <1>7, <1>8, <1>1, <3>2
  <2> QED
    BY <2>1, <2>2, <2>3
<1>15. ASSUME NEW f \in F PROVE FunctionOK(g, f)
  <2> DEFINE func == h.funcs[f]
  <2>1. FunctionOK(h, f) /\ func.owner \in T
    BY <1>8
  <2>2. func.virtual => func.receiver \in T /\ func.receiver \in Ancestors(h, func.owner)
    BY <1>1, <2>1, AncestorsAre DEF FunctionOK
  <2>3. func.name = "oper class" => func.virtual /\ func.receiver = VTableBase
    BY <2>1 DEF FunctionOK
  <2>4. ASSUME func.virtual
        PROVE  LET a == g.types[func.owner]
                   c == g.types[func.receiver]
                   s == g.funcs[f].slot
               IN  /\ a.hasVTable /\ func.receiver \in Ancestors(g, func.owner) /\ c.hasVTable
                   /\ func.receiver = VTableBase => s = 0
                   /\ func.receiver \notin {VTableBase, func.owner} =>
                         c.first <= s /\ s < c.next
                   /\ Placed(g, func.owner) =>
                         /\ func.receiver = func.owner /\ func.owner # VTableBase =>
                               a.first <= s /\ s < a.next
                         /\ func.receiver # func.owner /\ Straight(g, func.owner) =>
                               s < a.first
    <3> DEFINE a == h.types[func.owner]
               c == h.types[func.receiver]
               s == g.funcs[f].slot
    <3>1. /\ a.hasVTable /\ func.receiver \in Ancestors(h, func.owner) /\ c.hasVTable
          /\ func.receiver = VTableBase => func.slot = 0
          /\ func.receiver \notin {VTableBase, func.owner} =>
                c.first <= func.slot /\ func.slot < c.next
          /\ Placed(h, func.owner) =>
                /\ func.receiver = func.owner /\ func.owner # VTableBase =>
                      a.first <= func.slot /\ func.slot < a.next
                /\ func.receiver # func.owner /\ Straight(h, func.owner) =>
                      func.slot < a.first
      BY <2>1, <2>4 DEF FunctionOK
    <3>2. /\ g.types[func.owner].hasVTable = a.hasVTable
          /\ g.types[func.owner].first = a.first /\ g.types[func.owner].next = a.next
          /\ g.types[func.receiver].hasVTable = c.hasVTable
          /\ g.types[func.receiver].first = c.first /\ g.types[func.receiver].next = c.next
          /\ Ancestors(g, func.owner) = Ancestors(h, func.owner)
          /\ Straight(g, func.owner) <=> Straight(h, func.owner)
      BY <1>3, <1>5, <1>6, <2>1, <2>2, <2>4
    <3>3. func.receiver # func.owner => s = func.slot
      BY <1>14, <2>4
    <3>4. Placed(g, func.owner) => Placed(h, func.owner) /\ s = func.slot
      <4>1. ASSUME Placed(g, func.owner)
            PROVE  Placed(h, func.owner) /\ (func.owner = x => o = 0)
        BY <1>13, <2>1, <4>1
      <4> QED
        BY <1>4, <1>8, <4>1
    <3>5. func.receiver = VTableBase => s = func.slot
      BY <1>1, <1>14, <2>4
    <3> HIDE DEF func, a, c, s
    <3>6. func.receiver = VTableBase => s = 0
      BY <3>1, <3>5
    <3>7. func.receiver \notin {VTableBase, func.owner} => c.first <= s /\ s < c.next
      BY <3>1, <3>3
    <3>8. Placed(g, func.owner) =>
             /\ func.receiver = func.owner /\ func.owner # VTableBase =>
                   a.first <= s /\ s < a.next
             /\ func.receiver # func.owner /\ Straight(g, func.owner) => s < a.first
      BY <3>1, <3>2, <3>4
    <3> QED
      BY <3>1, <3>2, <3>6, <3>7, <3>8 DEF s
  <2>5. /\ g.funcs[f].name = func.name /\ g.funcs[f].virtual = func.virtual
        /\ g.funcs[f].owner = func.owner /\ g.funcs[f].receiver = func.receiver
    BY <1>4
  <2> HIDE DEF func
  <2> QED
    BY <2>3, <2>4, <2>5 DEF FunctionOK
<1>16. ASSUME NEW y \in T \ {VTableBase} PROVE FilledOK(g, y)
  <2> SUFFICES ASSUME h.types[y].hasVTable, Placed(g, y), NEW s \in Nat,
                      h.types[y].first <= s, s < h.types[y].next
               PROVE  Introduced(g, y, s)
    BY <1>3, <1>5 DEF FilledOK
  <2>1. Placed(h, y) /\ (y = x => o = 0)
    BY <1>13
  <2>2. Introduced(h, y, s)
    BY <2>1 DEF Good, FilledOK
  <2>3. PICK f \in F : /\ h.funcs[f].virtual /\ h.funcs[f].owner = y
                       /\ h.funcs[f].receiver = y /\ h.funcs[f].slot = s
    BY <2>2 DEF Introduced
  <2>4. g.funcs[f].slot = s
    BY <1>4, <2>1, <2>3
  <2> QED
    BY <1>2, <1>4, <2>3, <2>4 DEF Introduced
<1>17. ASSUME NEW y \in T \ X PROVE HasOperClass(g, y)
  <2>1. HasOperClass(h, y)
    BY DEF Good
  <2> SUFFICES ASSUME h.types[y].hasVTable
               PROVE  \E f \in F : g.funcs[f].owner = y /\ g.funcs[f].name = "oper class"
    BY <1>2, <1>5 DEF HasOperClass
  <2>2. PICK f \in F : h.funcs[f].owner = y /\ h.funcs[f].name = "oper class"
    BY <2>1 DEF HasOperClass
  <2> QED
    BY <1>4, <2>2
<1> QED
  BY <1>2, <1>5, <1>6, <1>9, <1>10, <1>12, <1>15, <1>16, <1>17 DEF Good
-----------------------------------------------------------------------------
(* fixType: a class is complete when its slots are final.                  *)

Shifted(h, k, x, o) ==
  /\ DOMAIN k = {"types", "funcs", "failed"}
  /\ k.types = h.types /\ k.failed = h.failed
  /\ IsSeq(k.funcs) /\ DOMAIN k.funcs = DOMAIN h.funcs
  /\ \A f \in DOMAIN h.funcs :
        /\ DOMAIN k.funcs[f] = FuncFields
        /\ k.funcs[f].name = h.funcs[f].name
        /\ k.funcs[f].owner = h.funcs[f].owner
        /\ k.funcs[f].virtual = h.funcs[f].virtual
        /\ k.funcs[f].receiver = h.funcs[f].receiver
        /\ k.funcs[f].slot =
             IF /\ h.funcs[f].owner = x /\ h.funcs[f].virtual
                /\ h.funcs[f].slot >= h.types[x].first
             THEN h.funcs[f].slot + o ELSE h.funcs[f].slot

LEMMA ShiftIs ==
  ASSUME NEW h, Shape(h), NEW x, NEW o, NEW k, k = fixVTableSlots(h, x, o)
  PROVE  Shifted(h, k, x, o)
<1> DEFINE moved(f) == /\ h.funcs[f].owner = x /\ h.funcs[f].virtual
                       /\ h.funcs[f].slot >= h.types[x].first
           func(f) == IF moved(f) THEN [h.funcs[f] EXCEPT !.slot = @ + o] ELSE h.funcs[f]
           funcs == [f \in DOMAIN h.funcs |-> func(f)]
<1>1. /\ DOMAIN h = {"types", "funcs", "failed"} /\ IsSeq(h.funcs)
      /\ \A f \in DOMAIN h.funcs : DOMAIN h.funcs[f] = FuncFields
  BY DEF Shape
<1>2. k = [h EXCEPT !.funcs = funcs]
  BY DEF fixVTableSlots
<1> HIDE DEF funcs
<1>3. /\ DOMAIN k = {"types", "funcs", "failed"}
      /\ k.types = h.types /\ k.failed = h.failed /\ k.funcs = funcs
  BY <1>1, <1>2
<1>4. IsSeq(funcs)
  <2>1. Len(h.funcs) \in Nat /\ DOMAIN h.funcs = 1 .. Len(h.funcs)
    BY <1>1, SeqFacts
  <2>2. funcs \in [1 .. Len(h.funcs) -> Range(funcs)]
    <3>1. DOMAIN funcs = 1 .. Len(h.funcs) /\ funcs = [f \in 1 .. Len(h.funcs) |-> funcs[f]]
      BY <2>1 DEF funcs
    <3>2. \A f \in 1 .. Len(h.funcs) : funcs[f] \in Range(funcs)
      BY <3>1 DEF Range
    <3> QED
      BY <3>1, <3>2
  <2> QED
    BY <2>1, <2>2, FunctionIsSeq DEF IsSeq
<1>5. DOMAIN funcs = DOMAIN h.funcs /\ \A f \in DOMAIN h.funcs : funcs[f] = func(f)
  BY DEF funcs
<1>6. ASSUME NEW f \in DOMAIN h.funcs
      PROVE  /\ DOMAIN funcs[f] = FuncFields
             /\ funcs[f].name = h.funcs[f].name
             /\ funcs[f].owner = h.funcs[f].owner
             /\ funcs[f].virtual = h.funcs[f].virtual
             /\ funcs[f].receiver = h.funcs[f].receiver
             /\ funcs[f].slot = IF moved(f) THEN h.funcs[f].slot + o ELSE h.funcs[f].slot
  <2>1. CASE moved(f)
    <3>1. funcs[f] = [h.funcs[f] EXCEPT !.slot = h.funcs[f].slot + o]
      BY <1>5, <2>1
    <3> HIDE DEF moved
    <3> QED
      BY <1>1, <2>1, <3>1 DEF FuncFields
  <2>2. CASE ~moved(f)
    <3>1. funcs[f] = h.funcs[f]
      BY <1>5, <2>2
    <3> HIDE DEF moved
    <3> QED
      BY <1>1, <2>2, <3>1
  <2> QED
    BY <2>1, <2>2
<1> QED
  BY <1>3, <1>4, <1>5, <1>6 DEF Shifted

LEMMA ShiftedTables ==
  ASSUME NEW h, Good(h, {}), NEW x \in DOMAIN h.types, x # VTableBase,
         h.types[x].hasVTable, ~h.types[x].complete,
         Straight(h, x) \/ Settled(h, x),
         NEW o, o = Start(h, x) - h.types[x].first, o \in Nat,
         NEW k, Shifted(h, k, x, o)
  PROVE  LET tables == createAllVTables(k, x)
         IN  \A r \in DOMAIN tables :
                DOMAIN tables[r] = 0 .. (Cardinality(DOMAIN tables[r]) - 1)
<1> DEFINE T == DOMAIN h.types
           F == DOMAIN h.funcs
<1>1. Shape(h) /\ Classes(h) /\ Lineage(h)
  BY DEF Good, Shape
<1>2. /\ k.types = h.types /\ DOMAIN k.funcs = F
      /\ DOMAIN k = {"types", "funcs", "failed"} /\ IsSeq(k.funcs)
  BY DEF Shifted
<1>3. \A f \in F :
         /\ DOMAIN k.funcs[f] = FuncFields
         /\ k.funcs[f].name = h.funcs[f].name
         /\ k.funcs[f].owner = h.funcs[f].owner
         /\ k.funcs[f].virtual = h.funcs[f].virtual
         /\ k.funcs[f].receiver = h.funcs[f].receiver
         /\ k.funcs[f].slot =
              IF /\ h.funcs[f].owner = x /\ h.funcs[f].virtual
                 /\ h.funcs[f].slot >= h.types[x].first
              THEN h.funcs[f].slot + o ELSE h.funcs[f].slot
  BY DEF Shifted
<1>4. \A f \in F : /\ FunctionOK(h, f) /\ h.funcs[f].slot \in Nat /\ h.funcs[f].owner \in T
                   /\ h.funcs[f].virtual \in BOOLEAN
  BY DEF Good, Shape
<1>5. Shape(k)
  <2>1. \A f \in F : /\ k.funcs[f].owner \in T /\ k.funcs[f].virtual \in BOOLEAN
                     /\ k.funcs[f].slot \in Nat
    BY <1>3, <1>4
  <2>2. Lineage(k)
    BY <1>1, <1>2 DEF Lineage
  <2> QED
    BY <1>1, <1>2, <1>3, <2>1, <2>2 DEF Shape
<1>6. /\ \A y \in T : Ancestors(k, y) = Ancestors(h, y)
      /\ \A y \in T : Straight(k, y) <=> Straight(h, y)
  <2>1. SameClasses(h, k)
    BY <1>1, <1>2 DEF SameClasses, SameClass, Lineage
  <2> QED
    BY <1>1, <2>1, SameFacts
<1>7. Classes(k)
  <2>1. /\ \A y : Settled(k, y) <=> Settled(h, y)
        /\ \A y : Closed(k, y) <=> Closed(h, y)
    BY <1>2 DEF Settled, Closed
  <2>2. ASSUME NEW y \in T \ {VTableBase} PROVE ClassOK(k, y)
    <3>1. ClassOK(h, y)
      BY <1>1 DEF Classes
    <3>2. Straight(k, y) <=> Straight(h, y)
      BY <1>6
    <3> QED
      BY <1>2, <2>1, <3>1, <3>2 DEF ClassOK
  <2>3. RootOK(k)
    BY <1>1, <1>2 DEF Classes, RootOK
  <2> QED
    BY <1>2, <2>2, <2>3 DEF Classes
<1>8. \A y \in T : h.types[y].first \in Nat /\ h.types[y].next \in Nat
  BY <1>1, TypeFacts
<1>9. h.types[x].first >= 1 /\ Start(h, x) \in Nat
  <2>1. h.types[x].parents[1] \in T
    BY <1>1, FirstParent, TypeFacts
  <2> QED
    BY <1>1, <1>8, <2>1 DEF Classes, ClassOK, Start
  \* Ancestors of x begin where their bases end.
<1>10. ASSUME NEW c \in Ancestors(h, x), c # VTableBase, h.types[c].hasVTable
       PROVE  /\ c \in T
              /\ c # x => Settled(h, c) /\ Start(h, c) = h.types[c].first
  BY <1>1, <1>10, AncestorFacts DEF Settled, Start
  \* Before the move the functions of x are where its first slot says.
<1>11. Placed(h, x)
  BY DEF Placed
<1>12. ASSUME Settled(h, x) PROVE o = 0
  BY <1>8, <1>9, <1>12 DEF Settled, Start
<1>13. ASSUME NEW f \in F, h.funcs[f].virtual,
              h.funcs[f].owner # x \/ h.funcs[f].receiver # x
       PROVE  k.funcs[f].slot = h.funcs[f].slot
  <2>1. CASE h.funcs[f].owner # x
    BY <1>3, <2>1
  <2>2. CASE o = 0
    BY <1>3, <1>4, <2>2
  <2>3. CASE h.funcs[f].owner = x /\ o # 0
    <3>1. Straight(h, x)
      BY <1>12, <2>3
    <3>2. h.funcs[f].slot < h.types[x].first
      BY <1>4, <1>11, <1>13, <2>3, <3>1 DEF FunctionOK
    <3> QED
      BY <1>3, <1>4, <1>8, <3>2
  <2> QED
    BY <2>1, <2>2, <2>3
<1>14. ASSUME NEW f \in F, k.funcs[f].virtual, k.funcs[f].owner \in Ancestors(k, x)
       PROVE  LET c == k.funcs[f].receiver
                  s == k.funcs[f].slot
              IN  /\ c \in Ancestors(k, k.funcs[f].owner) /\ k.types[c].hasVTable
                  /\ c = VTableBase => s = 0
                  /\ c # VTableBase => Start(k, c) <= s /\ s < Start(k, c) + Size(k, c)
  <2> DEFINE c == h.funcs[f].receiver
             a == h.funcs[f].owner
             s == h.funcs[f].slot
  <2>1. FunctionOK(h, f) /\ h.funcs[f].virtual /\ a \in Ancestors(h, x) /\ a \in T
    BY <1>3, <1>4, <1>6, <1>14
  <2>2. c \in Ancestors(h, a) /\ h.types[c].hasVTable /\ h.types[a].hasVTable
    BY <2>1 DEF FunctionOK
  <2>3. c \in Ancestors(h, x) /\ c \in T
    BY <1>1, <2>1, <2>2, AncestorsTrans, AncestorsAre
  <2>4. CASE c = VTableBase
    <3>1. s = 0 /\ k.funcs[f].slot = s
      BY <1>13, <2>1, <2>4 DEF FunctionOK
    <3> QED
      BY <1>2, <1>3, <1>6, <2>1, <2>2, <2>4, <3>1
  <2>5. CASE c # VTableBase /\ c # x
    <3>1. Start(h, c) = h.types[c].first /\ Settled(h, c)
      BY <1>10, <2>2, <2>3, <2>5
    <3>2. h.types[c].first <= s /\ s < h.types[c].next
      <4>1. CASE c # a
        BY <2>1, <2>5, <4>1 DEF FunctionOK
      <4>2. CASE c = a
        <5>1. Placed(h, a)
          BY <3>1, <4>2 DEF Placed
        <5> QED
          BY <2>1, <2>5, <4>2, <5>1 DEF FunctionOK
      <4> QED
        BY <4>1, <4>2
    <3>3. k.funcs[f].slot = s
      BY <1>13, <2>1, <2>5
    <3>4. h.types[c].first \in Nat /\ h.types[c].next \in Nat /\ s \in Nat
      BY <1>4, <1>8, <2>3
    <3> HIDE DEF c, s, a
    <3>5. Start(h, c) <= s /\ s < Start(h, c) + Size(h, c)
      BY <3>1, <3>2, <3>4 DEF Size
    <3>6. Start(k, c) = Start(h, c) /\ Size(k, c) = Size(h, c)
      BY <1>2 DEF Start, Size
    <3>7. k.funcs[f].receiver = c /\ k.funcs[f].owner = a
      BY <1>3 DEF c, a
    <3>8. c # VTableBase
      BY <2>5
    <3> QED
      BY <1>2, <1>6, <2>1, <2>2, <3>3, <3>5, <3>6, <3>7, <3>8
  <2>6. CASE c = x
    <3>1. a = x
      <4>1. a <= x /\ c <= a /\ a \in Nat /\ x \in Nat
        BY <1>1, <2>1, <2>2, AncestorsAre, TypeFacts
      <4> QED
        BY <2>6, <4>1
    <3>2. h.types[x].first <= s /\ s < h.types[x].next
      BY <1>11, <2>1, <2>6, <3>1 DEF FunctionOK
    <3>3. k.funcs[f].slot = s + o
      BY <1>3, <2>1, <3>1, <3>2
    <3>4. h.types[x].first \in Nat /\ h.types[x].next \in Nat /\ s \in Nat
      BY <1>4, <1>8
    <3> HIDE DEF c, s, a
    <3>5. Start(h, x) <= s + o /\ s + o < Start(h, x) + Size(h, x)
      BY <1>9, <3>2, <3>4 DEF Size
    <3>6. Start(k, x) = Start(h, x) /\ Size(k, x) = Size(h, x)
      BY <1>2 DEF Start, Size
    <3>7. k.funcs[f].receiver = x /\ k.funcs[f].owner = x
      BY <1>3, <2>6, <3>1 DEF c, a
    <3> QED
      BY <1>2, <1>6, <2>1, <2>2, <2>6, <3>1, <3>3, <3>5, <3>6, <3>7
  <2> QED
    BY <2>4, <2>5, <2>6
<1>15. ASSUME NEW c \in Ancestors(k, x), c # VTableBase, k.types[c].hasVTable,
              NEW s \in Nat, Start(k, c) <= s, s < Start(k, c) + Size(k, c)
       PROVE  Introduced(k, c, s)
  <2>1. c \in Ancestors(h, x) /\ h.types[c].hasVTable /\ c \in T
    BY <1>2, <1>6, <1>10, <1>15
  <2>2. /\ Start(k, c) = Start(h, c) /\ Size(k, c) = Size(h, c)
        /\ h.types[c].first \in Nat /\ h.types[c].next \in Nat
    BY <1>2, <1>8, <2>1 DEF Start, Size
  <2>3. FilledOK(h, c)
    BY <1>15, <2>1 DEF Good
  <2>4. CASE c # x
    <3>1. Settled(h, c) /\ Start(h, c) = h.types[c].first
      BY <1>10, <1>15, <2>1, <2>4
    <3>2. h.types[c].first <= s /\ s < h.types[c].next
      BY <1>15, <2>2, <3>1 DEF Size
    <3>3. PICK f \in F : /\ h.funcs[f].virtual /\ h.funcs[f].owner = c
                         /\ h.funcs[f].receiver = c /\ h.funcs[f].slot = s
      BY <2>1, <2>3, <3>1, <3>2 DEF FilledOK, Placed, Introduced
    <3>4. k.funcs[f].slot = s
      BY <1>3, <2>4, <3>3
    <3> QED
      BY <1>2, <1>3, <3>3, <3>4 DEF Introduced
  <2>5. CASE c = x
    <3>1. /\ s - o \in Nat /\ h.types[x].first <= s - o /\ s - o < h.types[x].next
      BY <1>9, <1>15, <2>2, <2>5 DEF Size
    <3>2. Introduced(h, x, s - o)
      BY <1>11, <2>3, <2>5, <3>1 DEF FilledOK
    <3>3. PICK f \in F : /\ h.funcs[f].virtual /\ h.funcs[f].owner = x
                         /\ h.funcs[f].receiver = x /\ h.funcs[f].slot = s - o
      BY <3>2 DEF Introduced
    <3>4. k.funcs[f].slot = s
      BY <1>3, <3>1, <3>3
    <3> QED
      BY <1>2, <1>3, <2>5, <3>3, <3>4 DEF Introduced
  <2> QED
    BY <2>4, <2>5
<1>16. \E f \in DOMAIN k.funcs : /\ k.funcs[f].virtual /\ k.funcs[f].owner = x
                                 /\ k.funcs[f].receiver = VTableBase
  <2>1. HasOperClass(h, x)
    BY DEF Good
  <2>2. PICK f \in F : h.funcs[f].owner = x /\ h.funcs[f].name = "oper class"
    BY <2>1 DEF HasOperClass
  <2>3. h.funcs[f].virtual /\ h.funcs[f].receiver = VTableBase
    BY <1>4, <2>2 DEF FunctionOK
  <2> QED
    BY <1>2, <1>3, <2>2, <2>3
<1>17. x \in DOMAIN k.types /\ k.types[x].hasVTable
  BY <1>2
<1> QED
  BY <1>2, <1>5, <1>7, <1>14, <1>15, <1>16, <1>17, TablesFull

\* Class x is complete, and nothing else about classes has changed.
Finished(h, g, x) ==
  /\ DOMAIN g.types = DOMAIN h.types
  /\ \A y \in DOMAIN h.types :
        /\ g.types[y].parents = h.types[y].parents
        /\ g.types[y].children = h.types[y].children
        /\ g.types[y].complete = (h.types[y].complete \/ y = x)
        /\ Settled(g, y) <=> Settled(h, y)
        /\ Straight(g, y) <=> Straight(h, y)

\* Class x gets its vtables and is complete.
Stored(k, g, x, tables, bad) ==
  /\ DOMAIN g = {"types", "funcs", "failed"}
  /\ g.funcs = k.funcs
  /\ g.failed = (k.failed \/ bad)
  /\ g.types = [[k.types EXCEPT ![x] = [k.types[x] EXCEPT !.vtables = tables]]
                        EXCEPT ![x] = [[k.types[x] EXCEPT !.vtables = tables]
                                          EXCEPT !.complete = TRUE]]

Gaps(tables) ==
  \E r \in DOMAIN tables : DOMAIN tables[r] # 0 .. (Cardinality(DOMAIN tables[r]) - 1)

LEMMA EmitIs ==
  ASSUME NEW k, DOMAIN k = {"types", "funcs", "failed"}, NEW x \in DOMAIN k.types, NEW tables,
         NEW g, g = [emitVTables(k, x, tables) EXCEPT !.types[x].complete = TRUE]
  PROVE  Stored(k, g, x, tables, Gaps(tables))
<1> DEFINE e == emitVTables(k, x, tables)
           ts == [k.types EXCEPT ![x] = [k.types[x] EXCEPT !.vtables = tables]]
<1>1. e = [[k EXCEPT !.types = ts] EXCEPT !.failed = k.failed \/ Gaps(tables)]
  BY DEF emitVTables, Gaps
<1> HIDE DEF e
<1>2. ts[x] = [k.types[x] EXCEPT !.vtables = tables]
  OBVIOUS
<1> HIDE DEF ts
<1>3. /\ DOMAIN e = {"types", "funcs", "failed"}
      /\ e.types = ts /\ e.funcs = k.funcs /\ e.failed = (k.failed \/ Gaps(tables))
  BY <1>1
<1>4. g = [e EXCEPT !.types = [e.types EXCEPT ![x] = [e.types[x] EXCEPT !.complete = TRUE]]]
  BY DEF e
<1>5. /\ DOMAIN g = {"types", "funcs", "failed"}
      /\ g.types = [ts EXCEPT ![x] = [ts[x] EXCEPT !.complete = TRUE]]
      /\ g.funcs = k.funcs /\ g.failed = (k.failed \/ Gaps(tables))
  BY <1>3, <1>4
<1>6. g.types = [ts EXCEPT ![x] = [[k.types[x] EXCEPT !.vtables = tables]
                                      EXCEPT !.complete = TRUE]]
  BY <1>2, <1>5
<1> QED
  BY <1>5, <1>6 DEF Stored, ts

\* What the types are afterwards.
Ended(h, g, x) ==
  /\ SameClasses(h, g)
  /\ \A y \in DOMAIN h.types :
        /\ g.types[y].next = h.types[y].next
        /\ g.types[y].children = h.types[y].children
        /\ g.types[y].complete = (h.types[y].complete \/ y = x)

LEMMA StoredIs ==
  ASSUME NEW h, Shape(h), NEW x \in DOMAIN h.types, NEW k, k.types = h.types,
         NEW g, NEW tables, NEW bad, Stored(k, g, x, tables, bad)
  PROVE  Ended(h, g, x)
<1> DEFINE c == [h.types[x] EXCEPT !.vtables = tables]
           d == [c EXCEPT !.complete = TRUE]
           ts == [h.types EXCEPT ![x] = c]
<1>1. IsSeq(h.types) /\ DOMAIN h.types[x] = TypeFields
  BY DEF Shape, Lineage
<1>2. g.types = [ts EXCEPT ![x] = d]
  BY DEF Stored
<1>3. /\ DOMAIN d = TypeFields
      /\ d.parents = h.types[x].parents /\ d.hasVTable = h.types[x].hasVTable
      /\ d.abstract = h.types[x].abstract /\ d.first = h.types[x].first
      /\ d.next = h.types[x].next /\ d.children = h.types[x].children
      /\ d.complete = TRUE
  BY <1>1 DEF TypeFields
<1> HIDE DEF c, d
<1>4. /\ IsSeq(ts) /\ Len(ts) = Len(h.types) /\ DOMAIN ts = DOMAIN h.types
      /\ \A y \in DOMAIN h.types : y # x => ts[y] = h.types[y]
  BY <1>1, ExceptIs
<1> HIDE DEF ts
<1>5. /\ IsSeq(g.types) /\ Len(g.types) = Len(ts) /\ DOMAIN g.types = DOMAIN ts
      /\ g.types[x] = d
      /\ \A y \in DOMAIN ts : y # x => g.types[y] = ts[y]
  <2>1. x \in DOMAIN ts
    BY <1>4
  <2>2. ASSUME NEW us, us = [ts EXCEPT ![x] = d]
        PROVE  /\ IsSeq(us) /\ Len(us) = Len(ts) /\ DOMAIN us = DOMAIN ts
               /\ us[x] = d
               /\ \A y \in DOMAIN ts : y # x => us[y] = ts[y]
    BY <1>4, <2>1, <2>2, ExceptIs
  <2> QED
    BY <1>2, <2>2, Zenon
<1>6. \A y \in DOMAIN h.types : h.types[y].complete \in BOOLEAN
  BY DEF Shape
<1>7. ASSUME NEW y \in DOMAIN h.types
      PROVE  /\ SameClass(h.types[y], g.types[y])
             /\ g.types[y].next = h.types[y].next
             /\ g.types[y].children = h.types[y].children
             /\ g.types[y].complete = (h.types[y].complete \/ y = x)
  <2>1. CASE y = x
    BY <1>1, <1>3, <1>5, <2>1 DEF SameClass
  <2>2. CASE y # x
    BY <1>4, <1>5, <1>6, <2>2 DEF SameClass
  <2> QED
    BY <2>1, <2>2
<1> QED
  BY <1>4, <1>5, <1>7 DEF Ended, SameClasses

LEMMA FixTypeGood ==
  ASSUME NEW h, Good(h, {}), ~h.failed, NEW x \in DOMAIN h.types, x # VTableBase,
         ~h.types[x].complete, Closed(h, x),
         NEW g, g = fixType(h, x)
  PROVE  Good(g, {}) /\ ~g.failed /\ Finished(h, g, x)
<1> DEFINE T == DOMAIN h.types
           vt == h.types[x].hasVTable
           o == IF vt THEN Start(h, x) - h.types[x].first ELSE 0
<1>1. Shape(h) /\ Classes(h) /\ ClassOK(h, x) /\ DOMAIN h = {"types", "funcs", "failed"}
  BY DEF Good, Shape, Classes
<1>2. \A y \in T : h.types[y].first \in Nat /\ h.types[y].next \in Nat
                   /\ h.types[y].complete \in BOOLEAN
  BY <1>1, TypeFacts
<1>3. vt => /\ Start(h, x) \in Nat /\ h.types[x].first <= Start(h, x)
            /\ h.types[x].first \in Nat
  <2>1. vt => h.types[x].parents[1] \in T
    BY <1>1, FirstParent, TypeFacts
  <2> QED
    BY <1>1, <1>2, <2>1 DEF ClassOK, Start
<1>4. o \in Nat /\ (Settled(h, x) => o = 0)
  BY <1>3 DEF Settled, Start
<1>5. Straight(h, x) \/ Settled(h, x)
  BY <1>1 DEF ClassOK
<1>6. MayMove(h, x, o, TRUE)
  BY <1>4, <1>5 DEF MayMove
<1>7. \E k : /\ DOMAIN k = {"types", "funcs", "failed"} /\ Shifted(h, k, x, o)
             /\ Ended(h, g, x)
             /\ DOMAIN g = {"types", "funcs", "failed"}
             /\ g.funcs = k.funcs /\ ~g.failed
  <2>1. CASE vt
    <3> DEFINE k == fixVTableSlots(h, x, o)
               tables == createAllVTables(k, x)
    <3>1. Shifted(h, k, x, o)
      BY <1>1, ShiftIs
    <3>2. fixSlots(h, x) = k
      <4>1. o = Start(h, x) - h.types[x].first
        BY <2>1
      <4>2. ~(Start(h, x) < h.types[x].first)
        BY <1>3, <2>1
      <4> HIDE DEF o
      <4> QED
        BY <4>1, <4>2 DEF fixSlots, Start
    <3>3. ~Gaps(tables)
      <4>1. o = Start(h, x) - h.types[x].first
        BY <2>1
      <4> HIDE DEF o, k
      <4> QED
        BY <1>4, <1>5, <2>1, <3>1, <4>1, ShiftedTables DEF Gaps
    <3> HIDE DEF o, k
    <3>4. k.types = h.types /\ k.failed = h.failed /\ DOMAIN k = {"types", "funcs", "failed"}
      BY <3>1 DEF Shifted
    <3>5. g = [emitVTables(k, x, tables) EXCEPT !.types[x].complete = TRUE]
      BY <2>1, <3>2 DEF fixType, fixVTables
    <3> HIDE DEF tables
    <3>6. Stored(k, g, x, tables, Gaps(tables))
      BY <3>4, <3>5, EmitIs
    <3>7. Ended(h, g, x)
      BY <1>1, <3>4, <3>6, StoredIs
    <3>8. DOMAIN g = {"types", "funcs", "failed"} /\ g.funcs = k.funcs /\ ~g.failed
      BY <3>3, <3>4, <3>6 DEF Stored
    <3> QED
      BY <3>1, <3>4, <3>7, <3>8
  <2>2. CASE ~vt
    <3> DEFINE c == [h.types[x] EXCEPT !.complete = TRUE]
    <3>1. Shifted(h, h, x, o)
      <4>1. IsSeq(h.funcs) /\ \A f \in DOMAIN h.funcs : DOMAIN h.funcs[f] = FuncFields
                              /\ h.funcs[f].slot \in Nat
        BY <1>1 DEF Shape
      <4>2. o = 0
        BY <2>2
      <4> HIDE DEF o
      <4> QED
        BY <1>1, <4>1, <4>2 DEF Shifted
    <3>2. g = [h EXCEPT !.types = [h.types EXCEPT ![x] = c]]
      BY <2>2 DEF fixType
    <3>3. /\ DOMAIN c = TypeFields
          /\ c.parents = h.types[x].parents /\ c.hasVTable = h.types[x].hasVTable
          /\ c.abstract = h.types[x].abstract /\ c.first = h.types[x].first
          /\ c.next = h.types[x].next /\ c.children = h.types[x].children
          /\ c.complete = TRUE
          /\ DOMAIN h.types[x] = TypeFields
      <4>1. DOMAIN h.types[x] = TypeFields
        BY <1>1 DEF Shape
      <4> QED
        BY <4>1 DEF TypeFields
    <3> HIDE DEF c
    <3>4. /\ DOMAIN g = {"types", "funcs", "failed"} /\ g.funcs = h.funcs
          /\ g.types = [h.types EXCEPT ![x] = c] /\ g.failed = h.failed
      BY <1>1, <3>2
    <3>5. /\ IsSeq(g.types) /\ Len(g.types) = Len(h.types) /\ DOMAIN g.types = T
          /\ g.types[x] = c /\ \A y \in T : y # x => g.types[y] = h.types[y]
      <4>1. IsSeq(h.types)
        BY <1>1 DEF Shape, Lineage
      <4> QED
        BY <3>4, <4>1, ExceptIs
    <3>6. ASSUME NEW y \in T
          PROVE  /\ SameClass(h.types[y], g.types[y])
                 /\ g.types[y].next = h.types[y].next
                 /\ g.types[y].children = h.types[y].children
                 /\ g.types[y].complete = (h.types[y].complete \/ y = x)
      <4>1. CASE y = x
        BY <3>3, <3>5, <4>1 DEF SameClass
      <4>2. CASE y # x
        BY <1>2, <3>5, <4>2 DEF SameClass
      <4> QED
        BY <4>1, <4>2
    <3>7. Ended(h, g, x)
      BY <3>5, <3>6 DEF Ended, SameClasses
    <3> HIDE DEF o
    <3> QED
      BY <1>1, <3>1, <3>4, <3>7
  <2> HIDE DEF o
  <2> QED
    BY <2>1, <2>2
<1> HIDE DEF o
<1>8. Moved(h, g, x, o, TRUE)
  <2>1. PICK k : /\ Shifted(h, k, x, o) /\ Ended(h, g, x)
                 /\ DOMAIN g = {"types", "funcs", "failed"} /\ g.funcs = k.funcs
    BY <1>7
  <2>2. \A y \in T : /\ IsSeq(h.types[y].children)
                     /\ \A c \in Range(h.types[y].children) : c \in T /\ y < c
    BY <1>1 DEF Shape
  <2>3. SameClasses(h, g) /\ \A y \in T :
           /\ g.types[y].next = h.types[y].next
           /\ g.types[y].children = h.types[y].children
           /\ g.types[y].complete = (h.types[y].complete \/ y = x)
    BY <2>1 DEF Ended
  <2>4. /\ IsSeq(g.funcs) /\ DOMAIN g.funcs = DOMAIN h.funcs
        /\ \A f \in DOMAIN h.funcs :
              /\ DOMAIN g.funcs[f] = FuncFields
              /\ g.funcs[f].name = h.funcs[f].name
              /\ g.funcs[f].owner = h.funcs[f].owner
              /\ g.funcs[f].virtual = h.funcs[f].virtual
              /\ g.funcs[f].receiver = h.funcs[f].receiver
              /\ g.funcs[f].slot =
                   IF /\ h.funcs[f].owner = x /\ h.funcs[f].virtual
                      /\ h.funcs[f].slot >= h.types[x].first
                   THEN h.funcs[f].slot + o ELSE h.funcs[f].slot
    BY <2>1 DEF Shifted
  <2> QED
    BY <2>1, <2>2, <2>3, <2>4 DEF Moved
<1>9. /\ Good(g, {})
      /\ \A y \in T : Settled(g, y) <=> Settled(h, y)
      /\ \A y \in T : Straight(g, y) <=> Straight(h, y)
  BY <1>6, <1>8, MovedGood
<1>10. Finished(h, g, x)
  BY <1>7, <1>9 DEF Ended, SameClasses, SameClass, Finished
<1> QED
  BY <1>7, <1>9, <1>10
-----------------------------------------------------------------------------
(* fixIncompletes: a class and then the classes that wait for it.          *)

LEMMA DownRec ==
  ASSUME NEW h, Shape(h)
  PROVE  \E down :
           /\ \A x \in DOMAIN h.types :
                 LET kids == h.types[x].children
                 IN  down[x] = <<x>> \o FlattenSeq([i \in DOMAIN kids |-> down[kids[i]]])
           /\ \A t : fixIncompletes(h, t) = FoldLeft(fixType, h, down[t])
<1> DEFINE rec == [k |-> "down", h |-> h]
           D == DOMAIN h.types
           n == Len(h.types)
           mu == [y \in D |-> n - y]
           parts(f, y) == [i \in DOMAIN h.types[y].children |-> f[h.types[y].children[i]]]
           E(f) == [y \in D |-> <<y>> \o FlattenSeq(parts(f, y))]
           down == CHOOSE f : f = E(f)
<1>1. n \in Nat /\ D = 1 .. n
  BY LineageFacts DEF Shape
<1>2. \A y \in D : \A k \in Range(h.types[y].children) : k \in D /\ y < k
  BY DEF Shape
<1>3. \A t : fixIncompletes(h, t) = FoldLeft(fixType, h, down[t])
  BY Zenon DEF fixIncompletes
<1>4. \A f, y : RecStep(rec, f, y) = <<y>> \o FlattenSeq(parts(f, y))
  BY Zenon DEF RecStep, DownStep
<1>5. mu \in [D -> 0 .. n]
  <2> HIDE DEF D, n
  <2>1. \A y \in D : n - y \in 0 .. n
    BY <1>1
  <2> QED
    BY <2>1
<1>6. \A f, g : \A y \in D :
        AgreeBelow(D, mu, f, g, y) => RecStep(rec, f, y) = RecStep(rec, g, y)
  <2> TAKE f, g
  <2> TAKE y \in D
  <2> HAVE AgreeBelow(D, mu, f, g, y)
  <2>1. \A i \in DOMAIN h.types[y].children :
           f[h.types[y].children[i]] = g[h.types[y].children[i]]
    <3> TAKE i \in DOMAIN h.types[y].children
    <3> DEFINE c == h.types[y].children[i]
    <3>1. c \in D /\ y < c
      BY <1>2 DEF Range
    <3>2. mu[c] < mu[y]
      <4>1. mu[c] = n - c /\ mu[y] = n - y
        BY <3>1
      <4> HIDE DEF c, n, D, mu
      <4> QED
        BY <1>1, <3>1, <4>1
    <3> HIDE DEF c, mu, D
    <3>3. f[c] = g[c]
      BY <3>1, <3>2 DEF AgreeBelow
    <3> QED
      BY <3>3 DEF c
  <2>2. parts(f, y) = parts(g, y)
    BY <2>1
  <2> HIDE DEF parts
  <2> QED
    BY <1>4, <2>2
<1>7. PICK f : IsRec(rec, D, f)
  <2>1. n \in Nat
    BY <1>1
  <2> HIDE DEF rec, D, mu, n
  <2> QED
    BY <1>5, <1>6, <2>1, RecExists
<1>8. f = E(f)
  <2> HIDE DEF parts
  <2> QED
    BY <1>4, <1>7 DEF IsRec
<1> HIDE DEF E
<1>9. down = E(down)
  BY <1>8
<1> HIDE DEF down
<1>10. \A x \in D : down[x] = <<x>> \o FlattenSeq(parts(down, x))
  <2> HIDE DEF parts
  <2> QED
    BY <1>9 DEF E
<1> QED
  BY <1>3, <1>10, Zenon

\* The classes that wait wait for one class only.
LEMMA DownIs ==
  ASSUME NEW h, Shape(h), NEW t \in DOMAIN h.types,
         \A i \in DOMAIN h.types[t].children :
            h.types[h.types[t].children[i]].children = <<>>
  PROVE  \E list : LET kids == h.types[t].children
                   IN  /\ IsSeq(list) /\ Len(list) = Len(kids) + 1
                       /\ list[1] = t
                       /\ \A i \in DOMAIN kids : list[i + 1] = kids[i]
                       /\ fixIncompletes(h, t) = FoldLeft(fixType, h, list)
<1> DEFINE kids == h.types[t].children
           seqs == [i \in DOMAIN kids |-> <<kids[i]>>]
           flat == FlattenSeq(seqs)
<1>1. PICK down :
         /\ \A x \in DOMAIN h.types :
               LET c == h.types[x].children
               IN  down[x] = <<x>> \o FlattenSeq([i \in DOMAIN c |-> down[c[i]]])
         /\ \A x : fixIncompletes(h, x) = FoldLeft(fixType, h, down[x])
  BY DownRec, Zenon
<1>2. IsSeq(kids) /\ \A i \in DOMAIN kids : kids[i] \in DOMAIN h.types
  BY DEF Shape, Range
<1>3. ASSUME NEW i \in DOMAIN kids PROVE down[kids[i]] = <<kids[i]>>
  <2> DEFINE x == kids[i]
  <2>1. x \in DOMAIN h.types /\ h.types[x].children = <<>>
    BY <1>2
  <2> HIDE DEF x
  <2>2. down[x] = <<x>> \o FlattenSeq([j \in DOMAIN h.types[x].children |->
                                         down[h.types[x].children[j]]])
    BY <1>1, <2>1, Zenon
  <2>3. [j \in DOMAIN h.types[x].children |-> down[h.types[x].children[j]]] = <<>>
    BY <2>1
  <2>4. FlattenSeq(<<>>) = <<>>
    BY DEF FlattenSeq
  <2>5. <<x>> \o <<>> = <<x>>
    OBVIOUS
  <2>6. down[x] = <<x>>
    BY <2>2, <2>3, <2>4, <2>5, Zenon
  <2> QED
    BY <2>6 DEF x
<1>4. down[t] = <<t>> \o flat
  <2>1. down[t] = <<t>> \o FlattenSeq([i \in DOMAIN kids |-> down[kids[i]]])
    BY <1>1, Zenon
  <2>2. [i \in DOMAIN kids |-> down[kids[i]]] = seqs
    BY <1>3
  <2> QED
    BY <2>1, <2>2, Zenon
<1>5. IsSeq(flat) /\ Len(flat) = Len(kids) /\ \A i \in DOMAIN kids : flat[i] = kids[i]
  <2> HIDE DEF kids
  <2> QED
    BY <1>2, FlattenOnes
<1>6. Len(kids) \in Nat /\ DOMAIN kids = 1 .. Len(kids)
  BY <1>2, SeqFacts
<1> HIDE DEF flat, kids
<1>7. IsSeq(<<t>>) /\ Len(<<t>>) = 1 /\ <<t>>[1] = t
  BY DEF IsSeq, Range
<1>8. /\ IsSeq(down[t]) /\ Len(down[t]) = 1 + Len(flat)
      /\ \A i \in 1 .. 1 : down[t][i] = <<t>>[i]
      /\ \A i \in 1 .. Len(flat) : down[t][1 + i] = flat[i]
  BY <1>4, <1>5, <1>7, ConcatIs
<1>9. /\ IsSeq(down[t]) /\ Len(down[t]) = Len(kids) + 1
      /\ down[t][1] = t
      /\ \A i \in DOMAIN kids : down[t][i + 1] = kids[i]
  BY <1>5, <1>6, <1>7, <1>8
<1>10. fixIncompletes(h, t) = FoldLeft(fixType, h, down[t])
  BY <1>1, Zenon
<1> QED
  BY <1>9, <1>10 DEF kids

\* The classes of K are complete, and nothing else about classes has changed.
AllFinished(h, g, K) ==
  /\ DOMAIN g.types = DOMAIN h.types
  /\ \A y \in DOMAIN h.types :
        /\ g.types[y].parents = h.types[y].parents
        /\ g.types[y].children = h.types[y].children
        /\ g.types[y].complete = (h.types[y].complete \/ y \in K)
        /\ Settled(g, y) <=> Settled(h, y)
        /\ Straight(g, y) <=> Straight(h, y)

LEMMA FixIncompletesGood ==
  ASSUME NEW h, Good(h, {}), ~h.failed, NEW o, \A p \in DOMAIN h.types : KidsOK(h, o, p),
         NEW t \in DOMAIN h.types, t # VTableBase, ~h.types[t].complete, Closed(h, t),
         NEW g, g = fixIncompletes(h, t)
  PROVE  /\ Good(g, {}) /\ ~g.failed
         /\ AllFinished(h, g, {t} \cup Range(h.types[t].children))
<1> DEFINE T == DOMAIN h.types
           kids == h.types[t].children
<1>1. Shape(h) /\ Classes(h)
  BY DEF Good
<1>2. IsSeq(kids) /\ \A i \in DOMAIN kids : kids[i] \in T /\ t < kids[i]
  BY <1>1 DEF Shape, Range
<1>3. \A i \in DOMAIN kids :
         /\ ~h.types[kids[i]].complete /\ h.types[kids[i]].parents = <<t>>
         /\ \A j \in DOMAIN kids : kids[j] = kids[i] => j = i
  BY DEF KidsOK
<1>4. ASSUME NEW i \in DOMAIN kids PROVE h.types[kids[i]].children = <<>>
  <2> DEFINE k == kids[i]
             ks == h.types[k].children
  <2>1. k \in T /\ ~h.types[k].complete /\ h.types[k].parents = <<t>>
    BY <1>2, <1>3
  <2> HIDE DEF k
  <2>2. IsSeq(ks) /\ \A j \in DOMAIN ks : ks[j] \in T
    BY <1>1, <2>1 DEF Shape, Range
  <2>3. \A j \in DOMAIN ks : h.types[ks[j]].parents = <<k>>
    BY <2>1 DEF KidsOK
  <2>4. ~Closed(h, k)
    <3>1. t \in Range(<<t>>)
      BY DEF Range
    <3> QED
      BY <2>1, <3>1 DEF Closed
  <2>5. DOMAIN ks = {}
    <3> SUFFICES ASSUME NEW j \in DOMAIN ks PROVE FALSE
      OBVIOUS
    <3> DEFINE y == ks[j]
    <3>1. y \in T /\ h.types[y].parents = <<k>>
      BY <2>2, <2>3
    <3> HIDE DEF y
    <3>2. k \in Range(h.types[y].parents)
      BY <3>1 DEF Range
    <3> QED
      BY <1>1, <2>4, <3>1, <3>2, BaseFacts
  <2>6. ks = <<>>
    <3> HIDE DEF ks
    <3>1. Len(ks) \in Nat /\ DOMAIN ks = 1 .. Len(ks) /\ (ks = <<>> <=> Len(ks) = 0)
      BY <2>2, SeqFacts
    <3> QED
      BY <2>5, <3>1
  <2> QED
    BY <2>6 DEF k
<1>5. PICK list : /\ IsSeq(list) /\ Len(list) = Len(kids) + 1
                  /\ list[1] = t
                  /\ \A i \in DOMAIN kids : list[i + 1] = kids[i]
                  /\ g = FoldLeft(fixType, h, list)
  BY <1>1, <1>4, DownIs
<1>6. PICK f : /\ IsRun([k |-> "fix"], h, list, f)
               /\ g = f[1 .. Len(list)]
  BY <1>5, FixFold
<1>7. /\ Len(kids) \in Nat /\ DOMAIN kids = 1 .. Len(kids) /\ t \in Nat
      /\ Len(list) \in Nat /\ DOMAIN list = 1 .. Len(list)
  BY <1>1, <1>2, <1>5, SeqFacts, TypeFacts
<1> DEFINE n == Len(list)
           K(i) == {list[j] : j \in 1 .. i}
<1>8. /\ f[1 .. 0] = h
      /\ \A i \in 1 .. n : f[1 .. i] = fixType(f[1 .. (i - 1)], list[i])
  BY <1>6 DEF IsRun, Folded
<1>9. \A i \in 1 .. n : i = 1 \/ (i - 1 \in DOMAIN kids /\ list[i] = kids[i - 1])
  BY <1>5, <1>7
<1> HIDE DEF n
<1>10. n \in Nat /\ n >= 1
  BY <1>5, <1>7 DEF n
  \* Each class of the list is a type that is not complete, and in it once.
<1>11. ASSUME NEW i \in 1 .. n
       PROVE  /\ list[i] \in T /\ list[i] # VTableBase /\ ~h.types[list[i]].complete
              /\ i # 1 => h.types[list[i]].parents = <<t>>
              /\ \A j \in 1 .. (i - 1) : list[j] # list[i]
  <2>1. CASE i = 1
    BY <1>5, <2>1
  <2>2. CASE i # 1
    <3>1. i - 1 \in DOMAIN kids /\ list[i] = kids[i - 1]
      BY <1>9, <2>2
    <3>2. /\ list[i] \in T /\ t < list[i] /\ ~h.types[list[i]].complete
          /\ h.types[list[i]].parents = <<t>>
      BY <1>2, <1>3, <3>1
    <3>3. list[i] # VTableBase
      <4>1. <<t>> # <<>>
        OBVIOUS
      <4> QED
        BY <1>1, <3>2, <4>1 DEF Classes, RootOK
    <3>4. ASSUME NEW j \in 1 .. (i - 1), list[j] = list[i] PROVE FALSE
      <4>1. j \in 1 .. n
        BY <1>10
      <4>2. CASE j = 1
        BY <1>5, <1>7, <3>2, <3>4, <4>2
      <4>3. CASE j # 1
        <5>1. j - 1 \in DOMAIN kids /\ list[j] = kids[j - 1]
          BY <1>9, <4>1, <4>3
        <5>2. j - 1 = i - 1
          BY <1>3, <3>1, <3>4, <5>1
        <5>3. j < i /\ j \in Int /\ i \in Int
          BY <1>10
        <5> QED
          BY <5>2, <5>3
      <4> QED
        BY <4>2, <4>3
    <3> QED
      BY <3>2, <3>3, <3>4
  <2> QED
    BY <2>1, <2>2
<1> DEFINE P(i) == Good(f[1 .. i], {}) /\ ~f[1 .. i].failed /\ AllFinished(h, f[1 .. i], K(i))
<1>12. P(0)
  <2>1. K(0) = {}
    OBVIOUS
  <2>2. \A y \in T : h.types[y].complete \in BOOLEAN
    BY <1>1, TypeFacts
  <2>3. AllFinished(h, h, {})
    BY <2>2 DEF AllFinished
  <2> HIDE DEF K
  <2> QED
    BY <1>8, <2>1, <2>3
<1>13. ASSUME NEW i \in 1 .. n, P(i - 1) PROVE P(i)
  <2> DEFINE a == f[1 .. (i - 1)]
             b == f[1 .. i]
             x == list[i]
  <2>1. Good(a, {}) /\ ~a.failed /\ AllFinished(h, a, K(i - 1))
    BY <1>13
  <2>2. b = fixType(a, x)
    BY <1>8
  <2>3. /\ x \in T /\ x # VTableBase /\ ~h.types[x].complete
        /\ i # 1 => h.types[x].parents = <<t>>
        /\ x \notin K(i - 1)
    BY <1>11
  <2>4. K(i) = K(i - 1) \cup {x}
    <3>1. 1 .. i = (1 .. (i - 1)) \cup {i}
      BY <1>10
    <3> QED
      BY <3>1
  <2>5. i # 1 => t \in K(i - 1)
    <3>1. i # 1 => 1 \in 1 .. (i - 1)
      BY <1>10
    <3> QED
      BY <1>5, <3>1
  <2>6. i = 1 => x = t
    BY <1>5
  <2> HIDE DEF a, b, x, K
  <2>7. /\ DOMAIN a.types = T
        /\ \A y \in T : /\ a.types[y].parents = h.types[y].parents
                        /\ a.types[y].children = h.types[y].children
                        /\ a.types[y].complete = (h.types[y].complete \/ y \in K(i - 1))
                        /\ Settled(a, y) <=> Settled(h, y)
                        /\ Straight(a, y) <=> Straight(h, y)
    BY <2>1 DEF AllFinished
  <2>8. Closed(a, x)
    <3>1. CASE i = 1
      <4>1. \A p \in Range(h.types[t].parents) : p \in T /\ h.types[p].complete
        BY <1>1, TypeFacts DEF Closed
      <4> QED
        BY <2>6, <2>7, <3>1, <4>1 DEF Closed
    <3>2. CASE i # 1
      <4>1. \A p \in Range(<<t>>) : p = t
        BY DEF Range
      <4> QED
        BY <2>3, <2>5, <2>7, <3>2, <4>1 DEF Closed
    <3> QED
      BY <3>1, <3>2
  <2>9. ~a.types[x].complete
    BY <2>3, <2>7
  <2>10. Good(b, {}) /\ ~b.failed /\ Finished(a, b, x)
    BY <2>1, <2>2, <2>3, <2>7, <2>8, <2>9, FixTypeGood
  <2>11. AllFinished(h, b, K(i))
    <3>1. \A y \in T : h.types[y].complete \in BOOLEAN
      BY <1>1, TypeFacts
    <3>2. /\ DOMAIN b.types = T
          /\ \A y \in T : /\ b.types[y].parents = a.types[y].parents
                          /\ b.types[y].children = a.types[y].children
                          /\ b.types[y].complete = (a.types[y].complete \/ y = x)
                          /\ Settled(b, y) <=> Settled(a, y)
                          /\ Straight(b, y) <=> Straight(a, y)
      BY <2>7, <2>10 DEF Finished
    <3> QED
      BY <2>4, <2>7, <3>1, <3>2 DEF AllFinished
  <2> QED
    BY <2>10, <2>11 DEF b
<1>14. P(n)
  <2> HIDE DEF P
  <2> DEFINE Bad == {i \in 0 .. n : ~P(i)}
  <2>1. Bad = {}
    <3> SUFFICES ASSUME Bad # {} PROVE FALSE
      OBVIOUS
    <3>1. Bad \subseteq Nat
      BY <1>10
    <3>2. PICK i \in Bad : \A j \in Bad : i <= j
      <4> HIDE DEF Bad
      <4> QED
        BY <3>1, LeastNumber
    <3>3. i \in 0 .. n /\ ~P(i)
      OBVIOUS
    <3>4. i \in 1 .. n /\ i - 1 \in 0 .. n /\ ~(i <= i - 1)
      BY <1>10, <1>12, <3>3
    <3>5. P(i - 1)
      BY <3>2, <3>4
    <3> QED
      BY <1>13, <3>3, <3>4, <3>5
  <2> QED
    BY <1>10, <2>1
<1>15. K(n) = {t} \cup Range(kids)
  <2>1. ASSUME NEW j \in 1 .. n PROVE list[j] \in {t} \cup Range(kids)
    BY <1>5, <1>9 DEF Range
  <2>2. t \in K(n)
    BY <1>5, <1>10
  <2>3. ASSUME NEW i \in DOMAIN kids PROVE kids[i] \in K(n)
    BY <1>5, <1>7 DEF n
  <2> QED
    BY <2>1, <2>2, <2>3 DEF Range
<1> HIDE DEF K
<1> QED
  BY <1>6, <1>14, <1>15 DEF n
-----------------------------------------------------------------------------
(* The steps of the builder on all definitions.                            *)

\* Nothing changes but flags and kinds.
Alike(h, g, x) ==
  /\ Moved(h, g, x, 0, FALSE)
  /\ g.failed = h.failed
  /\ \A y \in DOMAIN h.types : g.types[y].children = h.types[y].children

LEMMA AlikeDefs ==
  ASSUME NEW h, NEW o, Defs(h, o), NEW x \in DOMAIN h.types, x # VTableBase,
         NEW g, Alike(h, g, x)
  PROVE  /\ Defs(g, o)
         /\ SameClasses(h, g)
         /\ \A y \in DOMAIN h.types :
               /\ g.types[y].complete = h.types[y].complete
               /\ Settled(g, y) <=> Settled(h, y)
               /\ Closed(g, y) <=> Closed(h, y)
               /\ Straight(g, y) <=> Straight(h, y)
<1>1. Good(h, {}) /\ Shape(h) /\ Moved(h, g, x, 0, FALSE)
  BY DEF Defs, Good, Alike
<1>2. MayMove(h, x, 0, FALSE)
  BY DEF MayMove
<1>3. /\ Good(g, {})
      /\ \A y \in DOMAIN h.types : Settled(g, y) <=> Settled(h, y)
      /\ \A y \in DOMAIN h.types : Straight(g, y) <=> Straight(h, y)
  BY <1>1, <1>2, MovedGood
<1>4. /\ SameClasses(h, g) /\ DOMAIN g.types = DOMAIN h.types
      /\ \A y \in DOMAIN h.types : g.types[y].parents = h.types[y].parents
  BY <1>1 DEF Moved, SameClasses, SameClass
<1>5. \A y \in DOMAIN h.types : g.types[y].complete = h.types[y].complete
  <2>1. \A y \in DOMAIN h.types : h.types[y].complete \in BOOLEAN
    BY <1>1, TypeFacts
  <2> QED
    BY <1>1, <2>1 DEF Moved
<1>6. \A y \in DOMAIN h.types : Closed(g, y) <=> Closed(h, y)
  BY <1>1, <1>4, <1>5, TypeFacts DEF Closed
<1>7. \A y \in DOMAIN h.types : g.types[y].children = h.types[y].children
  BY DEF Alike
<1>8. ASSUME NEW p \in DOMAIN g.types PROVE KidsOK(g, o, p)
  <2>1. KidsOK(h, o, p)
    BY <1>4 DEF Defs
  <2>2. \A i \in DOMAIN h.types[p].children : h.types[p].children[i] \in DOMAIN h.types
    BY <1>1, <1>4 DEF Shape, Range
  <2> QED
    BY <1>4, <1>5, <1>7, <2>1, <2>2 DEF KidsOK
<1>9. OpenOK(g, o)
  BY <1>3, <1>4, <1>5 DEF Defs, OpenOK
<1>10. ~g.failed /\ Object \in DOMAIN g.types
  BY <1>4 DEF Alike, Defs
<1> QED
  BY <1>3, <1>4, <1>5, <1>6, <1>8, <1>9, <1>10 DEF Defs

\* The innermost open class.
LEMMA LastIs ==
  ASSUME NEW h, Shape(h), NEW o, OpenOK(h, o), o # <<>>, NEW t, t = Last(o)
  PROVE  /\ t \in DOMAIN h.types /\ t # VTableBase
         /\ ~h.types[t].complete /\ Settled(h, t)
         /\ t \in Range(o)
         /\ \A i \in DOMAIN o : o[i] <= t
         /\ IsSeq(Front(o)) /\ t \notin Range(Front(o))
         /\ DOMAIN Front(o) \subseteq DOMAIN o
         /\ \A i \in DOMAIN Front(o) : Front(o)[i] = o[i]
<1>1. IsSeq(o)
  BY DEF OpenOK
<1>2. Len(o) \in Nat /\ DOMAIN o = 1 .. Len(o) /\ Len(o) # 0
  BY <1>1, SeqFacts
<1>3. t = o[Len(o)] /\ Len(o) \in DOMAIN o
  BY <1>2 DEF Last
<1>4. /\ t \in DOMAIN h.types /\ t # VTableBase /\ ~h.types[t].complete /\ Settled(h, t)
      /\ t \in Range(o)
  BY <1>3 DEF OpenOK, Range
<1>5. \A i \in DOMAIN o : o[i] \in Nat
  BY TypeFacts DEF OpenOK
<1>6. \A i \in DOMAIN o : i < Len(o) => o[i] < t
  BY <1>3 DEF OpenOK
<1>7. \A i \in DOMAIN o : o[i] <= t
  <2> TAKE i \in DOMAIN o
  <2>1. i < Len(o) \/ i = Len(o)
    BY <1>2
  <2> QED
    BY <1>3, <1>5, <1>6, <2>1
<1>8. /\ Front(o) = [i \in 1 .. (Len(o) - 1) |-> o[i]]
      /\ DOMAIN Front(o) = 1 .. (Len(o) - 1)
      /\ \A i \in 1 .. (Len(o) - 1) : Front(o)[i] = o[i]
  <2>1. Front(o) = SubSeq(o, 1, Len(o) - 1)
    BY DEF Front
  <2>2. o \in Seq(Range(o)) /\ Len(o) - 1 \in Nat
    BY <1>1, <1>2 DEF IsSeq
  <2>3. /\ DOMAIN SubSeq(o, 1, Len(o) - 1) = 1 .. (Len(o) - 1)
        /\ \A i \in 1 .. (Len(o) - 1) : SubSeq(o, 1, Len(o) - 1)[i] = o[i]
    BY <1>2, <2>2
  <2>4. SubSeq(o, 1, Len(o) - 1) = [i \in 1 .. (Len(o) - 1) |-> o[i]]
    BY <1>2, <2>2
  <2> QED
    BY <2>1, <2>3, <2>4
<1>9. IsSeq(Front(o))
  <2>1. Front(o) \in [1 .. (Len(o) - 1) -> Range(Front(o))]
    BY <1>8 DEF Range
  <2>2. Len(o) - 1 \in Nat
    BY <1>2
  <2> HIDE DEF IsSeq
  <2>3. Front(o) \in Seq(Range(Front(o)))
    BY <2>1, <2>2, FunctionIsSeq
  <2> QED
    BY <2>3 DEF IsSeq
<1>10. t \notin Range(Front(o))
  <2> SUFFICES ASSUME NEW i \in 1 .. (Len(o) - 1), o[i] = t PROVE FALSE
    BY <1>8 DEF Range
  <2>1. i \in DOMAIN o /\ i < Len(o)
    BY <1>2
  <2>2. t < t /\ t \in Nat
    BY <1>5, <1>6, <2>1
  <2> QED
    BY <2>2
<1>11. DOMAIN Front(o) \subseteq DOMAIN o
  BY <1>2, <1>8
<1> QED
  BY <1>4, <1>7, <1>8, <1>9, <1>10, <1>11

\* A method of the innermost class.
LEMMA FrameDefs ==
  ASSUME NEW h, NEW o, Defs(h, o), o # <<>>, NEW t, t = Last(o),
         NEW g, Good(g, {}), Frame(h, g, t)
  PROVE  Defs(g, o)
<1>1. Shape(h) /\ OpenOK(h, o)
  BY DEF Defs, Good
<1>2. \A i \in DOMAIN o : o[i] <= t
  BY <1>1, LastIs
<1>3. /\ DOMAIN g.types = DOMAIN h.types /\ ~g.failed
      /\ \A y \in DOMAIN h.types : /\ g.types[y].parents = h.types[y].parents
                                   /\ g.types[y].complete = h.types[y].complete
                                   /\ g.types[y].children = h.types[y].children
  BY DEF Frame, SameClasses, SameClass, Defs
<1>4. ASSUME NEW i \in DOMAIN o PROVE Settled(g, o[i])
  <2> DEFINE x == o[i]
             ps == h.types[x].parents
  <2>1. x \in DOMAIN h.types /\ Settled(h, x) /\ x <= t
    BY <1>1, <1>2 DEF OpenOK
  <2> HIDE DEF x
  <2>2. ps = <<>> \/ ps[1] # t
    <3>1. CASE ps # <<>>
      <4>1. ps[1] \in DOMAIN h.types /\ ps[1] < x /\ x \in Nat /\ ps[1] \in Nat
        BY <1>1, <2>1, <3>1, TypeFacts
      <4>2. t \in Nat
        BY <1>1, LastIs, TypeFacts
      <4> HIDE DEF ps
      <4> QED
        BY <2>1, <4>1, <4>2
    <3> QED
      BY <3>1
  <2>3. Settled(g, x)
    BY <2>1, <2>2 DEF Frame
  <2> QED
    BY <2>3 DEF x
<1>5. OpenOK(g, o)
  BY <1>1, <1>3, <1>4 DEF OpenOK
<1>6. ASSUME NEW p \in DOMAIN g.types PROVE KidsOK(g, o, p)
  <2>1. KidsOK(h, o, p)
    BY <1>3 DEF Defs
  <2>2. \A i \in DOMAIN h.types[p].children : h.types[p].children[i] \in DOMAIN h.types
    BY <1>1, <1>3 DEF Shape, Range
  <2> QED
    BY <1>3, <2>1, <2>2 DEF KidsOK
<1> QED
  BY <1>3, <1>5, <1>6 DEF Defs

LEMMA BeginDefs ==
  ASSUME NEW h, NEW o, Defs(h, o), NEW bases, MayDerive(h, bases), NEW abstract \in BOOLEAN,
         abstract => \E b \in Range(bases) : h.types[b].hasVTable,
         NEW g, g = emitBeginClass(h, bases, abstract)
  PROVE  Defs(g, Append(o, Len(h.types) + 1))
<1> DEFINE t == Len(h.types) + 1
           T == DOMAIN h.types
           q == Append(o, t)
<1>1. Good(h, {}) /\ ~h.failed /\ Shape(h) /\ OpenOK(h, o) /\ Object \in T
  BY DEF Defs, Good
<1>2. /\ Good(g, {}) /\ g.failed = h.failed
      /\ t # VTableBase /\ t \notin T
      /\ DOMAIN g.types = T \cup {t}
      /\ \A x \in T : /\ g.types[x].parents = h.types[x].parents
                      /\ g.types[x].complete = h.types[x].complete
                      /\ g.types[x].children = h.types[x].children
                      /\ Settled(g, x) <=> Settled(h, x)
      /\ g.types[t].complete = FALSE /\ g.types[t].children = <<>>
      /\ g.types[t].parents = bases
      /\ Settled(g, t)
  <2>1. Opened(h, g, bases)
    BY <1>1, BeginGood
  <2> QED
    BY <2>1 DEF Opened
<1>3. /\ Len(h.types) \in Nat /\ T = 1 .. Len(h.types)
  BY <1>1, LineageFacts DEF Shape
<1>4. \A x \in T : x < t
  BY <1>3
<1> HIDE DEF t
<1>5. IsSeq(o) /\ Len(o) \in Nat /\ DOMAIN o = 1 .. Len(o)
  BY <1>1, SeqFacts DEF OpenOK
<1>6. /\ IsSeq(q) /\ DOMAIN q = DOMAIN o \cup {Len(o) + 1}
      /\ Len(o) + 1 \notin DOMAIN o
      /\ \A i \in DOMAIN o : q[i] = o[i]
      /\ q[Len(o) + 1] = t
  BY <1>5, AppendIs
<1>7. \A i \in DOMAIN o : /\ o[i] \in T /\ o[i] # VTableBase
                          /\ ~h.types[o[i]].complete /\ Settled(h, o[i])
  BY <1>1 DEF OpenOK
<1> HIDE DEF q
<1>8. OpenOK(g, q)
  <2>1. ASSUME NEW i \in DOMAIN q
        PROVE  /\ q[i] \in DOMAIN g.types /\ q[i] # VTableBase
               /\ ~g.types[q[i]].complete /\ Settled(g, q[i])
    <3>1. CASE i \in DOMAIN o
      BY <1>2, <1>6, <1>7, <3>1
    <3>2. CASE i = Len(o) + 1
      BY <1>2, <1>6, <3>2
    <3> QED
      BY <1>6, <3>1, <3>2
  <2>2. ASSUME NEW i \in DOMAIN q, NEW j \in DOMAIN q, i < j PROVE q[i] < q[j]
    <3>1. CASE j \in DOMAIN o
      <4>1. i \in DOMAIN o
        BY <1>5, <1>6, <2>2, <3>1
      <4>2. o[i] < o[j]
        BY <1>1, <2>2, <3>1, <4>1 DEF OpenOK
      <4> QED
        BY <1>6, <3>1, <4>1, <4>2
    <3>2. CASE j = Len(o) + 1
      <4>1. i \in DOMAIN o
        BY <1>5, <1>6, <2>2, <3>2
      <4> QED
        BY <1>4, <1>6, <1>7, <3>2, <4>1
    <3> QED
      BY <1>6, <3>1, <3>2
  <2> QED
    BY <1>6, <2>1, <2>2 DEF OpenOK
<1>9. ASSUME NEW p \in DOMAIN g.types PROVE KidsOK(g, q, p)
  <2>1. CASE p = t
    <3>1. DOMAIN g.types[p].children = {}
      BY <1>2, <2>1
    <3> QED
      BY <3>1 DEF KidsOK
  <2>2. CASE p \in T
    <3>1. KidsOK(h, o, p)
      BY <2>2 DEF Defs
    <3>2. \A i \in DOMAIN h.types[p].children : h.types[p].children[i] \in T
      BY <1>1, <2>2 DEF Shape, Range
    <3>3. \A x \in T : x \notin Range(o) => x \notin Range(q)
      BY <1>2, <1>6 DEF Range
    <3> QED
      BY <1>2, <2>2, <3>1, <3>2, <3>3 DEF KidsOK
  <2> QED
    BY <1>2, <2>1, <2>2
<1>10. Object \in DOMAIN g.types /\ ~g.failed
  BY <1>1, <1>2
<1>11. Defs(g, q)
  BY <1>2, <1>8, <1>9, <1>10 DEF Defs
<1> QED
  BY <1>11 DEF q, t

\* A class that waits becomes the last child of its base.
Awaits(h, p, t) == [h EXCEPT !.types[p].children = Append(@, t)]

LEMMA WaitDefs ==
  ASSUME NEW h, NEW o, Defs(h, o), o # <<>>, NEW t, t = Last(o),
         NEW p \in DOMAIN h.types, h.types[t].parents = <<p>>, ~h.types[p].complete,
         NEW g, g = Awaits(h, p, t)
  PROVE  Defs(g, Front(o))
<1> DEFINE T == DOMAIN h.types
           ks == h.types[p].children
           c == [h.types[p] EXCEPT !.children = Append(ks, t)]
           q == Front(o)
<1>1. Good(h, {}) /\ ~h.failed /\ Shape(h) /\ OpenOK(h, o) /\ Object \in T /\ Classes(h)
  BY DEF Defs, Good
<1>2. /\ t \in T /\ t # VTableBase /\ ~h.types[t].complete
      /\ t \in Range(o) /\ IsSeq(q) /\ t \notin Range(q)
      /\ DOMAIN q \subseteq DOMAIN o /\ \A i \in DOMAIN q : q[i] = o[i]
  BY <1>1, LastIs
<1>3. p < t /\ IsSeq(ks) /\ \A k \in Range(ks) : k \in T /\ p < k
  <2>1. p \in Range(h.types[t].parents)
    BY DEF Range
  <2> QED
    BY <1>1, <1>2, <2>1, TypeFacts DEF Shape
<1>4. p # VTableBase
  BY <1>1 DEF Classes, RootOK
<1>5. /\ DOMAIN h = {"types", "funcs", "failed"} /\ IsSeq(h.types) /\ DOMAIN h.types[p] = TypeFields
      /\ \A y \in T : h.types[y].complete \in BOOLEAN
  BY <1>1 DEF Shape, Lineage
<1>6. g = [h EXCEPT !.types = [h.types EXCEPT ![p] = c]]
  BY DEF Awaits
<1>7. /\ DOMAIN c = TypeFields
      /\ c.parents = h.types[p].parents /\ c.hasVTable = h.types[p].hasVTable
      /\ c.abstract = h.types[p].abstract /\ c.first = h.types[p].first
      /\ c.next = h.types[p].next /\ c.complete = h.types[p].complete
      /\ c.children = Append(ks, t)
  <2> HIDE DEF ks
  <2> QED
    BY <1>5 DEF TypeFields
<1> HIDE DEF c, ks, q
<1>8. /\ DOMAIN g = {"types", "funcs", "failed"} /\ g.funcs = h.funcs
      /\ g.types = [h.types EXCEPT ![p] = c] /\ g.failed = h.failed
  BY <1>5, <1>6
<1>9. /\ IsSeq(g.types) /\ Len(g.types) = Len(h.types) /\ DOMAIN g.types = T
      /\ g.types[p] = c /\ \A y \in T : y # p => g.types[y] = h.types[y]
  BY <1>5, <1>8, ExceptIs
<1>10. /\ IsSeq(Append(ks, t)) /\ Len(ks) \in Nat /\ DOMAIN ks = 1 .. Len(ks)
       /\ DOMAIN Append(ks, t) = DOMAIN ks \cup {Len(ks) + 1}
       /\ Len(ks) + 1 \notin DOMAIN ks
       /\ \A i \in DOMAIN ks : Append(ks, t)[i] = ks[i]
       /\ Append(ks, t)[Len(ks) + 1] = t
  BY <1>3, AppendIs, SeqFacts
<1>11. ASSUME NEW y \in T
       PROVE  /\ SameClass(h.types[y], g.types[y])
              /\ g.types[y].next = h.types[y].next
              /\ g.types[y].complete = h.types[y].complete
              /\ y # p => g.types[y].children = h.types[y].children
  <2>1. CASE y = p
    BY <1>5, <1>7, <1>9, <2>1 DEF SameClass
  <2>2. CASE y # p
    BY <1>9, <2>2 DEF SameClass
  <2> QED
    BY <2>1, <2>2
<1>12. g.types[p].children = Append(ks, t)
  BY <1>7, <1>9
<1>13. Moved(h, g, p, 0, FALSE)
  <2>1. ASSUME NEW y \in T
        PROVE  /\ IsSeq(g.types[y].children)
               /\ \A k \in Range(g.types[y].children) : k \in T /\ y < k
    <3>1. CASE y = p
      <4>1. \A k \in Range(Append(ks, t)) : k \in T /\ p < k
        BY <1>2, <1>3, <1>10 DEF Range
      <4> QED
        BY <1>10, <1>12, <3>1, <4>1
    <3>2. CASE y # p
      BY <1>1, <1>11, <3>2 DEF Shape
    <3> QED
      BY <3>1, <3>2
  <2>2. SameClasses(h, g)
    BY <1>9, <1>11 DEF SameClasses
  <2>3. \A f \in DOMAIN h.funcs : DOMAIN h.funcs[f] = FuncFields /\ h.funcs[f].slot \in Nat
    BY <1>1 DEF Shape
  <2>4. IsSeq(h.funcs)
    BY <1>1 DEF Shape
  <2>5. \A y \in T : g.types[y].complete = (h.types[y].complete \/ (y = p /\ FALSE))
    BY <1>5, <1>11
  <2>6. \A f \in DOMAIN h.funcs :
          /\ DOMAIN g.funcs[f] = FuncFields
          /\ g.funcs[f].name = h.funcs[f].name
          /\ g.funcs[f].owner = h.funcs[f].owner
          /\ g.funcs[f].virtual = h.funcs[f].virtual
          /\ g.funcs[f].receiver = h.funcs[f].receiver
          /\ g.funcs[f].slot =
               IF /\ h.funcs[f].owner = p /\ h.funcs[f].virtual
                  /\ h.funcs[f].slot >= h.types[p].first
               THEN h.funcs[f].slot + 0 ELSE h.funcs[f].slot
    BY <1>8, <2>3
  <2> QED
    BY <1>8, <1>11, <2>1, <2>2, <2>4, <2>5, <2>6 DEF Moved
<1>14. MayMove(h, p, 0, FALSE)
  BY <1>4 DEF MayMove
<1>15. /\ Good(g, {})
       /\ \A y \in T : Settled(g, y) <=> Settled(h, y)
       /\ \A y \in T : Straight(g, y) <=> Straight(h, y)
  BY <1>1, <1>13, <1>14, MovedGood
<1>16. OpenOK(g, q)
  <2>1. \A i \in DOMAIN o : /\ o[i] \in T /\ o[i] # VTableBase
                            /\ ~h.types[o[i]].complete /\ Settled(h, o[i])
    BY <1>1 DEF OpenOK
  <2>2. \A i, j \in DOMAIN o : i < j => o[i] < o[j]
    BY <1>1 DEF OpenOK
  <2>3. ASSUME NEW i \in DOMAIN q
        PROVE  /\ q[i] \in T /\ q[i] # VTableBase
               /\ ~g.types[q[i]].complete /\ Settled(g, q[i])
    BY <1>2, <1>11, <1>15, <2>1
  <2>4. ASSUME NEW i \in DOMAIN q, NEW j \in DOMAIN q, i < j PROVE q[i] < q[j]
    <3>1. i \in DOMAIN o /\ j \in DOMAIN o /\ q[i] = o[i] /\ q[j] = o[j]
      BY <1>2
    <3> QED
      BY <2>2, <2>4, <3>1
  <2> QED
    BY <1>2, <1>9, <2>3, <2>4 DEF OpenOK
<1>17. \A x : x \notin Range(o) => x \notin Range(q)
  BY <1>2 DEF Range
<1>18. ASSUME NEW y \in DOMAIN g.types PROVE KidsOK(g, q, y)
  <2>1. KidsOK(h, o, y) /\ y \in T
    BY <1>9 DEF Defs
  <2>2. CASE y # p
    <3>1. \A i \in DOMAIN h.types[y].children : h.types[y].children[i] \in T
      BY <1>1, <2>1 DEF Shape, Range
    <3>2. \A x \in T : g.types[x].parents = h.types[x].parents /\ g.types[x].complete = h.types[x].complete
      BY <1>11 DEF SameClass
    <3> QED
      BY <1>11, <1>17, <2>1, <2>2, <3>1, <3>2 DEF KidsOK
  <2>3. CASE y = p
    <3> DEFINE ls == Append(ks, t)
    <3>1. \A i \in DOMAIN ks :
             /\ ~h.types[ks[i]].complete /\ h.types[ks[i]].parents = <<p>>
             /\ ks[i] \notin Range(o)
             /\ \A j \in DOMAIN ks : ks[j] = ks[i] => j = i
      BY <2>1, <2>3 DEF KidsOK, ks
    <3>2. \A i \in DOMAIN ks : ks[i] \in T /\ ks[i] # t
      BY <1>2, <1>3, <3>1 DEF Range
    <3>3. \A x \in T : g.types[x].parents = h.types[x].parents /\ g.types[x].complete = h.types[x].complete
      BY <1>11 DEF SameClass
    <3> HIDE DEF ls
    <3>4. /\ DOMAIN ls = DOMAIN ks \cup {Len(ks) + 1}
          /\ Len(ks) + 1 \notin DOMAIN ks
          /\ \A i \in DOMAIN ks : ls[i] = ks[i]
          /\ ls[Len(ks) + 1] = t
      BY <1>10 DEF ls
    <3>5. ASSUME NEW i \in DOMAIN ls
          PROVE  /\ ~g.types[ls[i]].complete
                 /\ g.types[ls[i]].parents = <<p>>
                 /\ ls[i] \notin Range(q)
                 /\ \A j \in DOMAIN ls : ls[j] = ls[i] => j = i
      <4>1. CASE i \in DOMAIN ks
        BY <1>17, <3>1, <3>2, <3>3, <3>4, <4>1
      <4>2. CASE i = Len(ks) + 1
        BY <1>2, <3>2, <3>3, <3>4, <4>2
      <4> QED
        BY <3>4, <4>1, <4>2
    <3>6. g.types[y].children = ls
      BY <1>12, <2>3 DEF ls
    <3> QED
      BY <2>3, <3>5, <3>6 DEF KidsOK
  <2> QED
    BY <2>2, <2>3
<1>19. Object \in DOMAIN g.types /\ ~g.failed
  BY <1>1, <1>8, <1>9
<1>20. Defs(g, q)
  BY <1>15, <1>16, <1>18, <1>19 DEF Defs
<1> QED
  BY <1>20 DEF q

\* The class that ends is complete with those that wait for it, or waits itself.
LEMMA EndDefs ==
  ASSUME NEW h, NEW o, Defs(h, o), o # <<>>, NEW t, t = Last(o),
         NEW g, g = emitEndClass(h, t)
  PROVE  Defs(g, Front(o))
<1> DEFINE T == DOMAIN h.types
           waits == {b \in Range(h.types[t].parents) : ~h.types[b].complete}
           q == Front(o)
<1>1. Good(h, {}) /\ ~h.failed /\ Shape(h) /\ OpenOK(h, o) /\ Object \in T /\ Classes(h)
  BY DEF Defs, Good
<1>2. /\ t \in T /\ t # VTableBase /\ ~h.types[t].complete
      /\ t \in Range(o) /\ IsSeq(q) /\ t \notin Range(q)
      /\ DOMAIN q \subseteq DOMAIN o /\ \A i \in DOMAIN q : q[i] = o[i]
  BY <1>1, LastIs
<1>3. \A b \in Range(h.types[t].parents) : b \in T
  BY <1>1, <1>2, TypeFacts
<1>4. CASE waits = {}
  <2> DEFINE ks == h.types[t].children
             K == {t} \cup Range(ks)
  <2>1. Closed(h, t)
    BY <1>3, <1>4 DEF Closed
  <2>2. Cardinality(waits) = 0
    BY <1>4, FS_EmptySet
  <2>3. g = fixIncompletes(h, t)
    BY <2>2 DEF emitEndClass
  <2>4. \A p \in T : KidsOK(h, o, p)
    BY DEF Defs
  <2>5. Good(g, {}) /\ ~g.failed /\ AllFinished(h, g, K)
    BY <1>1, <1>2, <2>1, <2>3, <2>4, FixIncompletesGood
  <2>6. /\ IsSeq(ks)
        /\ \A i \in DOMAIN ks : /\ h.types[ks[i]].parents = <<t>> /\ ks[i] \notin Range(o)
    BY <1>1, <1>2, <2>4 DEF Shape, KidsOK
  <2> HIDE DEF ks
  <2>7. \A y \in K : y = t \/ (h.types[y].parents = <<t>> /\ y \notin Range(o))
    BY <2>6 DEF Range
  <2> HIDE DEF K, q
  <2>8. /\ DOMAIN g.types = T
        /\ \A y \in T : /\ g.types[y].parents = h.types[y].parents
                        /\ g.types[y].children = h.types[y].children
                        /\ g.types[y].complete = (h.types[y].complete \/ y \in K)
                        /\ Settled(g, y) <=> Settled(h, y)
    BY <2>5 DEF AllFinished
  <2>9. OpenOK(g, q)
    <3>1. \A i \in DOMAIN o : /\ o[i] \in T /\ o[i] # VTableBase
                              /\ ~h.types[o[i]].complete /\ Settled(h, o[i])
      BY <1>1 DEF OpenOK
    <3>2. \A i, j \in DOMAIN o : i < j => o[i] < o[j]
      BY <1>1 DEF OpenOK
    <3>3. \A i \in DOMAIN q : q[i] \notin K
      <4>1. \A i \in DOMAIN q : q[i] # t /\ q[i] \in Range(o)
        BY <1>2 DEF Range
      <4> QED
        BY <2>7, <4>1
    <3>4. ASSUME NEW i \in DOMAIN q
          PROVE  /\ q[i] \in T /\ q[i] # VTableBase
                 /\ ~g.types[q[i]].complete /\ Settled(g, q[i])
      <4>1. q[i] \notin K /\ q[i] = o[i] /\ i \in DOMAIN o
        BY <1>2, <3>3
      <4> QED
        BY <2>8, <3>1, <4>1
    <3>5. ASSUME NEW i \in DOMAIN q, NEW j \in DOMAIN q, i < j PROVE q[i] < q[j]
      <4>1. i \in DOMAIN o /\ j \in DOMAIN o /\ q[i] = o[i] /\ q[j] = o[j]
        BY <1>2
      <4> QED
        BY <3>2, <3>5, <4>1
    <3> QED
      BY <1>2, <2>8, <3>4, <3>5 DEF OpenOK
  <2>10. ASSUME NEW p \in DOMAIN g.types PROVE KidsOK(g, q, p)
    <3> DEFINE ps == h.types[p].children
    <3>1. \A i \in DOMAIN ps : ps[i] \in T
      BY <1>1, <2>8 DEF Shape, Range
    <3>2. CASE p \in K \/ h.types[p].complete
      <4>1. g.types[p].complete
        BY <2>8, <3>2
      <4> QED
        BY <4>1 DEF KidsOK
    <3>3. CASE ~(p \in K \/ h.types[p].complete)
      <4>1. \A i \in DOMAIN ps :
               /\ ~h.types[ps[i]].complete /\ h.types[ps[i]].parents = <<p>>
               /\ ps[i] \notin Range(o)
               /\ \A j \in DOMAIN ps : ps[j] = ps[i] => j = i
        BY <2>4, <2>8, <3>3 DEF KidsOK
      <4>2. p # t /\ <<p>> # <<t>>
        <5>1. p # t
          BY <2>5, <3>3 DEF K
        <5> QED
          BY <5>1
      <4>3. \A i \in DOMAIN ps : ps[i] \notin K
        BY <1>2, <2>7, <4>1, <4>2
      <4>4. \A x : x \notin Range(o) => x \notin Range(q)
        BY <1>2 DEF Range
      <4>5. g.types[p].children = ps
        BY <2>8
      <4> HIDE DEF ps
      <4>6. ASSUME NEW i \in DOMAIN ps
            PROVE  /\ ~g.types[ps[i]].complete
                   /\ g.types[ps[i]].parents = <<p>>
                   /\ ps[i] \notin Range(q)
                   /\ \A j \in DOMAIN ps : ps[j] = ps[i] => j = i
        <5>1. ps[i] \in T /\ ps[i] \notin K /\ ~h.types[ps[i]].complete
          BY <3>1, <4>1, <4>3
        <5>2. ~g.types[ps[i]].complete /\ g.types[ps[i]].parents = <<p>>
          BY <2>8, <4>1, <5>1
        <5> QED
          BY <4>1, <4>4, <5>2
      <4> QED
        BY <4>5, <4>6 DEF KidsOK
    <3> QED
      BY <3>2, <3>3
  <2>11. Object \in DOMAIN g.types /\ ~g.failed
    BY <1>1, <2>5, <2>8
  <2>12. Defs(g, q)
    BY <2>5, <2>9, <2>10, <2>11 DEF Defs
  <2> QED
    BY <2>12 DEF q
<1>5. CASE waits # {}
  <2>1. PICK p \in waits : TRUE
    BY <1>5
  <2>2. p \in T /\ ~h.types[p].complete /\ h.types[t].parents = <<p>>
    BY <1>1, <1>2, <1>3, <2>1 DEF Classes, ClassOK
  <2>3. waits = {p}
    <3>1. Range(<<p>>) = {p}
      BY DEF Range
    <3> QED
      BY <2>2, <3>1
  <2>4. Cardinality(waits) = 1 /\ (CHOOSE b \in waits : TRUE) = p
    BY <2>3, FS_Singleton
  <2>5. g = Awaits(h, p, t)
    <3> DEFINE n == Cardinality(waits)
               c == CHOOSE b \in waits : TRUE
    <3>1. emitEndClass(h, t) =
            CASE n = 0 -> fixIncompletes(h, t)
              [] n = 1 -> Awaits(h, c, t)
              [] OTHER -> [h EXCEPT !.failed = TRUE]
      BY Zenon DEF emitEndClass, Awaits
    <3>2. n = 1 /\ c = p
      BY <2>4
    <3> HIDE DEF n, c
    <3> QED
      BY <3>1, <3>2
  <2> QED
    BY <2>2, <2>5, WaitDefs
<1> QED
  BY <1>4, <1>5
-----------------------------------------------------------------------------
(* The actions of the parser.                                              *)

\* The forms for which the checks of the builder may fail, or an instance may
\* be wrong.
RareForms == {"nested in both", "nested with another", "nested further",
              "nested in several", "moved", "no vtable first"}

Waits(bases) == {b \in Range(bases) : ~m.types[b].complete}
Simple(b) == /\ Contains(open, b)
             /\ \A p \in Range(m.types[b].parents) : m.types[p].complete
Forked(b) == \E a \in Ancestors(m, b) : \E p, q \in Range(m.types[a].parents) :
                p # q /\ m.types[p].hasVTable /\ m.types[q].hasVTable
IsMoved(b) ==
  /\ m.types[b].hasVTable /\ m.types[b].parents # <<>>
  /\ m.types[b].first < m.types[m.types[b].parents[1]].next
WithVTable(bases) == {i \in DOMAIN bases : m.types[bases[i]].hasVTable}
Derived(bases) == {i \in 2 .. Len(bases) : m.types[bases[i]].hasVTable}

LEMMA FormIs ==
  ASSUME NEW bases, Form(bases) \notin RareForms
  PROVE  /\ Waits(bases) # {} => /\ ~(Len(bases) > 1) /\ Simple(bases[1]) /\ ~Forked(bases[1])
         /\ Waits(bases) = {} =>
              /\ ~\E b \in Range(bases) : IsMoved(b)
              /\ \/ WithVTable(bases) = {} \/ Len(bases) <= 1
                 \/ bases[1] = VTableBase \/ m.types[bases[1]].hasVTable
                 \/ Derived(bases) = {}
<1> DEFINE both == Cardinality(Waits(bases)) > 1
           waits == Waits(bases) # {}
           another == Len(bases) > 1
           simple == Simple(bases[1])
           forked == Forked(bases[1])
           del == lookUp(m, bases[1], "oper del")
           rooted == del = 0 \/ ~m.funcs[del].virtual
           moved == \E b \in Range(bases) : IsMoved(b)
           plain == WithVTable(bases) = {}
           single == Len(bases) <= 1
           root == bases[1] = VTableBase
           derived == Derived(bases) # {}
           first == m.types[bases[1]].hasVTable
<1>1. Form(bases) =
        IF both THEN "nested in both"
        ELSE IF waits THEN
             IF another THEN "nested with another"
             ELSE IF ~simple THEN "nested further"
             ELSE IF forked THEN "nested in several"
             ELSE IF rooted THEN "nested in root" ELSE "nested"
        ELSE IF moved THEN "moved"
        ELSE IF plain THEN "plain"
        ELSE IF single THEN "single"
        ELSE IF root /\ derived THEN "root and another"
        ELSE IF ~first /\ derived THEN "no vtable first" ELSE "several"
  BY Zenon DEF Form, Waits, Simple, Forked, IsMoved, WithVTable, Derived
<1> HIDE DEF both, waits, another, simple, forked, rooted, moved, plain, single, root, derived, first
<1>2. /\ waits => ~another /\ simple /\ ~forked
      /\ ~waits => ~moved /\ (plain \/ single \/ root \/ first \/ ~derived)
  <2>1. /\ ~both
        /\ waits => ~another /\ simple /\ ~forked
        /\ ~waits => ~moved
    BY <1>1 DEF RareForms
  <2>2. ~waits => (plain \/ single \/ root \/ first \/ ~derived)
    BY <1>1, <2>1 DEF RareForms
  <2> QED
    BY <2>1, <2>2
<1> QED
  BY <1>2 DEF waits, another, simple, forked, moved, plain, single, root, derived, first

\* Every other list of bases may begin a class.
LEMMA FormDerives ==
  ASSUME DefsInv, NEW bases, IsSeq(bases), Range(bases) \subseteq DOMAIN m.types,
         Form(bases) \notin RareForms
  PROVE  MayDerive(m, bases)
<1>1. /\ Shape(m) /\ Classes(m) /\ OpenOK(m, open) /\ RootOK(m)
      /\ Len(bases) \in Nat /\ DOMAIN bases = 1 .. Len(bases)
  BY SeqFacts DEF DefsInv, Defs, Good, Classes
<1>2. /\ Waits(bases) # {} => /\ ~(Len(bases) > 1) /\ Simple(bases[1]) /\ ~Forked(bases[1])
      /\ Waits(bases) = {} =>
           /\ ~\E b \in Range(bases) : IsMoved(b)
           /\ \/ WithVTable(bases) = {} \/ Len(bases) <= 1
              \/ bases[1] = VTableBase \/ m.types[bases[1]].hasVTable
              \/ Derived(bases) = {}
  BY FormIs
<1>3. CASE Waits(bases) # {}
  <2> DEFINE b == bases[1]
  <2>1. Len(bases) = 1
    <3>1. Range(bases) # {}
      BY <1>3 DEF Waits
    <3>2. Len(bases) # 0
      BY <1>1, <3>1 DEF Range
    <3> QED
      BY <1>1, <1>2, <1>3, <3>2
  <2>2. Range(bases) = {b} /\ bases = <<b>> /\ b \in DOMAIN m.types
    <3>1. DOMAIN bases = {1}
      BY <1>1, <2>1
    <3>2. Range(bases) = {b}
      BY <3>1 DEF Range
    <3>3. bases = <<b>>
      BY <2>1 DEF IsSeq
    <3> QED
      BY <3>2, <3>3
  <2>3. Simple(b) /\ ~Forked(b)
    BY <1>2, <1>3
  <2> HIDE DEF b
  <2>4. PICK i \in DOMAIN open : open[i] = b
    BY <1>1, <2>3, SeqFacts DEF Simple, Contains, OpenOK
  <2>5. Settled(m, b)
    BY <1>1, <2>4 DEF OpenOK
  <2>6. Closed(m, b)
    BY <2>3 DEF Simple, Closed
  <2>7. Straight(m, b)
    BY <2>3 DEF Forked, Straight
  <2>8. \A x \in Range(bases) : x = b /\ x = bases[1]
    BY <2>2 DEF b
  <2> QED
    BY <2>2, <2>5, <2>6, <2>7, <2>8 DEF MayDerive
<1>4. CASE Waits(bases) = {}
  <2>1. \A b \in Range(bases) : m.types[b].complete
    BY <1>4 DEF Waits
  <2>2. ASSUME NEW b \in Range(bases) PROVE Settled(m, b) /\ Closed(m, b)
    <3>1. CASE b = VTableBase
      <4>1. Range(<<>>) = {}
        BY DEF Range
      <4> QED
        BY <1>1, <3>1, <4>1 DEF Settled, Closed, RootOK
    <3>2. CASE b # VTableBase
      <4>1. ClassOK(m, b) /\ b \in DOMAIN m.types
        BY <1>1, <3>2 DEF Classes
      <4>2. Closed(m, b)
        BY <2>1, <4>1 DEF ClassOK
      <4>3. ASSUME m.types[b].hasVTable
            PROVE  m.types[b].first = m.types[m.types[b].parents[1]].next
        <5>1. /\ m.types[b].parents # <<>>
              /\ m.types[b].first <= m.types[m.types[b].parents[1]].next
          BY <4>1, <4>3 DEF ClassOK
        <5>2. ~(m.types[b].first < m.types[m.types[b].parents[1]].next)
          BY <1>2, <1>4, <4>3, <5>1 DEF IsMoved
        <5>3. /\ m.types[b].first \in Nat
              /\ m.types[m.types[b].parents[1]].next \in Nat
          BY <1>1, <4>1, <5>1, TypeFacts
        <5> QED
          BY <5>1, <5>2, <5>3
      <4> QED
        BY <4>2, <4>3 DEF Settled
    <3> QED
      BY <3>1, <3>2
  <2>3. ASSUME NEW b \in Range(bases), m.types[b].hasVTable
        PROVE  m.types[bases[1]].hasVTable
    <3>1. PICK i \in DOMAIN bases : bases[i] = b
      BY DEF Range
    <3>2. CASE i = 1
      BY <2>3, <3>1, <3>2
    <3>3. CASE i # 1
      <4>1. i \in Derived(bases) /\ i \in WithVTable(bases) /\ ~(Len(bases) <= 1)
        BY <1>1, <2>3, <3>1, <3>3 DEF Derived, WithVTable
      <4>2. bases[1] = VTableBase \/ m.types[bases[1]].hasVTable
        BY <1>2, <1>4, <4>1
      <4> QED
        BY <1>1, <4>2 DEF RootOK
    <3> QED
      BY <3>2, <3>3
  <2> QED
    BY <2>1, <2>2, <2>3 DEF MayDerive
<1> QED
  BY <1>3, <1>4

Flagged(h, t, fl) == [h EXCEPT !.types[t].flags = fl]
OfKind(h, e, kind) == [h EXCEPT !.funcs[e].kind = kind]

LEMMA FlagsAlike ==
  ASSUME NEW h, NEW o, Defs(h, o), NEW t \in DOMAIN h.types, NEW fl,
         NEW g, g = Flagged(h, t, fl)
  PROVE  Alike(h, g, t)
<1> DEFINE c == [h.types[t] EXCEPT !.flags = fl]
           T == DOMAIN h.types
<1>1. Shape(h)
  BY DEF Defs, Good
<1>2. /\ DOMAIN h = {"types", "funcs", "failed"} /\ IsSeq(h.types) /\ DOMAIN h.types[t] = TypeFields
      /\ IsSeq(h.funcs)
      /\ \A y \in T : /\ h.types[y].complete \in BOOLEAN
                      /\ IsSeq(h.types[y].children)
                      /\ \A k \in Range(h.types[y].children) : k \in T /\ y < k
      /\ \A f \in DOMAIN h.funcs : DOMAIN h.funcs[f] = FuncFields /\ h.funcs[f].slot \in Nat
  BY <1>1 DEF Shape, Lineage
<1>3. g = [h EXCEPT !.types = [h.types EXCEPT ![t] = c]]
  BY DEF Flagged
<1>4. /\ DOMAIN c = TypeFields
      /\ c.parents = h.types[t].parents /\ c.hasVTable = h.types[t].hasVTable
      /\ c.abstract = h.types[t].abstract /\ c.first = h.types[t].first
      /\ c.next = h.types[t].next /\ c.complete = h.types[t].complete
      /\ c.children = h.types[t].children
  BY <1>2 DEF TypeFields
<1> HIDE DEF c
<1>5. /\ DOMAIN g = {"types", "funcs", "failed"} /\ g.funcs = h.funcs
      /\ g.types = [h.types EXCEPT ![t] = c] /\ g.failed = h.failed
  BY <1>2, <1>3
<1>6. /\ IsSeq(g.types) /\ Len(g.types) = Len(h.types) /\ DOMAIN g.types = T
      /\ g.types[t] = c /\ \A y \in T : y # t => g.types[y] = h.types[y]
  BY <1>2, <1>5, ExceptIs
<1>7. ASSUME NEW y \in T
      PROVE  /\ SameClass(h.types[y], g.types[y])
             /\ g.types[y].next = h.types[y].next
             /\ g.types[y].complete = h.types[y].complete
             /\ g.types[y].children = h.types[y].children
  <2>1. CASE y = t
    BY <1>2, <1>4, <1>6, <2>1 DEF SameClass
  <2>2. CASE y # t
    BY <1>6, <2>2 DEF SameClass
  <2> QED
    BY <2>1, <2>2
<1>8. SameClasses(h, g)
  BY <1>6, <1>7 DEF SameClasses
<1>9. \A y \in T : g.types[y].complete = (h.types[y].complete \/ (y = t /\ FALSE))
  BY <1>2, <1>7
<1>10. \A f \in DOMAIN h.funcs :
         /\ DOMAIN g.funcs[f] = FuncFields
         /\ g.funcs[f].name = h.funcs[f].name
         /\ g.funcs[f].owner = h.funcs[f].owner
         /\ g.funcs[f].virtual = h.funcs[f].virtual
         /\ g.funcs[f].receiver = h.funcs[f].receiver
         /\ g.funcs[f].slot =
              IF /\ h.funcs[f].owner = t /\ h.funcs[f].virtual
                 /\ h.funcs[f].slot >= h.types[t].first
              THEN h.funcs[f].slot + 0 ELSE h.funcs[f].slot
  BY <1>2, <1>5
<1>11. Moved(h, g, t, 0, FALSE)
  BY <1>2, <1>5, <1>7, <1>8, <1>9, <1>10 DEF Moved
<1> QED
  BY <1>5, <1>7, <1>11 DEF Alike

LEMMA KindAlike ==
  ASSUME NEW h, NEW o, Defs(h, o), NEW t \in DOMAIN h.types,
         NEW e \in DOMAIN h.funcs, NEW kind,
         NEW g, g = OfKind(h, e, kind)
  PROVE  Alike(h, g, t)
<1> DEFINE c == [h.funcs[e] EXCEPT !.kind = kind]
           T == DOMAIN h.types
           F == DOMAIN h.funcs
<1>1. Shape(h)
  BY DEF Defs, Good
<1>2. /\ DOMAIN h = {"types", "funcs", "failed"} /\ IsSeq(h.types)
      /\ IsSeq(h.funcs)
      /\ \A y \in T : /\ h.types[y].complete \in BOOLEAN
                      /\ IsSeq(h.types[y].children)
                      /\ \A k \in Range(h.types[y].children) : k \in T /\ y < k
      /\ \A f \in F : DOMAIN h.funcs[f] = FuncFields /\ h.funcs[f].slot \in Nat
  BY <1>1 DEF Shape, Lineage
<1>3. g = [h EXCEPT !.funcs = [h.funcs EXCEPT ![e] = c]]
  BY DEF OfKind
<1>4. /\ DOMAIN c = FuncFields
      /\ c.name = h.funcs[e].name /\ c.owner = h.funcs[e].owner
      /\ c.virtual = h.funcs[e].virtual /\ c.receiver = h.funcs[e].receiver
      /\ c.slot = h.funcs[e].slot
  BY <1>2 DEF FuncFields
<1> HIDE DEF c
<1>5. /\ DOMAIN g = {"types", "funcs", "failed"} /\ g.types = h.types
      /\ g.funcs = [h.funcs EXCEPT ![e] = c] /\ g.failed = h.failed
  BY <1>2, <1>3
<1>6. /\ IsSeq(g.funcs) /\ DOMAIN g.funcs = F
      /\ g.funcs[e] = c
      /\ \A f \in F : f # e => g.funcs[f] = h.funcs[f]
  <2> DEFINE s == h.funcs
             u == g.funcs
  <2>1. IsSeq(s) /\ u = [s EXCEPT ![e] = c] /\ e \in DOMAIN s
    BY <1>2, <1>5
  <2> HIDE DEF s, u
  <2>2. IsSeq(u) /\ DOMAIN u = DOMAIN s
    BY <2>1, ExceptIs
  <2>3. u[e] = c /\ \A f \in DOMAIN s : f # e => u[f] = s[f]
    BY <2>1, ExceptIs
  <2> QED
    BY <2>2, <2>3 DEF s, u
<1>7. ASSUME NEW f \in F
      PROVE  /\ DOMAIN g.funcs[f] = FuncFields
             /\ g.funcs[f].name = h.funcs[f].name
             /\ g.funcs[f].owner = h.funcs[f].owner
             /\ g.funcs[f].virtual = h.funcs[f].virtual
             /\ g.funcs[f].receiver = h.funcs[f].receiver
             /\ g.funcs[f].slot = h.funcs[f].slot
  <2>1. CASE f = e
    BY <1>2, <1>4, <1>6, <2>1
  <2>2. CASE f # e
    BY <1>2, <1>6, <2>2
  <2> QED
    BY <2>1, <2>2
<1>8. SameClasses(h, g)
  BY <1>2, <1>5 DEF SameClasses, SameClass
<1>9. \A y \in T : g.types[y].complete = (h.types[y].complete \/ (y = t /\ FALSE))
  BY <1>2, <1>5
<1>10. \A f \in F :
         g.funcs[f].slot =
              IF /\ h.funcs[f].owner = t /\ h.funcs[f].virtual
                 /\ h.funcs[f].slot >= h.types[t].first
              THEN h.funcs[f].slot + 0 ELSE h.funcs[f].slot
  BY <1>2, <1>7
<1>11. Moved(h, g, t, 0, FALSE)
  BY <1>2, <1>5, <1>6, <1>7, <1>8, <1>9, <1>10 DEF Moved
<1> QED
  BY <1>5, <1>11 DEF Alike

\* A derivation that was allowed still is.
LEMMA DeriveAlike ==
  ASSUME NEW h, NEW o, Defs(h, o), NEW x \in DOMAIN h.types, x # VTableBase,
         NEW g, Alike(h, g, x), NEW bases, MayDerive(h, bases)
  PROVE  MayDerive(g, bases)
<1>1. /\ SameClasses(h, g)
      /\ \A y \in DOMAIN h.types :
            /\ g.types[y].complete = h.types[y].complete
            /\ Settled(g, y) <=> Settled(h, y)
            /\ Closed(g, y) <=> Closed(h, y)
            /\ Straight(g, y) <=> Straight(h, y)
  BY AlikeDefs
<1>2. /\ DOMAIN g.types = DOMAIN h.types
      /\ \A y \in DOMAIN h.types : g.types[y].hasVTable = h.types[y].hasVTable
  BY <1>1 DEF SameClasses, SameClass
<1>3. IsSeq(bases) /\ Range(bases) \subseteq DOMAIN h.types
  BY DEF MayDerive
<1>4. ASSUME NEW b \in Range(bases), g.types[b].hasVTable PROVE g.types[bases[1]].hasVTable
  <2>1. h.types[b].hasVTable /\ h.types[bases[1]].hasVTable
    BY <1>2, <1>3, <1>4 DEF MayDerive
  <2>2. bases[1] \in Range(bases)
    <3>1. PICK i \in DOMAIN bases : bases[i] = b
      BY DEF Range
    <3>2. 1 \in DOMAIN bases
      BY <1>3, <3>1, SeqFacts
    <3> QED
      BY <3>2 DEF Range
  <2> QED
    BY <1>2, <1>3, <2>1, <2>2
<1>5. ASSUME NEW b \in Range(bases)
      PROVE  /\ Settled(g, b) /\ Closed(g, b)
             /\ ~g.types[b].complete => bases = <<b>> /\ Straight(g, b)
  BY <1>1, <1>3 DEF MayDerive
<1> QED
  BY <1>2, <1>3, <1>4, <1>5 DEF MayDerive

\* Cur is a class that is not complete.
LEMMA CurIs ==
  ASSUME DefsInv, open # <<>>
  PROVE  /\ Cur \in DOMAIN m.types /\ Cur # VTableBase
         /\ ~m.types[Cur].complete /\ Settled(m, Cur)
         /\ m.types[Cur].hasVTable \in BOOLEAN
         /\ m.types[Cur].abstract => m.types[Cur].hasVTable
<1>1. Shape(m) /\ Classes(m) /\ OpenOK(m, open)
  BY DEF DefsInv, Defs, Good
<1>2. Cur \in DOMAIN m.types /\ Cur # VTableBase /\ ~m.types[Cur].complete /\ Settled(m, Cur)
  BY <1>1, LastIs DEF Cur
<1>3. ClassOK(m, Cur) /\ m.types[Cur].hasVTable \in BOOLEAN
  BY <1>1, <1>2, TypeFacts DEF Classes
<1> QED
  BY <1>2, <1>3 DEF ClassOK

LEMMA BeginStep ==
  ASSUME DefsInv, Forms \intersect RareForms = {}, NEW bases \in BaseLists,
         NEW abstract \in BOOLEAN, BeginClass(bases, abstract)
  PROVE  DefsInv'
<1> DEFINE given == IF bases = <<>> THEN <<Object>> ELSE bases
           flagged == IF abstract /\ open # <<>> THEN Flagged(m, Cur, "none") ELSE m
<1>1. Shape(m) /\ Object \in DOMAIN m.types /\ Defs(m, open)
  BY DEF DefsInv, Defs, Good
<1>2. /\ Form(given) \in Forms
      /\ abstract => \E b \in Range(given) : m.types[b].hasVTable
      /\ m' = emitBeginClass(flagged, given, abstract)
      /\ open' = Append(open, Len(m.types) + 1)
  BY Zenon DEF BeginClass, Flagged
<1>3. IsSeq(given) /\ Range(given) \subseteq DOMAIN m.types
  <2>1. CASE bases = <<>>
    <3>1. given = <<Object>>
      BY <2>1
    <3>2. <<Object>> \in Seq({Object}) /\ Range(<<Object>>) = {Object}
      BY DEF Range
    <3> HIDE DEF given
    <3> QED
      BY <1>1, <3>1, <3>2 DEF IsSeq
  <2>2. CASE bases # <<>>
    <3>1. PICK k \in 0 .. 2 : bases \in [1 .. k -> DOMAIN m.types]
      BY DEF BaseLists
    <3>2. bases \in [1 .. k -> Range(bases)] /\ Range(bases) \subseteq DOMAIN m.types
      BY <3>1 DEF Range
    <3>3. bases \in Seq(Range(bases))
      BY <3>2, FunctionIsSeq
    <3> QED
      BY <2>2, <3>2, <3>3 DEF IsSeq
  <2> QED
    BY <2>1, <2>2
<1> HIDE DEF given
<1>4. MayDerive(m, given)
  <2>1. Form(given) \notin RareForms
    BY <1>2
  <2> QED
    BY <1>3, <2>1, FormDerives
<1>5. /\ Defs(flagged, open) /\ MayDerive(flagged, given) /\ SameClasses(m, flagged)
  <2>1. CASE abstract /\ open # <<>>
    <3>1. Alike(m, flagged, Cur) /\ Cur \in DOMAIN m.types /\ Cur # VTableBase
      <4>1. Cur \in DOMAIN m.types /\ Cur # VTableBase
        BY <2>1, CurIs
      <4>2. flagged = Flagged(m, Cur, "none")
        BY <2>1
      <4> HIDE DEF flagged
      <4> QED
        BY <1>1, <4>1, <4>2, FlagsAlike
    <3> HIDE DEF flagged
    <3>2. Defs(flagged, open) /\ SameClasses(m, flagged)
      BY <1>1, <3>1, AlikeDefs
    <3>3. MayDerive(flagged, given)
      BY <1>1, <1>4, <3>1, DeriveAlike
    <3> QED
      BY <3>2, <3>3
  <2>2. CASE ~(abstract /\ open # <<>>)
    <3>1. flagged = m
      BY <2>2
    <3>2. SameClasses(m, m)
      BY <1>1 DEF SameClasses, SameClass, Shape, Lineage
    <3> HIDE DEF flagged
    <3> QED
      BY <1>1, <1>4, <3>1, <3>2
  <2> QED
    BY <2>1, <2>2
<1> HIDE DEF flagged
<1>6. abstract => \E b \in Range(given) : flagged.types[b].hasVTable
  BY <1>2, <1>3, <1>5 DEF SameClasses, SameClass
<1>7. Len(flagged.types) = Len(m.types)
  BY <1>5 DEF SameClasses
<1>8. Defs(m', Append(open, Len(flagged.types) + 1))
  BY <1>2, <1>5, <1>6, BeginDefs
<1> QED
  BY <1>2, <1>7, <1>8 DEF DefsInv

\* A method of the class that is open.
LEMMA MethodDefs ==
  ASSUME DefsInv, open # <<>>, NEW n, n # "oper class", NEW v \in BOOLEAN,
         v => m.types[Cur].hasVTable, NEW kind, NEW e,
         v /\ e # 0 => e = lookUp(m, Cur, n) /\ m.funcs[e].virtual,
         NEW g, g = addMethod(m, Cur, n, v, kind, e)
  PROVE  Defs(g, open) /\ Cur \in DOMAIN g.types
<1>1. Shape(m) /\ Classes(m) /\ Good(m, {}) /\ Defs(m, open) /\ \A f \in DOMAIN m.funcs : FunctionOK(m, f)
  BY DEF DefsInv, Defs, Good
<1> DEFINE t == Cur
<1>2. t \in DOMAIN m.types /\ t # VTableBase /\ ~m.types[t].complete /\ Settled(m, t)
  BY CurIs
<1>3. g = addMethod(m, t, n, v, kind, e) /\ t = Last(open) /\ (v => m.types[t].hasVTable)
  BY DEF Cur
<1>4. v /\ e # 0 =>
        /\ e \in DOMAIN m.funcs
        /\ m.funcs[e].owner \in Ancestors(m, t)
        /\ m.funcs[e].virtual /\ Straight(m, t) /\ Settled(m, t) =>
              (m.funcs[e].owner # t => m.funcs[e].slot < m.types[t].first)
  <2> DEFINE l == lookUp(m, t, n)
  <2>1. l # 0 =>
          /\ l \in DOMAIN m.funcs
          /\ m.funcs[l].owner \in Ancestors(m, t)
          /\ m.funcs[l].virtual /\ Straight(m, t) /\ Settled(m, t) =>
                (m.funcs[l].owner # t => m.funcs[l].slot < m.types[t].first)
    BY <1>1, <1>2, LookUpIs
  <2>2. v /\ e # 0 => e = l
    OBVIOUS
  <2> HIDE DEF l
  <2> QED
    BY <2>1, <2>2
<1>5. v /\ e # 0 => m.funcs[e].virtual
  OBVIOUS
<1> HIDE DEF t
<1>6. MayAdd(m, t, n, v, e)
  BY <1>2, <1>3, <1>4, <1>5 DEF MayAdd
<1>7. Good(g, Without({}, n, t)) /\ Frame(m, g, t)
  BY <1>1, <1>2, <1>3, <1>6, AddMethodFrame
<1>8. Without({}, n, t) = {}
  BY DEF Without
<1>9. Good(g, {})
  BY <1>7, <1>8
<1>10. Defs(g, open)
  BY <1>1, <1>3, <1>7, <1>9, FrameDefs
<1>11. t \in DOMAIN g.types
  BY <1>2, <1>7 DEF Frame, SameClasses
<1> QED
  BY <1>10, <1>11 DEF t

LEMMA SetFlagsDefs ==
  ASSUME NEW h, Defs(h, open), open # <<>>, NEW flags
  PROVE  Defs(SetFlags(h, flags), open)
<1> DEFINE g == SetFlags(h, flags)
<1>1. g = Flagged(h, Cur, flags)
  BY DEF SetFlags, Flagged
<1>2. Shape(h) /\ OpenOK(h, open)
  BY DEF Defs, Good
<1>3. Cur \in DOMAIN h.types /\ Cur # VTableBase
  BY <1>2, LastIs DEF Cur
<1> HIDE DEF g
<1>4. Alike(h, g, Cur)
  BY <1>1, <1>3, FlagsAlike
<1>5. Defs(g, open)
  BY <1>3, <1>4, AlikeDefs
<1> QED
  BY <1>5 DEF g

\* What a method overrides is virtual.
LEMMA OverrideIs ==
  ASSUME NEW n, NEW f, f = Override(n), f # 0
  PROVE  /\ f = lookUp(m, Cur, n)
         /\ m.funcs[f].kind # "forward" => m.funcs[f].virtual
<1> DEFINE e == lookUp(m, Cur, n)
<1>1. f = IF e = 0 THEN 0
          ELSE IF \/ ~Overridable(e)
                  \/ m.funcs[e].kind = "forward" /\ m.funcs[e].owner # Cur
               THEN 0 ELSE e
  BY Zenon DEF Override
<1> HIDE DEF e
<1>2. f = e /\ Overridable(f)
  BY <1>1
<1> QED
  BY <1>2 DEF Overridable, e

LEMMA FuncDefStep ==
  ASSUME DefsInv, NEW n \in Names, NEW ann, FuncDef(n, ann)
  PROVE  DefsInv'
<1> DEFINE f == Override(n)
           v == IsVirtual(ann)
           g == IF f # 0 /\ m.funcs[f].kind = "forward" THEN OfKind(m, f, "defined")
                ELSE addMethod(m, Cur, n, v, "defined", f)
<1>1. open # <<>> /\ m' = SetFlags(g, "none") /\ open' = open
  BY Zenon DEF FuncDef, OfKind
<1>2. Defs(m, open) /\ Shape(m) /\ Classes(m) /\ \A k \in DOMAIN m.funcs : FunctionOK(m, k)
  BY DEF DefsInv, Defs, Good
<1>3. /\ Cur \in DOMAIN m.types /\ Cur # VTableBase /\ ~m.types[Cur].complete
      /\ m.types[Cur].hasVTable \in BOOLEAN
  BY <1>1, CurIs
<1>4. v \in BOOLEAN /\ (v => m.types[Cur].hasVTable)
  BY <1>3 DEF IsVirtual
<1>5. n # "oper class"
  BY ClassDefsAssumption DEF ClassDefsAssumption
<1>6. f # 0 => /\ f = lookUp(m, Cur, n)
               /\ m.funcs[f].kind # "forward" => m.funcs[f].virtual
  BY OverrideIs
<1>7. f # 0 => f \in DOMAIN m.funcs
  BY <1>2, <1>3, <1>6, LookUpIs
<1> HIDE DEF f, v
<1>8. Defs(g, open)
  <2>1. CASE f # 0 /\ m.funcs[f].kind = "forward"
    <3>1. g = OfKind(m, f, "defined")
      BY <2>1
    <3>2. f \in DOMAIN m.funcs
      BY <1>7, <2>1
    <3> HIDE DEF g
    <3>3. Alike(m, g, Cur)
      BY <1>2, <1>3, <3>1, <3>2, KindAlike
    <3> QED
      BY <1>2, <1>3, <3>3, AlikeDefs
  <2>2. CASE ~(f # 0 /\ m.funcs[f].kind = "forward")
    <3>1. g = addMethod(m, Cur, n, v, "defined", f)
      BY <2>2
    <3>2. v /\ f # 0 => f = lookUp(m, Cur, n) /\ m.funcs[f].virtual
      BY <1>6, <2>2
    <3> HIDE DEF g
    <3> QED
      BY <1>1, <1>4, <1>5, <3>1, <3>2, MethodDefs
  <2> QED
    BY <2>1, <2>2
<1> HIDE DEF g
<1>9. Defs(m', open)
  BY <1>1, <1>8, SetFlagsDefs
<1> QED
  BY <1>1, <1>9 DEF DefsInv

LEMMA FuncDeclStep ==
  ASSUME DefsInv, NEW n \in Names, NEW ann, FuncDecl(n, ann)
  PROVE  DefsInv'
<1>1. open # <<>> /\ open' = open /\ Defs(m, open)
  BY Zenon DEF FuncDecl, DefsInv
<1>2. /\ Cur \in DOMAIN m.types /\ m.types[Cur].hasVTable \in BOOLEAN
      /\ m.types[Cur].abstract => m.types[Cur].hasVTable
  BY <1>1, CurIs
<1>3. n # "oper class"
  BY ClassDefsAssumption DEF ClassDefsAssumption
<1>4. \/ m' = SetFlags(m, NextFlags(ann))
      \/ m.types[Cur].abstract /\ m' = SetFlags(addMethod(m, Cur, n, TRUE, "abstract", 0), "none")
      \/ m' = SetFlags(addMethod(m, Cur, n, IsVirtual(ann), "forward", 0), "none")
  BY Zenon DEF FuncDecl, DeclareAbstract
<1>5. Defs(m', open)
  <2>1. CASE m' = SetFlags(m, NextFlags(ann))
    BY <1>1, <2>1, SetFlagsDefs
  <2>2. CASE m.types[Cur].abstract /\ m' = SetFlags(addMethod(m, Cur, n, TRUE, "abstract", 0), "none")
    <3> DEFINE g == addMethod(m, Cur, n, TRUE, "abstract", 0)
    <3>1. Defs(g, open)
      <4> HIDE DEF g
      <4>1. g = addMethod(m, Cur, n, TRUE, "abstract", 0)
        BY DEF g
      <4>2. TRUE \in BOOLEAN /\ (TRUE => m.types[Cur].hasVTable) /\ ~(TRUE /\ 0 # 0)
        BY <1>2, <2>2
      <4> QED
        BY <1>1, <1>3, <4>1, <4>2, MethodDefs
    <3> HIDE DEF g
    <3>2. m' = SetFlags(g, "none")
      BY <2>2 DEF g
    <3> QED
      BY <1>1, <3>1, <3>2, SetFlagsDefs
  <2>3. CASE m' = SetFlags(addMethod(m, Cur, n, IsVirtual(ann), "forward", 0), "none")
    <3> DEFINE v == IsVirtual(ann)
               g == addMethod(m, Cur, n, v, "forward", 0)
    <3>1. v \in BOOLEAN /\ (v => m.types[Cur].hasVTable) /\ ~(v /\ 0 # 0)
      BY <1>2 DEF IsVirtual
    <3> HIDE DEF v
    <3>2. Defs(g, open)
      <4> HIDE DEF g
      <4>1. g = addMethod(m, Cur, n, v, "forward", 0)
        BY DEF g
      <4> QED
        BY <1>1, <1>3, <3>1, <4>1, MethodDefs
    <3>3. m' = SetFlags(g, "none")
      BY <2>3 DEF v
    <3> HIDE DEF g
    <3> QED
      BY <1>1, <3>2, <3>3, SetFlagsDefs
  <2> QED
    BY <1>4, <2>1, <2>2, <2>3
<1> QED
  BY <1>1, <1>5 DEF DefsInv

LEMMA EndStep ==
  ASSUME DefsInv, EndClass
  PROVE  DefsInv'
<1> DEFINE g == rectify(m, Cur)
<1>1. open # <<>> /\ m' = emitEndClass(g, Cur) /\ open' = Front(open)
  BY Zenon DEF EndClass
<1>2. Good(m, {}) /\ Defs(m, open)
  BY DEF DefsInv, Defs
<1>3. Cur \in DOMAIN m.types /\ Cur # VTableBase /\ ~m.types[Cur].complete /\ Settled(m, Cur)
  BY <1>1, CurIs
<1>4. g = m \/ g = createDefaultDestructor(m, Cur)
  BY Zenon DEF rectify
<1> HIDE DEF g
<1>5. Defs(g, open)
  <2>1. CASE g = m
    BY <1>2, <2>1
  <2>2. CASE g = createDefaultDestructor(m, Cur)
    <3>1. Good(g, {}) /\ Frame(m, g, Cur)
      BY <1>2, <1>3, <2>2, DestructorGood
    <3> QED
      BY <1>1, <1>2, <3>1, FrameDefs DEF Cur
  <2> QED
    BY <1>4, <2>1, <2>2
<1>6. Defs(m', Front(open))
  BY <1>1, <1>5, EndDefs DEF Cur
<1> QED
  BY <1>1, <1>6 DEF DefsInv
-----------------------------------------------------------------------------
(* The special base classes.                                               *)

PlainType == [parents |-> <<>>, hasVTable |-> FALSE, abstract |-> FALSE,
              complete |-> TRUE, first |-> 0, next |-> 0,
              children |-> <<>>, flags |-> "none", vtables |-> <<>>]
RootType == [PlainType EXCEPT !.hasVTable = TRUE]
Blank == [types |-> <<RootType, PlainType>>, funcs |-> <<>>, failed |-> FALSE]

LEMMA RootGood ==
  ASSUME NEW h, h = createOperClass(Blank, VTableBase)
  PROVE  /\ Good(h, {}) /\ ~h.failed
         /\ DOMAIN h.types = 1 .. 2 /\ Len(h.types) = 2
         /\ ~h.types[2].hasVTable
         /\ \A x \in 1 .. 2 : h.types[x].children = <<>> /\ h.types[x].complete
<1> DEFINE b == Blank
           ts == <<RootType, PlainType>>
<1>1. b.types = ts /\ b.funcs = <<>> /\ b.failed = FALSE /\ DOMAIN b = {"types", "funcs", "failed"}
  BY DEF Blank
<1>2. /\ DOMAIN PlainType = TypeFields
      /\ PlainType.parents = <<>> /\ PlainType.hasVTable = FALSE
      /\ PlainType.abstract = FALSE /\ PlainType.complete = TRUE
      /\ PlainType.first = 0 /\ PlainType.next = 0 /\ PlainType.children = <<>>
  BY DEF PlainType, TypeFields
<1>3. /\ DOMAIN RootType = TypeFields
      /\ RootType.parents = <<>> /\ RootType.hasVTable = TRUE
      /\ RootType.abstract = FALSE /\ RootType.complete = TRUE
      /\ RootType.first = 0 /\ RootType.next = 0 /\ RootType.children = <<>>
  BY DEF PlainType, RootType, TypeFields
<1>4. /\ IsSeq(<<>>) /\ Range(<<>>) = {}
      /\ IsSeq(ts) /\ Len(ts) = 2 /\ DOMAIN ts = 1 .. 2
      /\ ts[1] = RootType /\ ts[2] = PlainType
  <2>1. IsSeq(<<>>) /\ Range(<<>>) = {}
    BY DEF IsSeq, Range
  <2>2. Len(ts) = 2 /\ DOMAIN ts = 1 .. 2 /\ ts[1] = RootType /\ ts[2] = PlainType
    OBVIOUS
  <2>3. ts \in [1 .. 2 -> Range(ts)]
    <3>1. \A i \in 1 .. 2 : ts[i] \in Range(ts)
      BY <2>2 DEF Range
    <3>2. ts = [i \in 1 .. 2 |-> ts[i]]
      OBVIOUS
    <3> HIDE DEF ts
    <3> QED
      BY <3>1, <3>2
  <2>4. 2 \in Nat
    OBVIOUS
  <2>5. IsSeq(ts)
    <3> HIDE DEF ts
    <3> QED
      BY <2>3, <2>4, FunctionIsSeq DEF IsSeq
  <2> QED
    BY <2>1, <2>2, <2>5
<1>5. 1 .. 2 = {1, 2} /\ VTableBase = 1
  BY DEF VTableBase
<1> HIDE DEF b, ts
<1>6. /\ b.types[1].hasVTable = TRUE /\ b.types[2].hasVTable = FALSE
      /\ \A x \in 1 .. 2 : b.types[x].parents = <<>> /\ b.types[x].children = <<>>
                        /\ b.types[x].complete = TRUE
                        /\ DOMAIN b.types[x] = TypeFields
                        /\ b.types[x].hasVTable \in BOOLEAN /\ b.types[x].abstract = FALSE
                        /\ b.types[x].first = 0 /\ b.types[x].next = 0
  BY <1>1, <1>2, <1>3, <1>4, <1>5
<1>7. Lineage(b)
  BY <1>1, <1>4, <1>6 DEF Lineage
<1>8. Shape(b)
  <2>1. DOMAIN b.types = 1 .. 2 /\ VTableBase \in 1 .. 2 /\ b.funcs = <<>> /\ IsSeq(b.funcs)
    BY <1>1, <1>4, <1>5
  <2>2. \A f \in DOMAIN b.funcs : FALSE
    BY <2>1
  <2>3. ASSUME NEW x \in 1 .. 2
        PROVE  /\ DOMAIN b.types[x] = TypeFields
               /\ {b.types[x].hasVTable, b.types[x].abstract, b.types[x].complete} \subseteq BOOLEAN
               /\ b.types[x].first \in Nat /\ b.types[x].next \in Nat
               /\ b.types[x].first <= b.types[x].next
               /\ IsSeq(b.types[x].children)
               /\ \A k \in Range(b.types[x].children) : k \in DOMAIN b.types /\ x < k
    <3>1. b.types[x].children = <<>> /\ b.types[x].first = 0 /\ b.types[x].next = 0
          /\ b.types[x].complete = TRUE /\ b.types[x].abstract = FALSE
          /\ b.types[x].hasVTable \in BOOLEAN /\ DOMAIN b.types[x] = TypeFields
      BY <1>6
    <3>2. IsSeq(b.types[x].children) /\ Range(b.types[x].children) = {}
      BY <1>4, <3>1
    <3>3. {b.types[x].hasVTable, b.types[x].abstract, b.types[x].complete} \subseteq BOOLEAN
      <4>1. b.types[x].complete \in BOOLEAN /\ b.types[x].abstract \in BOOLEAN
        BY <3>1, Zenon
      <4> QED
        BY <3>1, <4>1
    <3>4. b.types[x].first \in Nat /\ b.types[x].next \in Nat
      BY <3>1
    <3>5. b.types[x].first <= b.types[x].next
      BY <3>1
    <3>6. DOMAIN b.types[x] = TypeFields
      BY <3>1
    <3> QED
      BY <3>2, <3>3, <3>4, <3>5, <3>6
  <2> QED
    BY <1>1, <1>7, <2>1, <2>2, <2>3 DEF Shape
<1>9. lookUp(b, 1, "oper class") = 0
  <2>1. 1 \in DOMAIN b.types /\ DOMAIN b.funcs = {} /\ IsSeq(b.funcs)
    BY <1>1, <1>4, <1>5
  <2>2. DOMAIN b.types[1].parents = {}
    BY <1>5, <1>6
  <2>3. \/ lookUp(b, 1, "oper class") \in DOMAIN b.funcs
        \/ \E i \in DOMAIN b.types[1].parents :
              /\ lookUp(b, b.types[1].parents[i], "oper class") # 0
              /\ lookUp(b, 1, "oper class") = lookUp(b, b.types[1].parents[i], "oper class")
        \/ lookUp(b, 1, "oper class") = 0
    BY <1>7, <2>1, LookUpRec, Zenon
  <2> QED
    BY <2>1, <2>2, <2>3
<1>10. h = addMethod(b, 1, "oper class", TRUE, "defined", 0)
  <2>1. h = addMethod(b, 1, "oper class", TRUE, "defined", lookUp(b, 1, "oper class"))
    BY <1>5 DEF createOperClass, b
  <2> QED
    BY <1>9, <2>1
<1>11. /\ SameClasses(b, h)
       /\ \A x \in DOMAIN b.types :
             /\ h.types[x].complete = b.types[x].complete
             /\ h.types[x].children = b.types[x].children
             /\ h.types[x].next = IF x = 1 /\ TRUE /\ 0 = 0 THEN b.types[x].next + 1
                                  ELSE b.types[x].next
       /\ Added(b, h, 1, "oper class", TRUE, 0)
  <2>1. 1 \in DOMAIN b.types /\ TRUE \in BOOLEAN
    BY <1>1, <1>4, <1>5
  <2> DEFINE t == 1
             n == "oper class"
             v == TRUE
             e == 0
  <2>2. /\ t \in DOMAIN b.types /\ v \in BOOLEAN
        /\ h = addMethod(b, t, n, v, "defined", e)
    BY <1>10, <2>1
  <2> HIDE DEF t, n, v, e
  <2>3. SameClasses(b, h) /\ Added(b, h, t, n, v, e)
    BY <1>8, <2>2, AddMethodIs
  <2>4. \A x \in DOMAIN b.types :
          /\ h.types[x].complete = b.types[x].complete
          /\ h.types[x].children = b.types[x].children
          /\ h.types[x].next = IF x = t /\ v /\ e = 0 THEN b.types[x].next + 1
                               ELSE b.types[x].next
    BY <1>8, <2>2, AddMethodIs
  <2> QED
    BY <2>3, <2>4 DEF t, n, v, e
<1>12. /\ IsSeq(h.types) /\ Len(h.types) = 2 /\ DOMAIN h.types = {1, 2}
       /\ h.types[1].hasVTable = TRUE /\ h.types[2].hasVTable = FALSE
       /\ \A x \in {1, 2} :
             /\ DOMAIN h.types[x] = TypeFields
             /\ h.types[x].parents = <<>> /\ h.types[x].children = <<>>
             /\ h.types[x].complete = TRUE
             /\ h.types[x].hasVTable \in BOOLEAN /\ h.types[x].abstract = FALSE
             /\ h.types[x].first = 0 /\ h.types[x].next = (IF x = 1 THEN 1 ELSE 0)
  <2>1. /\ IsSeq(h.types) /\ Len(h.types) = 2 /\ DOMAIN h.types = {1, 2}
        /\ DOMAIN b.types = {1, 2}
    BY <1>1, <1>4, <1>5, <1>11 DEF SameClasses
  <2>2. ASSUME NEW x \in {1, 2}
        PROVE  /\ DOMAIN h.types[x] = TypeFields
               /\ h.types[x].parents = <<>> /\ h.types[x].children = <<>>
               /\ h.types[x].complete = TRUE
               /\ h.types[x].hasVTable \in BOOLEAN /\ h.types[x].abstract = FALSE
               /\ h.types[x].first = 0 /\ h.types[x].next = (IF x = 1 THEN 1 ELSE 0)
    <3>1. SameClass(b.types[x], h.types[x])
      BY <1>11, <2>1 DEF SameClasses
    <3>2. /\ b.types[x].parents = <<>> /\ b.types[x].children = <<>>
          /\ b.types[x].complete = TRUE /\ DOMAIN b.types[x] = TypeFields
          /\ b.types[x].hasVTable \in BOOLEAN /\ b.types[x].abstract = FALSE
          /\ b.types[x].first = 0 /\ b.types[x].next = 0
      BY <1>5, <1>6
    <3>3. /\ h.types[x].complete = b.types[x].complete
          /\ h.types[x].children = b.types[x].children
          /\ h.types[x].next = IF x = 1 THEN b.types[x].next + 1 ELSE b.types[x].next
      BY <1>11, <2>1
    <3> QED
      BY <3>1, <3>2, <3>3 DEF SameClass
  <2>3. h.types[1].hasVTable = TRUE /\ h.types[2].hasVTable = FALSE
    BY <1>6, <1>11, <2>1 DEF SameClasses, SameClass
  <2> QED
    BY <2>1, <2>2, <2>3
<1>13. /\ DOMAIN h = {"types", "funcs", "failed"} /\ h.failed = FALSE
       /\ IsSeq(h.funcs) /\ DOMAIN h.funcs = {1}
       /\ DOMAIN h.funcs[1] = FuncFields
       /\ h.funcs[1].name = "oper class" /\ h.funcs[1].owner = 1
       /\ h.funcs[1].virtual = TRUE /\ h.funcs[1].slot = 0 /\ h.funcs[1].receiver = 1
  <2>1. Len(b.funcs) + 1 = 1 /\ DOMAIN b.funcs = {}
    BY <1>1
  <2>2. b.types[1].next = 0
    BY <1>5, <1>6
  <2> QED
    BY <1>1, <1>11, <2>1, <2>2 DEF Added
<1>14. Lineage(h)
  BY <1>4, <1>12 DEF Lineage
<1>15. Shape(h)
  <2>1. ASSUME NEW x \in {1, 2}
        PROVE  /\ DOMAIN h.types[x] = TypeFields
               /\ {h.types[x].hasVTable, h.types[x].abstract, h.types[x].complete} \subseteq BOOLEAN
               /\ h.types[x].first \in Nat /\ h.types[x].next \in Nat
               /\ h.types[x].first <= h.types[x].next
               /\ IsSeq(h.types[x].children)
               /\ \A k \in Range(h.types[x].children) : k \in DOMAIN h.types /\ x < k
    <3>1. /\ h.types[x].children = <<>> /\ h.types[x].first = 0
          /\ h.types[x].next = (IF x = 1 THEN 1 ELSE 0)
          /\ h.types[x].complete = TRUE /\ h.types[x].abstract = FALSE
          /\ h.types[x].hasVTable \in BOOLEAN /\ DOMAIN h.types[x] = TypeFields
      BY <1>12
    <3>2. IsSeq(h.types[x].children) /\ Range(h.types[x].children) = {}
      BY <1>4, <3>1
    <3>3. {h.types[x].hasVTable, h.types[x].abstract, h.types[x].complete} \subseteq BOOLEAN
      <4>1. h.types[x].complete \in BOOLEAN /\ h.types[x].abstract \in BOOLEAN
        BY <3>1, Zenon
      <4> QED
        BY <3>1, <4>1
    <3>4. h.types[x].first \in Nat /\ h.types[x].next \in Nat
      BY <3>1
    <3>5. h.types[x].first <= h.types[x].next
      BY <3>1
    <3>6. DOMAIN h.types[x] = TypeFields
      BY <3>1
    <3> QED
      BY <3>2, <3>3, <3>4, <3>5, <3>6
  <2>2. DOMAIN h.types = {1, 2} /\ VTableBase \in {1, 2}
    BY <1>5, <1>12
  <2>3. \A f \in DOMAIN h.funcs : /\ DOMAIN h.funcs[f] = FuncFields
                                  /\ h.funcs[f].owner \in DOMAIN h.types
                                  /\ h.funcs[f].virtual \in BOOLEAN
                                  /\ h.funcs[f].slot \in Nat
    <3>1. h.funcs[1].virtual \in BOOLEAN
      BY <1>13, Zenon
    <3>2. h.funcs[1].owner \in DOMAIN h.types
      BY <1>13, <2>2
    <3>3. h.funcs[1].slot \in Nat
      <4>1. h.funcs[1].slot = 0
        BY <1>13, Zenon
      <4> QED
        BY <4>1
    <3>4. DOMAIN h.funcs[1] = FuncFields
      BY <1>13, Zenon
    <3>5. \A f \in DOMAIN h.funcs : f = 1
      BY <1>13
    <3> QED
      BY <3>1, <3>2, <3>3, <3>4, <3>5, Zenon
  <2> QED
    BY <1>13, <1>14, <2>1, <2>2, <2>3 DEF Shape
<1>16. Classes(h)
  <2>1. RootOK(h)
    BY <1>5, <1>12 DEF RootOK
  <2>2. ClassOK(h, 2)
    <3>1. /\ h.types[2].parents = <<>> /\ h.types[2].hasVTable = FALSE
          /\ h.types[2].abstract = FALSE /\ h.types[2].complete = TRUE
          /\ Range(h.types[2].parents) = {}
      BY <1>4, <1>12
    <3> QED
      BY <3>1 DEF ClassOK, Closed
  <2> QED
    BY <1>5, <1>12, <2>1, <2>2 DEF Classes
<1>17. FunctionOK(h, 1)
  <2>1. 1 \in Ancestors(h, 1)
    BY <1>12, <1>14, AncestorIs
  <2> QED
    BY <1>5, <1>12, <1>13, <2>1 DEF FunctionOK
<1>18. FilledOK(h, 2) /\ HasOperClass(h, 1) /\ HasOperClass(h, 2)
  <2>1. h.types[2].hasVTable = FALSE
    BY <1>12
  <2> QED
    BY <1>13, <2>1 DEF FilledOK, HasOperClass
<1>19. Good(h, {})
  BY <1>5, <1>12, <1>13, <1>15, <1>16, <1>17, <1>18 DEF Good
<1>20. ~h.types[2].hasVTable /\ ~h.failed
  BY <1>12, <1>13
<1>21. \A x \in 1 .. 2 : h.types[x].children = <<>> /\ h.types[x].complete
  BY <1>5, <1>12
<1> QED
  BY <1>5, <1>12, <1>19, <1>20, <1>21

LEMMA BuiltinsDefs ==
  Defs(Builtins, <<>>)
<1> DEFINE root == createOperClass(Blank, VTableBase)
           free == createDefaultDestructor(root, FreeBase)
           begun == emitBeginClass(free, <<VTableBase>>, FALSE)
           object == createDefaultDestructor(begun, Object)
<1>1. Builtins = emitEndClass(object, Object)
  BY DEF Builtins, Blank, RootType, PlainType
<1>2. /\ Good(root, {}) /\ ~root.failed
      /\ DOMAIN root.types = 1 .. 2 /\ Len(root.types) = 2
      /\ ~root.types[2].hasVTable
      /\ \A x \in 1 .. 2 : root.types[x].children = <<>> /\ root.types[x].complete
  <2>1. \A h : h = root => /\ Good(h, {}) /\ ~h.failed
                           /\ DOMAIN h.types = 1 .. 2 /\ Len(h.types) = 2
                           /\ ~h.types[2].hasVTable
                           /\ \A x \in 1 .. 2 : h.types[x].children = <<>> /\ h.types[x].complete
    BY RootGood
  <2> HIDE DEF root
  <2> QED
    BY <2>1, Zenon
<1> HIDE DEF root
<1>3. Good(free, {}) /\ Frame(root, free, 2)
  <2>1. 2 \in DOMAIN root.types /\ 2 # VTableBase /\ free = createDefaultDestructor(root, 2)
    BY <1>2 DEF VTableBase, FreeBase
  <2> HIDE DEF free
  <2> QED
    BY <1>2, <2>1, DestructorGood
<1> HIDE DEF free
<1>4. /\ ~free.failed /\ DOMAIN free.types = 1 .. 2 /\ Len(free.types) = 2
      /\ \A x \in 1 .. 2 : free.types[x].children = <<>> /\ free.types[x].complete
  BY <1>2, <1>3 DEF Frame, SameClasses
<1>5. MayDerive(free, <<VTableBase>>)
  <2>1. RootOK(free) /\ VTableBase \in DOMAIN free.types
    BY <1>3 DEF Good, Shape, Classes
  <2>2. /\ IsSeq(<<VTableBase>>) /\ Range(<<VTableBase>>) = {VTableBase}
        /\ <<VTableBase>>[1] = VTableBase /\ Range(<<>>) = {}
    BY DEF IsSeq, Range
  <2> QED
    BY <2>1, <2>2 DEF MayDerive, RootOK, Settled, Closed
<1>6. Opened(free, begun, <<VTableBase>>)
  <2>1. FALSE \in BOOLEAN
    OBVIOUS
  <2> HIDE DEF begun
  <2>2. begun = emitBeginClass(free, <<VTableBase>>, FALSE)
    BY DEF begun
  <2> QED
    BY <1>3, <1>5, <2>1, <2>2, BeginGood
<1> HIDE DEF begun
<1>7. /\ Good(begun, {}) /\ ~begun.failed /\ DOMAIN begun.types = 1 .. 3
      /\ \A x \in 1 .. 3 : begun.types[x].children = <<>>
      /\ ~begun.types[3].complete /\ Settled(begun, 3)
  <2>1. Len(free.types) + 1 = 3
    BY <1>4
  <2>2. /\ Good(begun, {}) /\ begun.failed = free.failed
        /\ DOMAIN begun.types = DOMAIN free.types \cup {3}
        /\ \A x \in DOMAIN free.types : begun.types[x].children = free.types[x].children
        /\ begun.types[3].complete = FALSE /\ begun.types[3].children = <<>>
        /\ Settled(begun, 3)
    BY <1>6, <2>1 DEF Opened
  <2>3. 1 .. 3 = (1 .. 2) \cup {3}
    OBVIOUS
  <2> QED
    BY <1>4, <2>2, <2>3
<1>8. Good(object, {}) /\ Frame(begun, object, 3)
  <2>1. 3 \in DOMAIN begun.types /\ 3 # VTableBase /\ object = createDefaultDestructor(begun, 3)
    BY <1>7 DEF VTableBase, Object
  <2> HIDE DEF object
  <2> QED
    BY <1>7, <2>1, DestructorGood
<1> HIDE DEF object
<1>9. /\ ~object.failed /\ DOMAIN object.types = 1 .. 3
      /\ \A x \in 1 .. 3 : object.types[x].children = <<>>
      /\ ~object.types[3].complete
      /\ object.types[3].parents = begun.types[3].parents
  BY <1>7, <1>8 DEF Frame, SameClasses, SameClass
<1>10. Settled(object, 3)
  <2>1. begun.types[3].parents = <<>> \/ begun.types[3].parents[1] # 3
    <3>1. Shape(begun) /\ 3 \in DOMAIN begun.types
      BY <1>7 DEF Good
    <3>2. begun.types[3].parents # <<>> =>
            begun.types[3].parents[1] \in DOMAIN begun.types /\ begun.types[3].parents[1] < 3
      BY <3>1, TypeFacts
    <3> QED
      BY <1>7, <3>2
  <2>2. 3 \in DOMAIN begun.types
    BY <1>7
  <2> QED
    BY <1>7, <1>8, <2>1, <2>2 DEF Frame
<1> DEFINE o == <<Object>>
<1>11. /\ IsSeq(o) /\ DOMAIN o = {1} /\ o[1] = Object /\ Len(o) = 1 /\ o # <<>>
       /\ Object = Last(o) /\ Front(o) = <<>> /\ Object = 3 /\ VTableBase = 1
  BY DEF IsSeq, Range, Last, Front, Object, VTableBase
<1> HIDE DEF o
<1>12. OpenOK(object, o)
  BY <1>9, <1>10, <1>11 DEF OpenOK
<1>13. \A p \in DOMAIN object.types : KidsOK(object, o, p)
  <2>1. DOMAIN <<>> = {}
    OBVIOUS
  <2> QED
    BY <1>9, <2>1 DEF KidsOK
<1>14. Defs(object, o)
  BY <1>8, <1>9, <1>11, <1>12, <1>13 DEF Defs
<1>15. Defs(emitEndClass(object, Object), Front(o))
  BY <1>11, <1>14, EndDefs
<1> QED
  BY <1>1, <1>11, <1>15

(***************************************************************************)
(* A legal program, however many classes it defines and nests, never gets  *)
(* an internal error or an assertion failure of the builder: the slots of  *)
(* a class never begin before those of its base end, no vtable has a gap,  *)
(* and a class waits for one base at most (BTypeDef::fixVTables,           *)
(* VTableBuilder::emit, LLVMBuilder::emitEndClass).  The hypothesis leaves *)
(* out the lists of base classes for which the code does fail or may.      *)
(***************************************************************************)
THEOREM BuilderNeverFails ==
  ASSUME Forms \intersect RareForms = {}
  PROVE  Spec => []NoInternalError
<1>1. Init => DefsInv
  BY BuiltinsDefs DEF Init, DefsInv
<1>2. DefsInv /\ [Next]_vars => DefsInv'
  <2> SUFFICES ASSUME DefsInv, [Next]_vars PROVE DefsInv'
    OBVIOUS
  <2>1. ASSUME NEW bases \in BaseLists, NEW abstract \in BOOLEAN, BeginClass(bases, abstract)
        PROVE  DefsInv'
    BY <2>1, BeginStep
  <2>2. ASSUME NEW n \in Names, NEW ann \in {"none", "final", "abstract"}, FuncDef(n, ann)
        PROVE  DefsInv'
    BY <2>2, FuncDefStep
  <2>3. ASSUME NEW n \in Names, NEW ann \in {"none", "final", "abstract"}, FuncDecl(n, ann)
        PROVE  DefsInv'
    BY <2>3, FuncDeclStep
  <2>4. CASE EndClass
    BY <2>4, EndStep
  <2>5. CASE UNCHANGED vars
    BY <2>5 DEF vars, DefsInv
  <2> QED
    BY <2>1, <2>2, <2>3, <2>4, <2>5 DEF Next
<1>3. DefsInv => NoInternalError
  BY DEF DefsInv, Defs, NoInternalError
<1> QED
  BY <1>1, <1>2, <1>3, PTL DEF Spec
=============================================================================
