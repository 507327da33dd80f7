-------------------------- MODULE StatementsProofs --------------------------
(***************************************************************************)
(* Proofs about the statement parser and the code generator, for every     *)
(* program: any number of statements, any nesting, any exception classes.  *)
(***************************************************************************)
EXTENDS Statements, Integers, SequenceTheorems, FiniteSetTheorems,
        WellFoundedInduction, TLAPS

-----------------------------------------------------------------------------
(* The shape of the generator's state.                                     *)

IsSeq(s) == s \in Seq(Range(s))

Open(s) == IsSeq(s) /\ \A i \in DOMAIN s : s[i].op \notin Terminators

Closed(s) ==
  /\ IsSeq(s)
  /\ s # <<>>
  /\ s[Len(s)].op \in Terminators
  /\ \A i \in 1 .. (Len(s) - 1) : s[i].op \notin Terminators

\* The blocks that wait for more instructions.
Opens(h) == {b \in DOMAIN h.code : Open(h.code[b])}

\* The fields of a context that decide what the parser does, the frames, and the
\* ones that only matter when the code runs.
Decides == {"parent", "path", "terminal", "loop", "catch", "body", "clauses",
            "nonTerminal"}
CtxFields == Decides \cup {"frames", "unwind", "catches", "nested"}

\* Paths, frames and nested try statements are sequences of things that exist; a
\* break branchpoint names its own context, and a catch branchpoint is the one
\* of a try statement.
ContextOK(h, c) ==
  /\ CtxFields \subseteq DOMAIN h.ctx[c]
  /\ h.ctx[c].path \in Seq(DOMAIN h.ctx)
  /\ h.ctx[c].frames \in Seq(DOMAIN h.fr)
  /\ h.ctx[c].nested \in Seq(DOMAIN h.ctx)
  /\ h.ctx[c].loop # NoLoop => h.ctx[c].loop.ctx = c
  /\ h.ctx[c].catch # 0 => h.ctx[c].body # 0

FrameOK(h, f) ==
  /\ {"ctx", "cleanups", "lp"} \subseteq DOMAIN h.fr[f]
  /\ h.fr[f].ctx \in DOMAIN h.ctx
  /\ h.fr[f].cleanups \in Seq(DOMAIN h.cl)

CleanupOK(h, v) ==
  /\ {"fr", "unwind", "lp", "busy"} \subseteq DOMAIN h.cl[v]
  /\ h.cl[v].fr \in DOMAIN h.fr

ContextsOK(h) ==
  /\ IsSeq(h.ctx)
  /\ {Outside, Toplevel} \subseteq DOMAIN h.ctx
  /\ h.cur \in DOMAIN h.ctx
  /\ \A c \in DOMAIN h.ctx : ContextOK(h, c)

CleanupsOK(h) ==
  /\ IsSeq(h.fr) /\ \A f \in DOMAIN h.fr : FrameOK(h, f)
  /\ IsSeq(h.cl) /\ \A v \in DOMAIN h.cl : CleanupOK(h, v)

\* No instruction follows a terminator.
CodeOK(h) ==
  /\ IsSeq(h.code)
  /\ h.at \in DOMAIN h.code
  /\ \A b \in DOMAIN h.code : Open(h.code[b]) \/ Closed(h.code[b])

GenOK(h) ==
  /\ {"ctx", "fr", "cl", "code", "at", "cur", "del"} \subseteq DOMAIN h
  /\ ContextsOK(h)
  /\ CleanupsOK(h)
  /\ CodeOK(h)

\* Every context of the function has a cleanup frame.
Framed(h) == \A c \in DOMAIN h.ctx \ {Outside} : h.ctx[c].frames # <<>>

-----------------------------------------------------------------------------
(* Sequences.                                                              *)

LEMMA SeqFacts ==
  ASSUME NEW s, IsSeq(s)
  PROVE  /\ Len(s) \in Nat
         /\ DOMAIN s = 1 .. Len(s)
         /\ s = <<>> <=> Len(s) = 0
  BY DEF IsSeq

LEMMA SeqIs ==
  ASSUME NEW S, NEW s \in Seq(S)
  PROVE  IsSeq(s) /\ \A i \in DOMAIN s : s[i] \in S
<1>1. Len(s) \in Nat /\ DOMAIN s = 1 .. Len(s) /\ \A i \in 1 .. Len(s) : s[i] \in S
  OBVIOUS
<1>2. s \in [1 .. Len(s) -> Range(s)]
  BY <1>1 DEF Range
<1> QED
  BY <1>1, <1>2 DEF IsSeq

LEMMA IsSeqIn ==
  ASSUME NEW S, NEW s, IsSeq(s), \A i \in DOMAIN s : s[i] \in S
  PROVE  s \in Seq(S)
<1>1. Range(s) \subseteq S
  BY DEF Range
<1> QED
  BY <1>1, SeqMonotonic DEF IsSeq

LEMMA AppendIs ==
  ASSUME NEW s, IsSeq(s), NEW e
  PROVE  /\ IsSeq(Append(s, e))
         /\ Len(Append(s, e)) = Len(s) + 1
         /\ DOMAIN Append(s, e) = DOMAIN s \cup {Len(s) + 1}
         /\ Len(s) + 1 \notin DOMAIN s
         /\ \A i \in DOMAIN s : Append(s, e)[i] = s[i]
         /\ Append(s, e)[Len(s) + 1] = e
<1> DEFINE S == Range(s) \cup {e}
<1>1. s \in Seq(S)
  BY SeqMonotonic DEF IsSeq
<1> HIDE DEF S
<1>2. e \in S
  BY DEF S
<1>3. Append(s, e) \in Seq(S)
  BY <1>1, <1>2
<1>4. /\ Len(Append(s, e)) = Len(s) + 1
      /\ \A i \in 1 .. Len(s) : Append(s, e)[i] = s[i]
      /\ Append(s, e)[Len(s) + 1] = e
      /\ Len(s) \in Nat
      /\ DOMAIN s = 1 .. Len(s)
  BY <1>1, <1>2, AppendProperties
<1>5. IsSeq(Append(s, e))
  BY <1>3, SeqIs
<1>6. DOMAIN Append(s, e) = 1 .. (Len(s) + 1)
  BY <1>4, <1>5, SeqFacts
<1>7. 1 .. (Len(s) + 1) = (1 .. Len(s)) \cup {Len(s) + 1} /\ Len(s) + 1 \notin 1 .. Len(s)
  BY <1>4
<1> QED
  BY <1>4, <1>5, <1>6, <1>7

LEMMA FunctionIsSeq ==
  ASSUME NEW n \in Nat, NEW S, NEW t \in [1 .. n -> S]
  PROVE  t \in Seq(S)
  OBVIOUS

LEMMA SameDomain ==
  ASSUME NEW s, IsSeq(s), NEW t, DOMAIN t = DOMAIN s, t = [i \in DOMAIN t |-> t[i]]
  PROVE  IsSeq(t)
<1>1. Len(s) \in Nat /\ DOMAIN t = 1 .. Len(s)
  BY SeqFacts
<1>2. t \in [1 .. Len(s) -> Range(t)]
  BY <1>1 DEF Range
<1> QED
  BY <1>1, <1>2, FunctionIsSeq, Zenon DEF IsSeq

LEMMA ExceptIs ==
  ASSUME NEW s, IsSeq(s), NEW i, NEW e, NEW t, t = [s EXCEPT ![i] = e]
  PROVE  /\ IsSeq(t)
         /\ Len(t) = Len(s)
         /\ DOMAIN t = DOMAIN s
         /\ i \in DOMAIN s => t[i] = e
         /\ \A j \in DOMAIN s : j # i => t[j] = s[j]
<1>1. Len(s) \in Nat /\ DOMAIN s = 1 .. Len(s)
  BY SeqFacts
<1>2. DOMAIN t = 1 .. Len(s)
  BY <1>1
<1>3. t \in [1 .. Len(s) -> Range(t)]
  BY <1>2 DEF Range
<1>4. t \in Seq(Range(t))
  BY <1>1, <1>3, FunctionIsSeq, Zenon
<1>5. Len(t) = Len(s)
  BY <1>1, <1>2, <1>4
<1> QED
  BY <1>1, <1>2, <1>4, <1>5 DEF IsSeq

\* u is s with n times e after it.
Lengthened(u, s, n, e) ==
  /\ IsSeq(u)
  /\ DOMAIN u = 1 .. (Len(s) + n)
  /\ \A i \in DOMAIN s : u[i] = s[i]
  /\ \A i \in (Len(s) + 1) .. (Len(s) + n) : u[i] = e

LEMMA ConcatIs ==
  ASSUME NEW s, IsSeq(s), NEW n \in Nat, NEW e,
         NEW t \in Seq({e}), Len(t) = n
  PROVE  Lengthened(s \o t, s, n, e)
<1> DEFINE S == Range(s) \cup {e}
<1>1. s \in Seq(S)
  BY SeqMonotonic DEF IsSeq
<1> HIDE DEF S
<1>2. e \in S
  BY DEF S
<1>3. t \in Seq(S) /\ Len(t) = n /\ \A i \in 1 .. n : t[i] = e
  <2>1. \A i \in 1 .. Len(t) : t[i] \in {e}
    OBVIOUS
  <2>2. {e} \subseteq S
    BY <1>2
  <2> QED
    BY <2>1, <2>2, SeqMonotonic
<1>4. /\ s \o t \in Seq(S)
      /\ Len(s \o t) = Len(s) + Len(t)
      /\ \A i \in 1 .. (Len(s) + Len(t)) : (s \o t)[i] = IF i <= Len(s) THEN s[i] ELSE t[i - Len(s)]
  BY <1>1, <1>3, ConcatProperties
<1>5. IsSeq(s \o t)
  BY <1>4, SeqIs
<1>6. Len(s) \in Nat /\ DOMAIN s = 1 .. Len(s)
  BY SeqFacts
<1>7. DOMAIN (s \o t) = 1 .. (Len(s) + n)
  BY <1>3, <1>4, <1>5, SeqFacts
<1>8. \A i \in DOMAIN s : (s \o t)[i] = s[i]
  BY <1>3, <1>4, <1>6
<1>9. \A i \in (Len(s) + 1) .. (Len(s) + n) : (s \o t)[i] = e
  BY <1>3, <1>4, <1>6
<1> QED
  BY <1>5, <1>7, <1>8, <1>9 DEF Lengthened

\* What Reverse, Front and SubSeq give is a sequence of the same things.
LEMMA ReverseIs ==
  ASSUME NEW S, NEW s \in Seq(S)
  PROVE  Reverse(s) \in Seq(S)
<1>1. Len(s) \in Nat /\ \A i \in 1 .. Len(s) : s[i] \in S
  OBVIOUS
<1>2. \A i \in 1 .. Len(s) : (Len(s) - i) + 1 \in 1 .. Len(s)
  BY <1>1
<1>3. Reverse(s) \in [1 .. Len(s) -> S]
  BY <1>1, <1>2 DEF Reverse
<1> QED
  BY <1>1, <1>3

LEMMA SubSeqIs ==
  ASSUME NEW S, NEW s \in Seq(S), NEW i \in Nat \ {0}, NEW j \in Int, j <= Len(s)
  PROVE  SubSeq(s, i, j) \in Seq(S)
  OBVIOUS

LEMMA FrontIs ==
  ASSUME NEW S, NEW s \in Seq(S), s # <<>>
  PROVE  /\ Front(s) \in Seq(S)
         /\ Len(Front(s)) = Len(s) - 1
         /\ Len(s) - 1 \in Nat
         /\ \A i \in 1 .. (Len(s) - 1) : Front(s)[i] = s[i]
<1>1. Len(s) \in Nat /\ Len(s) # 0
  OBVIOUS
<1> DEFINE n == Len(s) - 1
<1>2. n \in Nat /\ n <= Len(s)
  BY <1>1
<1>3. /\ SubSeq(s, 1, n) \in Seq(S)
      /\ Len(SubSeq(s, 1, n)) = n
      /\ \A i \in 1 .. n : SubSeq(s, 1, n)[i] = s[i]
  <2> HIDE DEF n
  <2> QED
    BY <1>1, <1>2
<1> QED
  BY <1>2, <1>3 DEF Front

LEMMA FrontAppend ==
  ASSUME NEW S, NEW s \in Seq(S), NEW e \in S
  PROVE  Front(Append(s, e)) = s /\ Last(Append(s, e)) = e
<1> DEFINE t == Append(s, e)
<1>1. /\ t \in Seq(S) /\ Len(t) = Len(s) + 1 /\ Len(s) \in Nat
      /\ \A i \in 1 .. Len(s) : t[i] = s[i]
      /\ t[Len(t)] = e
  OBVIOUS
<1> HIDE DEF t
<1>2. t # <<>>
  BY <1>1
<1>3. Front(t) \in Seq(S) /\ Len(Front(t)) = Len(s) /\ \A i \in 1 .. Len(s) : Front(t)[i] = t[i]
  BY <1>1, <1>2, FrontIs
<1>4. Front(t) = s
  BY <1>1, <1>3, SeqEqual
<1> QED
  BY <1>1, <1>4 DEF t, Last

-----------------------------------------------------------------------------
(* Blocks.                                                                 *)

LEMMA NotBoth ==
  ASSUME NEW s, Open(s)
  PROVE  ~Closed(s)
  BY SeqFacts DEF Open, Closed

LEMMA OpenEmpty == Open(<<>>)
<1>1. IsSeq(<<>>)
  BY DEF IsSeq
<1>2. DOMAIN <<>> = {}
  BY <1>1, SeqFacts
<1> QED
  BY <1>1, <1>2 DEF Open

LEMMA OpenAppend ==
  ASSUME NEW s, Open(s), NEW e, e.op \notin Terminators
  PROVE  Open(Append(s, e))
  BY AppendIs DEF Open

LEMMA CloseAppend ==
  ASSUME NEW s, Open(s), NEW e, e.op \in Terminators
  PROVE  Closed(Append(s, e))
<1>1. IsSeq(s)
  BY DEF Open
<1> DEFINE t == Append(s, e)
<1>2. /\ IsSeq(t) /\ Len(t) = Len(s) + 1 /\ DOMAIN t = DOMAIN s \cup {Len(s) + 1}
      /\ \A i \in DOMAIN s : t[i] = s[i]
      /\ t[Len(s) + 1] = e
  BY <1>1, AppendIs
<1> HIDE DEF t
<1>3. Len(s) \in Nat /\ DOMAIN s = 1 .. Len(s)
  BY <1>1, SeqFacts
<1>4. t # <<>>
  BY <1>2, <1>3, SeqFacts
<1>5. Len(t) - 1 = Len(s)
  BY <1>2, <1>3
<1> QED
  BY <1>2, <1>3, <1>4, <1>5 DEF Closed, Open, t

LEMMA Singleton ==
  ASSUME NEW e
  PROVE  /\ e.op \in Terminators => Closed(<<e>>)
         /\ e.op \notin Terminators => Open(<<e>>)
<1>1. <<e>> = Append(<<>>, e)
  OBVIOUS
<1> QED
  BY <1>1, OpenEmpty, OpenAppend, CloseAppend

LEMMA Pair ==
  ASSUME NEW d, NEW e, d.op \notin Terminators, e.op \in Terminators
  PROVE  Closed(<<d, e>>)
<1>1. <<d, e>> = Append(<<d>>, e)
  OBVIOUS
<1> QED
  BY <1>1, Singleton, CloseAppend

-----------------------------------------------------------------------------
(* One step of the generator.                                              *)

\* From h to k the contexts are kept as far as the parser can tell, but for the
\* frames of the current one, which become fs; nothing is taken away.
Kept(h, k, fs) ==
  /\ k.cur = h.cur
  /\ DOMAIN k.ctx = DOMAIN h.ctx
  /\ \A c \in DOMAIN h.ctx : \A n \in Decides : k.ctx[c][n] = h.ctx[c][n]
  /\ \A c \in DOMAIN h.ctx :
       k.ctx[c].frames = IF c = h.cur THEN fs ELSE h.ctx[c].frames
  /\ DOMAIN h.fr \subseteq DOMAIN k.fr
  /\ DOMAIN h.cl \subseteq DOMAIN k.cl
  /\ DOMAIN h.code \subseteq DOMAIN k.code

\* The insert point is then a, and the open blocks are O.
Moves(h, k, fs, a, O) ==
  GenOK(k) /\ Kept(h, k, fs) /\ k.at = a /\ Opens(k) = O

Frames(h) == h.ctx[h.cur].frames

Becomes(h, k, a, O) == Moves(h, k, Frames(h), a, O)

\* Nothing that the parser can tell has changed.
Emits(h, k) == Becomes(h, k, h.at, Opens(h))

LEMMA MovesTrans ==
  ASSUME NEW h, NEW k, NEW l, NEW fs, NEW gs, NEW a, NEW b, NEW O, NEW P,
         GenOK(h), Moves(h, k, fs, a, O), Moves(k, l, gs, b, P)
  PROVE  Moves(h, l, gs, b, P)
<1>1. GenOK(l) /\ l.at = b /\ Opens(l) = P /\ Kept(h, k, fs) /\ Kept(k, l, gs)
  BY DEF Moves
<1>2. Kept(h, l, gs)
  BY <1>1 DEF Kept
<1> QED
  BY <1>1, <1>2 DEF Moves

LEMMA FramesKept ==
  ASSUME NEW h, NEW k, NEW fs, NEW a, NEW O, GenOK(h), Moves(h, k, fs, a, O)
  PROVE  Frames(k) = fs /\ k.cur = h.cur /\ GenOK(k)
  BY DEF Moves, Kept, GenOK, ContextsOK, Frames

LEMMA BecomesTrans ==
  ASSUME NEW h, NEW k, NEW l, NEW a, NEW b, NEW O, NEW P,
         GenOK(h), Becomes(h, k, a, O), Becomes(k, l, b, P)
  PROVE  Becomes(h, l, b, P)
  BY MovesTrans, FramesKept DEF Becomes

LEMMA EmitsTrans ==
  ASSUME NEW h, NEW k, NEW l, GenOK(h), Emits(h, k), Emits(k, l)
  PROVE  Emits(h, l)
<1>1. k.at = h.at /\ Opens(k) = Opens(h)
  BY DEF Emits, Becomes, Moves
<1> QED
  BY <1>1, BecomesTrans DEF Emits

LEMMA EmitsRefl ==
  ASSUME NEW h, GenOK(h)
  PROVE  Emits(h, h)
<1>1. Kept(h, h, Frames(h))
  BY DEF Kept, Frames
<1> QED
  BY <1>1 DEF Emits, Becomes, Moves

\* A step that only adds to the code.
LEMMA CodeStep ==
  ASSUME NEW h, NEW k, GenOK(h), CodeOK(k), DOMAIN k = DOMAIN h,
         k.ctx = h.ctx, k.fr = h.fr, k.cl = h.cl, k.cur = h.cur,
         DOMAIN h.code \subseteq DOMAIN k.code
  PROVE  Becomes(h, k, k.at, Opens(k))
<1>1. ContextsOK(k)
  BY DEF GenOK, ContextsOK, ContextOK
<1>2. CleanupsOK(k)
  BY DEF GenOK, CleanupsOK, FrameOK, CleanupOK
<1>3. GenOK(k)
  BY <1>1, <1>2 DEF GenOK
<1>4. Kept(h, k, Frames(h))
  BY DEF Kept, Frames
<1> QED
  BY <1>3, <1>4 DEF Becomes, Moves

LEMMA SetInsertPointIs ==
  ASSUME NEW h, GenOK(h), NEW b \in DOMAIN h.code
  PROVE  Becomes(h, SetInsertPoint(h, b), b, Opens(h))
<1> DEFINE k == SetInsertPoint(h, b)
<1>1. /\ DOMAIN k = DOMAIN h /\ k.at = b
      /\ k.ctx = h.ctx /\ k.fr = h.fr /\ k.cl = h.cl /\ k.cur = h.cur /\ k.code = h.code
  BY DEF SetInsertPoint, GenOK
<1> HIDE DEF k
<1>2. CodeOK(k)
  BY <1>1 DEF GenOK, CodeOK
<1>3. Opens(k) = Opens(h)
  BY <1>1 DEF Opens
<1> QED
  BY <1>1, <1>2, <1>3, CodeStep DEF k

\* An instruction at the insert point.
LEMMA EmitFacts ==
  ASSUME NEW h, GenOK(h), NEW e
  PROVE  LET k == Emit(h, e)
         IN  /\ DOMAIN k = DOMAIN h
             /\ k.ctx = h.ctx /\ k.fr = h.fr /\ k.cl = h.cl /\ k.cur = h.cur /\ k.at = h.at
             /\ IsSeq(k.code) /\ DOMAIN k.code = DOMAIN h.code
             /\ k.code[h.at] = Append(h.code[h.at], e)
             /\ \A b \in DOMAIN h.code : b # h.at => k.code[b] = h.code[b]
<1> DEFINE k == Emit(h, e)
<1>1. /\ DOMAIN k = DOMAIN h
      /\ k.ctx = h.ctx /\ k.fr = h.fr /\ k.cl = h.cl /\ k.cur = h.cur /\ k.at = h.at
      /\ k.code = [h.code EXCEPT ![h.at] = Append(h.code[h.at], e)]
  BY DEF Emit, GenOK
<1> HIDE DEF k
<1>2. IsSeq(h.code) /\ h.at \in DOMAIN h.code
  BY DEF GenOK, CodeOK
<1>3. /\ IsSeq(k.code) /\ DOMAIN k.code = DOMAIN h.code
      /\ k.code[h.at] = Append(h.code[h.at], e)
      /\ \A b \in DOMAIN h.code : b # h.at => k.code[b] = h.code[b]
  <2> DEFINE new == k.code
             old == h.code
             at  == h.at
             ext == Append(h.code[h.at], e)
  <2>1. new = [old EXCEPT ![at] = ext] /\ IsSeq(old) /\ at \in DOMAIN old
    BY <1>1, <1>2
  <2> HIDE DEF new, old, at, ext
  <2>2. /\ IsSeq(new) /\ DOMAIN new = DOMAIN old
        /\ new[at] = ext
        /\ \A b \in DOMAIN old : b # at => new[b] = old[b]
    BY <2>1, ExceptIs, Zenon
  <2> QED
    BY <2>2 DEF new, old, at, ext
<1> QED
  BY <1>1, <1>3 DEF k

LEMMA EmitPlain ==
  ASSUME NEW h, GenOK(h), h.at \in Opens(h), NEW e, e.op \notin Terminators
  PROVE  Emits(h, Emit(h, e))
<1> DEFINE k == Emit(h, e)
<1>1. /\ DOMAIN k = DOMAIN h
      /\ k.ctx = h.ctx /\ k.fr = h.fr /\ k.cl = h.cl /\ k.cur = h.cur /\ k.at = h.at
      /\ IsSeq(k.code) /\ DOMAIN k.code = DOMAIN h.code
      /\ k.code[h.at] = Append(h.code[h.at], e)
      /\ \A b \in DOMAIN h.code : b # h.at => k.code[b] = h.code[b]
  BY EmitFacts
<1> HIDE DEF k
<1>2. h.at \in DOMAIN h.code /\ Open(h.code[h.at])
  BY DEF Opens
<1>3. Open(k.code[h.at])
  BY <1>1, <1>2, OpenAppend
<1>4. CodeOK(k)
  BY <1>1, <1>2, <1>3 DEF GenOK, CodeOK
<1>5. Opens(k) = Opens(h)
  BY <1>1, <1>2, <1>3 DEF Opens
<1> QED
  BY <1>1, <1>4, <1>5, CodeStep DEF k, Emits

LEMMA EmitCloses ==
  ASSUME NEW h, GenOK(h), h.at \in Opens(h), NEW e, e.op \in Terminators
  PROVE  Becomes(h, Emit(h, e), h.at, Opens(h) \ {h.at})
<1> DEFINE k == Emit(h, e)
<1>1. /\ DOMAIN k = DOMAIN h
      /\ k.ctx = h.ctx /\ k.fr = h.fr /\ k.cl = h.cl /\ k.cur = h.cur /\ k.at = h.at
      /\ IsSeq(k.code) /\ DOMAIN k.code = DOMAIN h.code
      /\ k.code[h.at] = Append(h.code[h.at], e)
      /\ \A b \in DOMAIN h.code : b # h.at => k.code[b] = h.code[b]
  BY EmitFacts
<1> HIDE DEF k
<1>2. h.at \in DOMAIN h.code /\ Open(h.code[h.at])
  BY DEF Opens
<1>3. Closed(k.code[h.at])
  BY <1>1, <1>2, CloseAppend
<1>4. CodeOK(k)
  BY <1>1, <1>2, <1>3 DEF GenOK, CodeOK
<1>5. ~Open(k.code[h.at])
  BY <1>3, NotBoth
<1>6. Opens(k) = Opens(h) \ {h.at}
  BY <1>1, <1>2, <1>5 DEF Opens
<1>7. Becomes(h, k, k.at, Opens(k))
  BY <1>1, <1>4, CodeStep
<1> QED
  BY <1>1, <1>6, <1>7 DEF k

\* A new block.
LEMMA AddBlockIs ==
  ASSUME NEW h, GenOK(h), NEW s, Open(s) \/ Closed(s)
  PROVE  /\ NextBlock(h) \in Nat \ {0}
         /\ NextBlock(h) \notin DOMAIN h.code
         /\ NextBlock(h) \in DOMAIN AddBlock(h, s).code
         /\ Becomes(h, AddBlock(h, s), h.at,
                    IF Open(s) THEN Opens(h) \cup {NextBlock(h)} ELSE Opens(h))
<1> DEFINE k == AddBlock(h, s)
           b == NextBlock(h)
<1>1. /\ DOMAIN k = DOMAIN h
      /\ k.ctx = h.ctx /\ k.fr = h.fr /\ k.cl = h.cl /\ k.cur = h.cur /\ k.at = h.at
      /\ k.code = Append(h.code, s)
  BY DEF AddBlock, GenOK
<1>2. IsSeq(h.code) /\ h.at \in DOMAIN h.code /\ Len(h.code) \in Nat
  BY SeqFacts DEF GenOK, CodeOK
<1>3. b = Len(h.code) + 1
  BY DEF NextBlock
<1> HIDE DEF k, b
<1>4. /\ IsSeq(k.code) /\ DOMAIN k.code = DOMAIN h.code \cup {b} /\ b \notin DOMAIN h.code
      /\ \A i \in DOMAIN h.code : k.code[i] = h.code[i]
      /\ k.code[b] = s
  BY <1>1, <1>2, <1>3, AppendIs
<1>5. CodeOK(k)
  BY <1>1, <1>2, <1>4 DEF GenOK, CodeOK
<1>6. Opens(k) = IF Open(s) THEN Opens(h) \cup {b} ELSE Opens(h)
  BY <1>4 DEF Opens
<1>7. b \in Nat \ {0}
  BY <1>2, <1>3
<1>8. Becomes(h, k, k.at, Opens(k))
  BY <1>1, <1>4, <1>5, CodeStep
<1> QED
  BY <1>1, <1>4, <1>6, <1>7, <1>8 DEF k, b

LEMMA AddBlocksIs ==
  ASSUME NEW h, GenOK(h), NEW n \in Nat
  PROVE  /\ NextBlock(h) \in Nat \ {0}
         /\ \A i \in 0 .. (n - 1) : /\ NextBlock(h) + i \notin DOMAIN h.code
                                    /\ NextBlock(h) + i \in DOMAIN AddBlocks(h, n).code
         /\ Becomes(h, AddBlocks(h, n), h.at,
                    Opens(h) \cup (NextBlock(h) .. (NextBlock(h) + n - 1)))
<1> DEFINE k == AddBlocks(h, n)
           len == Len(h.code)
           t == [i \in 1 .. n |-> <<>>]
<1>1. /\ DOMAIN k = DOMAIN h
      /\ k.ctx = h.ctx /\ k.fr = h.fr /\ k.cl = h.cl /\ k.cur = h.cur /\ k.at = h.at
      /\ k.code = h.code \o t
  BY DEF AddBlocks, GenOK
<1>2. /\ IsSeq(h.code) /\ h.at \in DOMAIN h.code /\ len \in Nat
      /\ DOMAIN h.code = 1 .. len
  BY SeqFacts DEF GenOK, CodeOK
<1>3. NextBlock(h) = len + 1
  BY DEF NextBlock
<1> DEFINE nil == <<>>
           old == h.code
<1>t. t \in Seq({nil}) /\ Len(t) = n
  <2>1. t \in [1 .. n -> {nil}] /\ DOMAIN t = 1 .. n
    OBVIOUS
  <2> HIDE DEF t, nil
  <2> QED
    BY <2>1
<1> HIDE DEF k, t
<1>4. /\ IsSeq(k.code) /\ DOMAIN k.code = 1 .. (len + n)
      /\ \A i \in DOMAIN h.code : k.code[i] = h.code[i]
      /\ \A i \in (len + 1) .. (len + n) : k.code[i] = <<>>
  <2> DEFINE u == k.code
  <2>1. u = old \o t /\ IsSeq(old) /\ len = Len(old)
    BY <1>1, <1>2
  <2> HIDE DEF old, len, nil, u
  <2>2. Lengthened(u, old, n, nil)
    BY <2>1, <1>t, ConcatIs, Zenon
  <2> QED
    BY <2>1, <2>2 DEF old, nil, u, Lengthened
<1> HIDE DEF len
<1>5. \A i \in (len + 1) .. (len + n) : Open(k.code[i]) /\ i \notin DOMAIN h.code
  BY <1>2, <1>4, OpenEmpty
<1>6. DOMAIN k.code = DOMAIN h.code \cup ((len + 1) .. (len + n))
  BY <1>2, <1>4
<1>7. CodeOK(k)
  BY <1>1, <1>2, <1>4, <1>5, <1>6 DEF GenOK, CodeOK
<1>8. Opens(k) = Opens(h) \cup ((len + 1) .. (len + n))
  BY <1>4, <1>5, <1>6 DEF Opens
<1>9. \A i \in 0 .. (n - 1) : NextBlock(h) + i \in (len + 1) .. (len + n)
  BY <1>2, <1>3
<1>10. NextBlock(h) .. (NextBlock(h) + n - 1) = (len + 1) .. (len + n)
  BY <1>2, <1>3
<1>11. NextBlock(h) \in Nat \ {0}
  BY <1>2, <1>3
<1>12. Becomes(h, k, h.at, Opens(k))
  BY <1>1, <1>6, <1>7, CodeStep
<1> QED
  BY <1>5, <1>6, <1>8, <1>9, <1>10, <1>11, <1>12 DEF k

-----------------------------------------------------------------------------
(* Steps that leave the code alone.                                        *)

\* The records of t are those of s but for the fields in F.
Edited(s, t, F) ==
  /\ IsSeq(t)
  /\ DOMAIN t = DOMAIN s
  /\ \A i \in DOMAIN s : /\ DOMAIN t[i] = DOMAIN s[i]
                         /\ \A n \in DOMAIN s[i] \ F : t[i][n] = s[i][n]

CtxCaches == {"unwind", "catches"}
ClCaches == {"unwind", "lp", "busy"}

LEMMA EditedRefl ==
  ASSUME NEW s, IsSeq(s), NEW F
  PROVE  Edited(s, s, F)
  BY DEF Edited

LEMMA EditIs ==
  ASSUME NEW s, IsSeq(s), NEW i, NEW F, NEW f \in F, NEW x
  PROVE  Edited(s, [s EXCEPT ![i] = [s[i] EXCEPT ![f] = x]], F)
<1> DEFINE r == [s[i] EXCEPT ![f] = x]
           t == [s EXCEPT ![i] = r]
<1>1. DOMAIN r = DOMAIN s[i] /\ \A n \in DOMAIN s[i] \ F : r[n] = s[i][n]
  OBVIOUS
<1> HIDE DEF r
<1>2. t = [s EXCEPT ![i] = r]
  OBVIOUS
<1> HIDE DEF t
<1>3. /\ IsSeq(t) /\ DOMAIN t = DOMAIN s
      /\ i \in DOMAIN s => t[i] = r
      /\ \A j \in DOMAIN s : j # i => t[j] = s[j]
  BY <1>2, ExceptIs, Zenon
<1>4. Edited(s, t, F)
  BY <1>1, <1>3 DEF Edited
<1> QED
  BY <1>4 DEF t, r

LEMMA StateStep ==
  ASSUME NEW h, NEW k, GenOK(h), DOMAIN k = DOMAIN h,
         k.code = h.code, k.at = h.at, k.cur = h.cur,
         Edited(h.ctx, k.ctx, CtxCaches),
         Edited(h.fr, k.fr, {"lp"}),
         Edited(h.cl, k.cl, ClCaches)
  PROVE  Emits(h, k)
<1>1. \A c \in DOMAIN h.ctx : \A n \in Decides \cup {"frames", "nested"} : k.ctx[c][n] = h.ctx[c][n]
  <2> TAKE c \in DOMAIN h.ctx
  <2> TAKE n \in Decides \cup {"frames", "nested"}
  <2>1. n \in CtxFields \ CtxCaches
    BY DEF CtxFields, Decides, CtxCaches
  <2>2. CtxFields \subseteq DOMAIN h.ctx[c]
    BY DEF GenOK, ContextsOK, ContextOK
  <2> QED
    BY <2>1, <2>2 DEF Edited
<1>2. \A f \in DOMAIN h.fr : k.fr[f].ctx = h.fr[f].ctx /\ k.fr[f].cleanups = h.fr[f].cleanups
  BY DEF GenOK, CleanupsOK, FrameOK, Edited
<1>3. \A v \in DOMAIN h.cl : k.cl[v].fr = h.cl[v].fr
  BY DEF GenOK, CleanupsOK, CleanupOK, Edited, ClCaches
<1>4. ContextsOK(k)
  <2>1. \A c \in DOMAIN h.ctx : ContextOK(k, c)
    <3> TAKE c \in DOMAIN h.ctx
    <3>1. ContextOK(h, c)
      BY DEF GenOK, ContextsOK
    <3>2. DOMAIN k.ctx = DOMAIN h.ctx /\ DOMAIN k.fr = DOMAIN h.fr /\ DOMAIN k.ctx[c] = DOMAIN h.ctx[c]
      BY DEF Edited
    <3>3. /\ k.ctx[c].path = h.ctx[c].path /\ k.ctx[c].frames = h.ctx[c].frames
          /\ k.ctx[c].nested = h.ctx[c].nested /\ k.ctx[c].loop = h.ctx[c].loop
          /\ k.ctx[c].catch = h.ctx[c].catch /\ k.ctx[c].body = h.ctx[c].body
      BY <1>1 DEF Decides
    <3> QED
      BY <3>1, <3>2, <3>3 DEF ContextOK
  <2> QED
    BY <2>1 DEF GenOK, ContextsOK, Edited
<1>5. CleanupsOK(k)
  BY <1>2, <1>3 DEF GenOK, CleanupsOK, FrameOK, CleanupOK, Edited
<1>6. GenOK(k)
  BY <1>4, <1>5 DEF GenOK, CodeOK
<1>7. Kept(h, k, Frames(h))
  BY <1>1 DEF Kept, Frames, Edited
<1>8. Opens(k) = Opens(h)
  BY DEF Opens
<1> QED
  BY <1>6, <1>7, <1>8 DEF Emits, Becomes, Moves

LEMMA Seqs ==
  ASSUME NEW h, GenOK(h)
  PROVE  IsSeq(h.ctx) /\ IsSeq(h.fr) /\ IsSeq(h.cl) /\ IsSeq(h.code)
  BY DEF GenOK, ContextsOK, CleanupsOK, CodeOK

LEMMA SetClIs ==
  ASSUME NEW h, GenOK(h), NEW v, NEW f \in ClCaches, NEW x
  PROVE  Emits(h, [h EXCEPT !.cl = [h.cl EXCEPT ![v] = [h.cl[v] EXCEPT ![f] = x]]])
<1> DEFINE t == [h.cl EXCEPT ![v] = [h.cl[v] EXCEPT ![f] = x]]
           k == [h EXCEPT !.cl = t]
<1>1. Edited(h.cl, t, ClCaches)
  BY EditIs, Seqs, Zenon
<1> HIDE DEF t
<1>2. /\ DOMAIN k = DOMAIN h /\ k.ctx = h.ctx /\ k.fr = h.fr /\ k.cl = t /\ k.cur = h.cur
      /\ k.code = h.code /\ k.at = h.at
  BY DEF GenOK
<1> HIDE DEF k
<1>3. Emits(h, k)
  BY <1>1, <1>2, Seqs, EditedRefl, StateStep
<1> QED
  BY <1>3 DEF k, t

LEMMA SetFrIs ==
  ASSUME NEW h, GenOK(h), NEW f, NEW x
  PROVE  Emits(h, [h EXCEPT !.fr = [h.fr EXCEPT ![f] = [h.fr[f] EXCEPT !["lp"] = x]]])
<1> DEFINE t == [h.fr EXCEPT ![f] = [h.fr[f] EXCEPT !["lp"] = x]]
           k == [h EXCEPT !.fr = t]
<1>0. "lp" \in {"lp"}
  OBVIOUS
<1>1. Edited(h.fr, t, {"lp"})
  BY <1>0, EditIs, Seqs, Zenon
<1> HIDE DEF t
<1>2. /\ DOMAIN k = DOMAIN h /\ k.ctx = h.ctx /\ k.fr = t /\ k.cl = h.cl /\ k.cur = h.cur
      /\ k.code = h.code /\ k.at = h.at
  BY DEF GenOK
<1> HIDE DEF k
<1>3. Emits(h, k)
  BY <1>1, <1>2, Seqs, EditedRefl, StateStep
<1> QED
  BY <1>3 DEF k, t

LEMMA SetCtxIs ==
  ASSUME NEW h, GenOK(h), NEW c, NEW f \in CtxCaches, NEW x
  PROVE  Emits(h, [h EXCEPT !.ctx = [h.ctx EXCEPT ![c] = [h.ctx[c] EXCEPT ![f] = x]]])
<1> DEFINE t == [h.ctx EXCEPT ![c] = [h.ctx[c] EXCEPT ![f] = x]]
           k == [h EXCEPT !.ctx = t]
<1>1. Edited(h.ctx, t, CtxCaches)
  BY EditIs, Seqs, Zenon
<1> HIDE DEF t
<1>2. /\ DOMAIN k = DOMAIN h /\ k.ctx = t /\ k.fr = h.fr /\ k.cl = h.cl /\ k.cur = h.cur
      /\ k.code = h.code /\ k.at = h.at
  BY DEF GenOK
<1> HIDE DEF k
<1>3. Emits(h, k)
  BY <1>1, <1>2, Seqs, EditedRefl, StateStep
<1> QED
  BY <1>3 DEF k, t

-----------------------------------------------------------------------------
(* Cleanup frames.                                                         *)

LEMMA FrameStep ==
  ASSUME NEW h, NEW k, NEW fs, GenOK(h), DOMAIN k = DOMAIN h,
         k.code = h.code, k.at = h.at, k.cur = h.cur,
         Edited(h.ctx, k.ctx, {"frames"}),
         \A c \in DOMAIN h.ctx : k.ctx[c].frames = IF c = h.cur THEN fs ELSE h.ctx[c].frames,
         fs \in Seq(DOMAIN k.fr),
         DOMAIN h.fr \subseteq DOMAIN k.fr,
         DOMAIN h.cl \subseteq DOMAIN k.cl,
         CleanupsOK(k)
  PROVE  Moves(h, k, fs, h.at, Opens(h))
<1>1. \A c \in DOMAIN h.ctx : \A n \in Decides \cup {"nested"} : k.ctx[c][n] = h.ctx[c][n]
  <2> TAKE c \in DOMAIN h.ctx
  <2> TAKE n \in Decides \cup {"nested"}
  <2>1. n \in CtxFields \ {"frames"}
    BY DEF CtxFields, Decides
  <2>2. CtxFields \subseteq DOMAIN h.ctx[c]
    BY DEF GenOK, ContextsOK, ContextOK
  <2> QED
    BY <2>1, <2>2 DEF Edited
<1>2. \A c \in DOMAIN h.ctx : ContextOK(k, c)
  <2> TAKE c \in DOMAIN h.ctx
  <2>1. ContextOK(h, c)
    BY DEF GenOK, ContextsOK
  <2>2. DOMAIN k.ctx = DOMAIN h.ctx /\ DOMAIN k.ctx[c] = DOMAIN h.ctx[c]
    BY DEF Edited
  <2>3. /\ k.ctx[c].path = h.ctx[c].path
        /\ k.ctx[c].nested = h.ctx[c].nested /\ k.ctx[c].loop = h.ctx[c].loop
        /\ k.ctx[c].catch = h.ctx[c].catch /\ k.ctx[c].body = h.ctx[c].body
    BY <1>1 DEF Decides
  <2>4. h.ctx[c].frames \in Seq(DOMAIN k.fr)
    BY <2>1, SeqMonotonic DEF ContextOK
  <2>5. k.ctx[c].frames \in Seq(DOMAIN k.fr)
    BY <2>4
  <2> QED
    BY <2>1, <2>2, <2>3, <2>5 DEF ContextOK
<1>3. ContextsOK(k)
  BY <1>2 DEF GenOK, ContextsOK, Edited
<1>4. GenOK(k)
  BY <1>3 DEF GenOK, CodeOK
<1>5. Kept(h, k, fs)
  BY <1>1 DEF Kept, Edited
<1>6. Opens(k) = Opens(h)
  BY DEF Opens
<1> QED
  BY <1>4, <1>5, <1>6 DEF Moves

LEMMA FrameFacts ==
  ASSUME NEW h, GenOK(h)
  PROVE  /\ h.cur \in DOMAIN h.ctx
         /\ Frames(h) \in Seq(DOMAIN h.fr)
         /\ Len(h.fr) \in Nat /\ DOMAIN h.fr = 1 .. Len(h.fr)
         /\ "frames" \in DOMAIN h.ctx[h.cur]
  BY SeqFacts DEF GenOK, ContextsOK, CleanupsOK, ContextOK, CtxFields, Frames

\* The frames of the current context are replaced.
WithFrames(h, fs) == [h EXCEPT !.ctx[h.cur].frames = fs]

LEMMA SetFrames ==
  ASSUME NEW h, GenOK(h), NEW fs \in Seq(DOMAIN h.fr)
  PROVE  Moves(h, WithFrames(h, fs), fs, h.at, Opens(h))
<1> DEFINE t == [h.ctx EXCEPT ![h.cur] = [h.ctx[h.cur] EXCEPT !["frames"] = fs]]
           k == WithFrames(h, fs)
<1>0. "frames" \in {"frames"}
  OBVIOUS
<1>1. Edited(h.ctx, t, {"frames"})
  BY <1>0, EditIs, Seqs, Zenon
<1>2. \A c \in DOMAIN h.ctx : t[c].frames = IF c = h.cur THEN fs ELSE h.ctx[c].frames
  BY FrameFacts
<1>3. /\ DOMAIN k = DOMAIN h /\ k.ctx = t /\ k.fr = h.fr /\ k.cl = h.cl /\ k.cur = h.cur
      /\ k.code = h.code /\ k.at = h.at
  BY DEF GenOK, WithFrames
<1> HIDE DEF k, t
<1>4. CleanupsOK(k)
  <2>1. k.ctx = t /\ DOMAIN t = DOMAIN h.ctx
    BY <1>1, <1>3 DEF Edited
  <2> QED
    BY <1>3, <2>1 DEF GenOK, CleanupsOK, FrameOK, CleanupOK
<1>5. Moves(h, k, fs, h.at, Opens(h))
  BY <1>1, <1>2, <1>3, <1>4, FrameStep
<1> QED
  BY <1>5 DEF k

LEMMA createCleanupFrameIs ==
  ASSUME NEW h, GenOK(h)
  PROVE  /\ Append(Frames(h), Len(h.fr) + 1) \in Seq(DOMAIN createCleanupFrame(h).fr)
         /\ Moves(h, createCleanupFrame(h), Append(Frames(h), Len(h.fr) + 1), h.at, Opens(h))
<1> DEFINE f  == Len(h.fr) + 1
           fs == Append(Frames(h), f)
           t  == [h.ctx EXCEPT ![h.cur] = [h.ctx[h.cur] EXCEPT !["frames"] = fs]]
           k  == createCleanupFrame(h)
<1>0. "frames" \in {"frames"}
  OBVIOUS
<1>1. Edited(h.ctx, t, {"frames"})
  BY <1>0, EditIs, Seqs, Zenon
<1>2. \A c \in DOMAIN h.ctx : t[c].frames = IF c = h.cur THEN fs ELSE h.ctx[c].frames
  BY FrameFacts
<1>3. /\ DOMAIN k = DOMAIN h /\ k.ctx = t /\ k.fr = Append(h.fr, NewFrame(h.cur))
      /\ k.cl = h.cl /\ k.cur = h.cur /\ k.code = h.code /\ k.at = h.at
  BY DEF GenOK, createCleanupFrame, Frames
<1> HIDE DEF k, t
<1>4. /\ IsSeq(k.fr) /\ DOMAIN k.fr = DOMAIN h.fr \cup {f}
      /\ \A i \in DOMAIN h.fr : k.fr[i] = h.fr[i]
      /\ k.fr[f] = NewFrame(h.cur)
  BY <1>3, Seqs, AppendIs
<1>5. fs \in Seq(DOMAIN k.fr)
  <2>1. Frames(h) \in Seq(DOMAIN k.fr) /\ f \in DOMAIN k.fr
    BY <1>4, FrameFacts, SeqMonotonic
  <2> HIDE DEF f
  <2> QED
    BY <2>1
<1> HIDE DEF fs, f
<1>6. DOMAIN k.ctx = DOMAIN h.ctx
  BY <1>1, <1>3 DEF Edited
<1>7. FrameOK(k, f)
  <2>1. k.fr[f] = [ctx |-> h.cur, cleanups |-> <<>>, lp |-> 0]
    BY <1>4 DEF NewFrame
  <2>2. <<>> \in Seq(DOMAIN k.cl)
    OBVIOUS
  <2> QED
    BY <2>1, <2>2, <1>6, FrameFacts DEF FrameOK
<1>8. CleanupsOK(k)
  <2>1. \A i \in DOMAIN k.fr : FrameOK(k, i)
    BY <1>3, <1>4, <1>6, <1>7 DEF GenOK, CleanupsOK, FrameOK
  <2>2. \A v \in DOMAIN k.cl : CleanupOK(k, v)
    BY <1>3, <1>4 DEF GenOK, CleanupsOK, CleanupOK
  <2> QED
    BY <1>3, <1>4, <2>1, <2>2, Seqs DEF CleanupsOK
<1>9. Moves(h, k, fs, h.at, Opens(h))
  BY <1>1, <1>2, <1>3, <1>4, <1>5, <1>8, FrameStep
<1> QED
  BY <1>5, <1>9 DEF k, fs, f

\* The newest frame of the current context gets a cleanup.
LEMMA addCleanupIs ==
  ASSUME NEW h, GenOK(h), Frames(h) # <<>>
  PROVE  Emits(h, addCleanup(h))
<1> DEFINE f == Last(Frames(h))
           v == Len(h.cl) + 1
           r == [fr |-> f, unwind |-> 0, lp |-> 0, busy |-> FALSE]
           q == Append(h.fr[f].cleanups, v)
           t == [h.fr EXCEPT ![f] = [h.fr[f] EXCEPT !["cleanups"] = q]]
           k == addCleanup(h)
<1>0. "cleanups" \in {"cleanups"}
  OBVIOUS
<1>1. Edited(h.fr, t, {"cleanups"})
  BY <1>0, EditIs, Seqs, Zenon
<1>2. f \in DOMAIN h.fr
  <2>1. Frames(h) \in Seq(DOMAIN h.fr) /\ Len(Frames(h)) \in 1 .. Len(Frames(h))
    BY FrameFacts
  <2> QED
    BY <2>1 DEF Last
<1>3. /\ DOMAIN k = DOMAIN h /\ k.ctx = h.ctx /\ k.fr = t
      /\ k.cl = Append(h.cl, r) /\ k.cur = h.cur /\ k.code = h.code /\ k.at = h.at
  BY DEF GenOK, addCleanup, Frames
<1>4. \A i \in DOMAIN h.fr : t[i].cleanups = IF i = f THEN q ELSE h.fr[i].cleanups
  BY <1>2 DEF GenOK, CleanupsOK, FrameOK
<1>5. r.fr = f /\ {"fr", "unwind", "lp", "busy"} \subseteq DOMAIN r
  OBVIOUS
<1> HIDE DEF k, t, r
<1>6. /\ IsSeq(k.cl) /\ DOMAIN k.cl = DOMAIN h.cl \cup {v}
      /\ \A i \in DOMAIN h.cl : k.cl[i] = h.cl[i]
      /\ k.cl[v] = r
  BY <1>3, Seqs, AppendIs
<1>7. q \in Seq(DOMAIN k.cl)
  <2>1. h.fr[f].cleanups \in Seq(DOMAIN h.cl)
    BY <1>2 DEF GenOK, CleanupsOK, FrameOK
  <2>2. h.fr[f].cleanups \in Seq(DOMAIN k.cl) /\ v \in DOMAIN k.cl
    BY <1>6, <2>1, SeqMonotonic
  <2> HIDE DEF v, f
  <2> QED
    BY <2>2, AppendProperties, Zenon
<1> HIDE DEF f, q, v
<1>8. \A i \in DOMAIN k.fr : FrameOK(k, i)
  <2> TAKE i \in DOMAIN k.fr
  <2>1. i \in DOMAIN h.fr /\ DOMAIN t[i] = DOMAIN h.fr[i] /\ FrameOK(h, i)
    BY <1>1, <1>3 DEF Edited, GenOK, CleanupsOK
  <2>2. t[i].ctx = h.fr[i].ctx
    BY <1>1, <2>1 DEF Edited, FrameOK
  <2>3. h.fr[i].cleanups \in Seq(DOMAIN k.cl)
    BY <1>6, <2>1, SeqMonotonic DEF FrameOK
  <2>4. t[i].cleanups \in Seq(DOMAIN k.cl)
    BY <1>4, <1>7, <2>1, <2>3
  <2> QED
    BY <1>3, <2>1, <2>2, <2>4 DEF FrameOK
<1>9. DOMAIN k.fr = DOMAIN h.fr /\ IsSeq(k.fr)
  BY <1>1, <1>3 DEF Edited
<1>10. \A i \in DOMAIN k.cl : CleanupOK(k, i)
  BY <1>2, <1>5, <1>6, <1>9 DEF CleanupOK, GenOK, CleanupsOK
<1>11. CleanupsOK(k)
  BY <1>6, <1>8, <1>9, <1>10 DEF CleanupsOK
<1>12. Edited(h.ctx, k.ctx, {"frames"})
  BY <1>3, Seqs, EditedRefl
<1>13. Moves(h, k, Frames(h), h.at, Opens(h))
  <2>1. \A c \in DOMAIN h.ctx : k.ctx[c].frames = IF c = h.cur THEN Frames(h) ELSE h.ctx[c].frames
    BY <1>3 DEF Frames
  <2>2. Frames(h) \in Seq(DOMAIN k.fr)
    BY <1>9, FrameFacts
  <2> QED
    BY <1>3, <1>6, <1>9, <1>11, <1>12, <2>1, <2>2, FrameStep
<1> QED
  BY <1>13 DEF k, Emits, Becomes

-----------------------------------------------------------------------------
(* Folds.  The induction over the length of a sequence is done once for    *)
(* all the operators that the generator folds: a lemma cannot take the     *)
(* operator as a parameter, so each fold has a name.                       *)

\* Between the start and the accumulator of an unwind path.
UnwindRel(start, acc) ==
  {"g", "next"} \subseteq DOMAIN acc /\ Emits(start.g, acc.g)

\* Between the start and the accumulators of the selectors.
FixRel(start, acc) ==
  {"g", "catches"} \subseteq DOMAIN acc /\ Emits(start.g, acc.g)

BelowRel(start, acc) ==
  {"g", "below"} \subseteq DOMAIN acc /\ Emits(start.g, acc.g)

\* One step of each fold, and what the fold keeps.
Folded(fold, acc, x) ==
  CASE fold = "cleanups"  -> UnwindCleanup(acc, x)
    [] fold = "frames"    -> UnwindFrame(acc, x)
    [] fold = "contexts"  -> UnwindContext(acc, x)
    [] fold = "close"     -> CloseCleanup(acc, x)
    [] fold = "closeAll"  -> close(acc, x)
    [] fold = "closeTo"   -> closeAllCleanups(acc, x)
    [] fold = "fix"       -> FixChild(acc, x)
    [] fold = "below"     -> FixBelow(acc, x)

Keeping(fold, start, acc) ==
  CASE fold \in {"cleanups", "frames", "contexts"} -> UnwindRel(start, acc)
    [] fold \in {"close", "closeAll", "closeTo"} -> Emits(start, acc)
    [] fold = "fix"   -> FixRel(start, acc)
    [] fold = "below" -> BelowRel(start, acc)

\* The recursion of FoldLeft over the sets of indices.
FoldStep(fold, base, seq, f, s) ==
  IF s = {} THEN base ELSE Folded(fold, f[s \ {Max(s)}], seq[Max(s)])

IsFold(fold, base, seq, f) ==
  f = [s \in SUBSET DOMAIN seq |-> FoldStep(fold, base, seq, f, s)]

\* A nonempty set of numbers has a least one.
LEMMA LeastNumber ==
  ASSUME NEW S \in SUBSET Nat, S # {}
  PROVE  \E k \in S : \A j \in S : k <= j
<1> DEFINE Less == {p \in Nat \X Nat : p[1] < p[2]}
<1>1. IsWellFoundedOn(Less, Nat)
  BY NatLessThanWellFounded, Zenon DEF OpToRel
<1>2. PICK k \in S : \A j \in S : ~(<<j, k>> \in Less)
  <2> HIDE DEF Less
  <2> QED
    BY <1>1, WFMin, Zenon
<1>3. \A j \in S : k <= j
  <2> SUFFICES ASSUME NEW j \in S, ~(k <= j) PROVE FALSE
    OBVIOUS
  <2>1. j \in Nat /\ k \in Nat /\ j < k
    OBVIOUS
  <2>2. <<j, k>> \in Less
    BY <2>1
  <2> QED
    BY <1>2, <2>2, Zenon
<1> QED
  BY <1>3

\* A nonempty set of indices has its maximum.
LEMMA MaxIsMember ==
  ASSUME NEW n \in Nat, NEW s \in SUBSET (1 .. n), s # {}
  PROVE  Max(s) \in s /\ \A x \in s : x <= Max(s)
<1> DEFINE Bounds == {k \in Nat : \A x \in s : x <= k}
<1>1. n \in Bounds
  OBVIOUS
<1>2. PICK k \in Bounds : \A j \in Bounds : k <= j
  <2> HIDE DEF Bounds
  <2>1. Bounds \subseteq Nat
    BY DEF Bounds
  <2> QED
    BY <1>1, <2>1, LeastNumber
<1>3. k \in Nat /\ \A x \in s : x <= k
  OBVIOUS
<1>4. k \in s
  <2> SUFFICES ASSUME k \notin s PROVE FALSE
    OBVIOUS
  <2>1. \A x \in s : x \in Nat /\ x < k
    BY <1>3
  <2>2. k # 0
    <3>1. PICK x \in s : TRUE
      OBVIOUS
    <3>2. x \in Nat /\ x < k
      BY <2>1
    <3> QED
      BY <3>2
  <2>3. k - 1 \in Nat /\ \A x \in s : x <= k - 1
    BY <1>3, <2>1, <2>2
  <2>4. k - 1 \in Bounds
    BY <2>3
  <2>5. k <= k - 1
    BY <1>2, <2>4
  <2> QED
    BY <1>3, <2>5
<1>5. \A y \in s : k >= y
  BY <1>3
<1>6. \E x \in s : \A y \in s : x >= y
  BY <1>4, <1>5
<1>7. Max(s) \in s /\ \A y \in s : Max(s) >= y
  BY <1>6 DEF Max
<1> QED
  BY <1>7

LEMMA MinIsMember ==
  ASSUME NEW n \in Nat, NEW s \in SUBSET (1 .. n), s # {}
  PROVE  Min(s) \in s
<1>1. s \in SUBSET Nat
  OBVIOUS
<1>2. \E k \in s : \A j \in s : k <= j
  BY <1>1, LeastNumber
<1> QED
  BY <1>2 DEF Min

\* What is left without the maximum is smaller by one.
LEMMA WithoutMax ==
  ASSUME NEW n \in Nat, NEW s \in SUBSET (1 .. n)
  PROVE  /\ IsFiniteSet(s)
         /\ Cardinality(s) \in Nat
         /\ s = {} <=> Cardinality(s) = 0
         /\ s # {} => /\ s \ {Max(s)} \in SUBSET (1 .. n)
                      /\ Cardinality(s \ {Max(s)}) = Cardinality(s) - 1
                      /\ Cardinality(s) - 1 \in Nat
<1>1. IsFiniteSet(s)
  <2>1. IsFiniteSet(1 .. n)
    BY FS_Interval
  <2> QED
    BY <2>1, FS_Subset
<1>2. Cardinality(s) \in Nat /\ (s = {} <=> Cardinality(s) = 0)
  BY <1>1, FS_CardinalityType, FS_EmptySet
<1>3. s # {} => Max(s) \in s
  BY MaxIsMember
<1>4. s # {} => Cardinality(s \ {Max(s)}) = Cardinality(s) - 1
  BY <1>1, <1>3, FS_RemoveElement
<1>5. s # {} => Cardinality(s) - 1 \in Nat
  <2>1. \A c \in Nat : c # 0 => c - 1 \in Nat
    OBVIOUS
  <2> QED
    BY <1>2, <2>1
<1>6. s \ {Max(s)} \in SUBSET (1 .. n)
  OBVIOUS
<1> QED
  BY <1>1, <1>2, <1>4, <1>5, <1>6

\* The recursion has a solution.
LEMMA FoldExists ==
  ASSUME NEW fold, NEW base, NEW seq, NEW len \in Nat, DOMAIN seq = 1 .. len
  PROVE  \E f : IsFold(fold, base, seq, f)
<1> DEFINE Sub(n) == {s \in SUBSET DOMAIN seq : Cardinality(s) <= n}
           Solves(f, n) == f = [s \in Sub(n) |-> FoldStep(fold, base, seq, f, s)]
           Bad == {n \in Nat : ~\E f : Solves(f, n)}
<1>1. \A n \in Nat : \E f : Solves(f, n)
  <2> SUFFICES ASSUME Bad # {} PROVE FALSE
    OBVIOUS
  <2>1. PICK n \in Bad : \A j \in Bad : n <= j
    <3>1. Bad \subseteq Nat
      OBVIOUS
    <3> HIDE DEF Bad
    <3> QED
      BY <3>1, LeastNumber
  <2>2. n \in Nat /\ ~\E f : Solves(f, n)
    OBVIOUS
  <2>3. n # 0
    <3> SUFFICES ASSUME n = 0 PROVE FALSE
      OBVIOUS
    <3> DEFINE f == [s \in Sub(0) |-> base]
    <3>1. \A s \in Sub(0) : s = {}
      <4> TAKE s \in Sub(0)
      <4>1. s \in SUBSET (1 .. len) /\ Cardinality(s) <= 0
        OBVIOUS
      <4>2. Cardinality(s) \in Nat /\ (s = {} <=> Cardinality(s) = 0)
        BY <4>1, WithoutMax
      <4> QED
        BY <4>1, <4>2
    <3>2. \A s \in Sub(0) : FoldStep(fold, base, seq, f, s) = base
      BY <3>1 DEF FoldStep
    <3>3. [s \in Sub(0) |-> FoldStep(fold, base, seq, f, s)] = [s \in Sub(0) |-> base]
      <4> HIDE DEF f, Sub
      <4> QED
        BY <3>2
    <3>4. f = [s \in Sub(0) |-> base]
      OBVIOUS
    <3>5. f = [s \in Sub(0) |-> FoldStep(fold, base, seq, f, s)]
      <4> HIDE DEF f, Sub
      <4> QED
        BY <3>3, <3>4
    <3> QED
      BY <3>5, <2>2
  <2>4. n - 1 \in Nat /\ n - 1 \notin Bad
    <3> HIDE DEF Bad
    <3> QED
      BY <2>1, <2>2, <2>3
  <2>5. PICK prior : Solves(prior, n - 1)
    BY <2>4
  <2> DEFINE f == [s \in Sub(n) |-> FoldStep(fold, base, seq, prior, s)]
  <2>6. \A s \in Sub(n - 1) : s \in Sub(n) /\ f[s] = prior[s]
    <3>1. \A s \in Sub(n - 1) : s \in Sub(n)
      <4> TAKE s \in Sub(n - 1)
      <4>1. Cardinality(s) \in Nat /\ Cardinality(s) <= n - 1
        BY WithoutMax
      <4> QED
        BY <4>1, <2>2
    <3>2. \A s \in Sub(n - 1) : prior[s] = FoldStep(fold, base, seq, prior, s)
      <4>1. prior = [s \in Sub(n - 1) |-> FoldStep(fold, base, seq, prior, s)]
        BY <2>5
      <4> HIDE DEF Sub
      <4> QED
        BY <4>1
    <3> QED
      BY <3>1, <3>2
  <2>7. \A s \in Sub(n) : s # {} => s \ {Max(s)} \in Sub(n - 1)
    <3> TAKE s \in Sub(n)
    <3>1. Cardinality(s) \in Nat /\ Cardinality(s) <= n
      BY WithoutMax
    <3>2. s # {} => s \ {Max(s)} \in SUBSET DOMAIN seq /\ Cardinality(s \ {Max(s)}) = Cardinality(s) - 1
      BY WithoutMax
    <3> QED
      BY <3>1, <3>2, <2>2
  <2>8. \A s \in Sub(n) : FoldStep(fold, base, seq, prior, s) = FoldStep(fold, base, seq, f, s)
    <3> TAKE s \in Sub(n)
    <3>1. s # {} => prior[s \ {Max(s)}] = f[s \ {Max(s)}]
      BY <2>6, <2>7
    <3> HIDE DEF f
    <3> QED
      BY <3>1 DEF FoldStep
  <2>9. f = [s \in Sub(n) |-> FoldStep(fold, base, seq, f, s)]
    <3> DEFINE h == [s \in Sub(n) |-> FoldStep(fold, base, seq, f, s)]
    <3>1. \A s \in Sub(n) : f[s] = h[s]
      BY <2>8
    <3>2. DOMAIN f = Sub(n) /\ DOMAIN h = Sub(n)
      OBVIOUS
    <3>3. f = h
      BY <2>8
    <3> QED
      BY <3>3
  <2> QED
    BY <2>9, <2>2
<1>2. Cardinality(DOMAIN seq) \in Nat
  BY WithoutMax
<1>3. PICK f : Solves(f, Cardinality(DOMAIN seq))
  BY <1>1, <1>2
<1>4. Sub(Cardinality(DOMAIN seq)) = SUBSET DOMAIN seq
  <2>1. \A s \in SUBSET DOMAIN seq : Cardinality(s) <= Cardinality(DOMAIN seq)
    BY FS_Interval, FS_Subset
  <2> QED
    BY <2>1
<1> QED
  BY <1>3, <1>4 DEF IsFold

\* What holds between the start and every accumulator that a step leads to, holds
\* between the start and the result.
LEMMA FoldKeeps ==
  ASSUME NEW fold, NEW base, NEW seq, NEW len \in Nat, DOMAIN seq = 1 .. len,
         NEW f, IsFold(fold, base, seq, f),
         Keeping(fold, base, base),
         \A acc : \A i \in DOMAIN seq :
            Keeping(fold, base, acc) => Keeping(fold, base, Folded(fold, acc, seq[i]))
  PROVE  Keeping(fold, base, f[DOMAIN seq])
<1> DEFINE Bad == {n \in Nat : \E s \in SUBSET DOMAIN seq :
                             Cardinality(s) = n /\ ~Keeping(fold, base, f[s])}
<1>1. \A s \in SUBSET DOMAIN seq : f[s] = FoldStep(fold, base, seq, f, s)
  BY DEF IsFold
<1>2. \A s \in SUBSET DOMAIN seq : Keeping(fold, base, f[s])
  <2> SUFFICES ASSUME NEW s \in SUBSET DOMAIN seq, ~Keeping(fold, base, f[s]) PROVE FALSE
    OBVIOUS
  <2>1. Cardinality(s) \in Bad
    BY WithoutMax
  <2>2. PICK n \in Bad : \A j \in Bad : n <= j
    <3>1. Bad \subseteq Nat
      OBVIOUS
    <3> HIDE DEF Bad
    <3> QED
      BY <2>1, <3>1, LeastNumber
  <2>3. PICK t \in SUBSET DOMAIN seq : Cardinality(t) = n /\ ~Keeping(fold, base, f[t])
    OBVIOUS
  <2>4. t # {}
    <3>1. t = {} => f[t] = base
      BY <1>1 DEF FoldStep
    <3> QED
      BY <3>1, <2>3
  <2> DEFINE r == t \ {Max(t)}
  <2>5. r \in SUBSET DOMAIN seq /\ Cardinality(r) = n - 1 /\ n - 1 \in Nat /\ Max(t) \in DOMAIN seq
    BY <2>3, <2>4, WithoutMax, MaxIsMember
  <2>6. Keeping(fold, base, f[r])
    <3> HIDE DEF r
    <3>1. n - 1 \notin Bad
      <4>1. n \in Nat /\ ~(n <= n - 1)
        BY <2>2
      <4> QED
        BY <4>1, <2>2
    <3> QED
      BY <3>1, <2>5
  <2>7. f[t] = Folded(fold, f[r], seq[Max(t)])
    BY <1>1, <2>4 DEF FoldStep
  <2> QED
    BY <2>3, <2>5, <2>6, <2>7
<1> QED
  BY <1>2

LEMMA FoldCleanupsIs ==
  ASSUME NEW start, NEW S, NEW seq \in Seq(S), UnwindRel(start, start),
         \A acc : \A x \in S : UnwindRel(start, acc) => UnwindRel(start, UnwindCleanup(acc, x))
  PROVE  UnwindRel(start, FoldLeft(UnwindCleanup, start, seq))
<1> DEFINE E(h) == [s \in SUBSET DOMAIN seq |->
                      IF s = {} THEN start ELSE UnwindCleanup(h[s \ {Max(s)}], seq[Max(s)])]
           f == CHOOSE h : h = E(h)
<1>1. Len(seq) \in Nat /\ DOMAIN seq = 1 .. Len(seq) /\ \A i \in DOMAIN seq : seq[i] \in S
  OBVIOUS
<1>2. FoldLeft(UnwindCleanup, start, seq) = f[DOMAIN seq]
  BY Zenon DEF FoldLeft, MapThenFoldSet
<1>3. \A h : IsFold("cleanups", start, seq, h) <=> h = E(h)
  BY DEF IsFold, FoldStep, Folded
<1>4. \E h : h = E(h)
  BY <1>1, <1>3, FoldExists
<1> HIDE DEF E
<1>5. IsFold("cleanups", start, seq, f)
  BY <1>3, <1>4
<1> HIDE DEF f
<1>6. \A acc, x : /\ Keeping("cleanups", start, acc) <=> UnwindRel(start, acc)
                  /\ Folded("cleanups", acc, x) = UnwindCleanup(acc, x)
  BY DEF Keeping, Folded
<1>7. Keeping("cleanups", start, f[DOMAIN seq])
  BY <1>1, <1>5, <1>6, FoldKeeps
<1> QED
  BY <1>2, <1>6, <1>7

LEMMA FoldFramesIs ==
  ASSUME NEW start, NEW S, NEW seq \in Seq(S), UnwindRel(start, start),
         \A acc : \A x \in S : UnwindRel(start, acc) => UnwindRel(start, UnwindFrame(acc, x))
  PROVE  UnwindRel(start, FoldLeft(UnwindFrame, start, seq))
<1> DEFINE E(h) == [s \in SUBSET DOMAIN seq |->
                      IF s = {} THEN start ELSE UnwindFrame(h[s \ {Max(s)}], seq[Max(s)])]
           f == CHOOSE h : h = E(h)
<1>1. Len(seq) \in Nat /\ DOMAIN seq = 1 .. Len(seq) /\ \A i \in DOMAIN seq : seq[i] \in S
  OBVIOUS
<1>2. FoldLeft(UnwindFrame, start, seq) = f[DOMAIN seq]
  BY Zenon DEF FoldLeft, MapThenFoldSet
<1>3. \A h : IsFold("frames", start, seq, h) <=> h = E(h)
  BY DEF IsFold, FoldStep, Folded
<1>4. \E h : h = E(h)
  BY <1>1, <1>3, FoldExists
<1> HIDE DEF E
<1>5. IsFold("frames", start, seq, f)
  BY <1>3, <1>4
<1> HIDE DEF f
<1>6. \A acc, x : /\ Keeping("frames", start, acc) <=> UnwindRel(start, acc)
                  /\ Folded("frames", acc, x) = UnwindFrame(acc, x)
  BY DEF Keeping, Folded
<1>7. Keeping("frames", start, f[DOMAIN seq])
  BY <1>1, <1>5, <1>6, FoldKeeps
<1> QED
  BY <1>2, <1>6, <1>7

LEMMA FoldContextsIs ==
  ASSUME NEW start, NEW S, NEW seq \in Seq(S), UnwindRel(start, start),
         \A acc : \A x \in S : UnwindRel(start, acc) => UnwindRel(start, UnwindContext(acc, x))
  PROVE  UnwindRel(start, FoldLeft(UnwindContext, start, seq))
<1> DEFINE E(h) == [s \in SUBSET DOMAIN seq |->
                      IF s = {} THEN start ELSE UnwindContext(h[s \ {Max(s)}], seq[Max(s)])]
           f == CHOOSE h : h = E(h)
<1>1. Len(seq) \in Nat /\ DOMAIN seq = 1 .. Len(seq) /\ \A i \in DOMAIN seq : seq[i] \in S
  OBVIOUS
<1>2. FoldLeft(UnwindContext, start, seq) = f[DOMAIN seq]
  BY Zenon DEF FoldLeft, MapThenFoldSet
<1>3. \A h : IsFold("contexts", start, seq, h) <=> h = E(h)
  BY DEF IsFold, FoldStep, Folded
<1>4. \E h : h = E(h)
  BY <1>1, <1>3, FoldExists
<1> HIDE DEF E
<1>5. IsFold("contexts", start, seq, f)
  BY <1>3, <1>4
<1> HIDE DEF f
<1>6. \A acc, x : /\ Keeping("contexts", start, acc) <=> UnwindRel(start, acc)
                  /\ Folded("contexts", acc, x) = UnwindContext(acc, x)
  BY DEF Keeping, Folded
<1>7. Keeping("contexts", start, f[DOMAIN seq])
  BY <1>1, <1>5, <1>6, FoldKeeps
<1> QED
  BY <1>2, <1>6, <1>7

LEMMA FoldCloseIs ==
  ASSUME NEW start, NEW S, NEW seq \in Seq(S), Emits(start, start),
         \A acc : \A x \in S : Emits(start, acc) => Emits(start, CloseCleanup(acc, x))
  PROVE  Emits(start, FoldLeft(CloseCleanup, start, seq))
<1> DEFINE E(h) == [s \in SUBSET DOMAIN seq |->
                      IF s = {} THEN start ELSE CloseCleanup(h[s \ {Max(s)}], seq[Max(s)])]
           f == CHOOSE h : h = E(h)
<1>1. Len(seq) \in Nat /\ DOMAIN seq = 1 .. Len(seq) /\ \A i \in DOMAIN seq : seq[i] \in S
  OBVIOUS
<1>2. FoldLeft(CloseCleanup, start, seq) = f[DOMAIN seq]
  BY Zenon DEF FoldLeft, MapThenFoldSet
<1>3. \A h : IsFold("close", start, seq, h) <=> h = E(h)
  BY DEF IsFold, FoldStep, Folded
<1>4. \E h : h = E(h)
  BY <1>1, <1>3, FoldExists
<1> HIDE DEF E
<1>5. IsFold("close", start, seq, f)
  BY <1>3, <1>4
<1> HIDE DEF f
<1>6. \A acc, x : /\ Keeping("close", start, acc) <=> Emits(start, acc)
                  /\ Folded("close", acc, x) = CloseCleanup(acc, x)
  BY DEF Keeping, Folded
<1>7. Keeping("close", start, f[DOMAIN seq])
  BY <1>1, <1>5, <1>6, FoldKeeps
<1> QED
  BY <1>2, <1>6, <1>7

LEMMA FoldCloseAllIs ==
  ASSUME NEW start, NEW S, NEW seq \in Seq(S), Emits(start, start),
         \A acc : \A x \in S : Emits(start, acc) => Emits(start, close(acc, x))
  PROVE  Emits(start, FoldLeft(close, start, seq))
<1> DEFINE E(h) == [s \in SUBSET DOMAIN seq |->
                      IF s = {} THEN start ELSE close(h[s \ {Max(s)}], seq[Max(s)])]
           f == CHOOSE h : h = E(h)
<1>1. Len(seq) \in Nat /\ DOMAIN seq = 1 .. Len(seq) /\ \A i \in DOMAIN seq : seq[i] \in S
  OBVIOUS
<1>2. FoldLeft(close, start, seq) = f[DOMAIN seq]
  BY Zenon DEF FoldLeft, MapThenFoldSet
<1>3. \A h : IsFold("closeAll", start, seq, h) <=> h = E(h)
  BY DEF IsFold, FoldStep, Folded
<1>4. \E h : h = E(h)
  BY <1>1, <1>3, FoldExists
<1> HIDE DEF E
<1>5. IsFold("closeAll", start, seq, f)
  BY <1>3, <1>4
<1> HIDE DEF f
<1>6. \A acc, x : /\ Keeping("closeAll", start, acc) <=> Emits(start, acc)
                  /\ Folded("closeAll", acc, x) = close(acc, x)
  BY DEF Keeping, Folded
<1>7. Keeping("closeAll", start, f[DOMAIN seq])
  BY <1>1, <1>5, <1>6, FoldKeeps
<1> QED
  BY <1>2, <1>6, <1>7

LEMMA FoldCloseToIs ==
  ASSUME NEW start, NEW S, NEW seq \in Seq(S), Emits(start, start),
         \A acc : \A x \in S : Emits(start, acc) => Emits(start, closeAllCleanups(acc, x))
  PROVE  Emits(start, FoldLeft(closeAllCleanups, start, seq))
<1> DEFINE E(h) == [s \in SUBSET DOMAIN seq |->
                      IF s = {} THEN start ELSE closeAllCleanups(h[s \ {Max(s)}], seq[Max(s)])]
           f == CHOOSE h : h = E(h)
<1>1. Len(seq) \in Nat /\ DOMAIN seq = 1 .. Len(seq) /\ \A i \in DOMAIN seq : seq[i] \in S
  OBVIOUS
<1>2. FoldLeft(closeAllCleanups, start, seq) = f[DOMAIN seq]
  BY Zenon DEF FoldLeft, MapThenFoldSet
<1>3. \A h : IsFold("closeTo", start, seq, h) <=> h = E(h)
  BY DEF IsFold, FoldStep, Folded
<1>4. \E h : h = E(h)
  BY <1>1, <1>3, FoldExists
<1> HIDE DEF E
<1>5. IsFold("closeTo", start, seq, f)
  BY <1>3, <1>4
<1> HIDE DEF f
<1>6. \A acc, x : /\ Keeping("closeTo", start, acc) <=> Emits(start, acc)
                  /\ Folded("closeTo", acc, x) = closeAllCleanups(acc, x)
  BY DEF Keeping, Folded
<1>7. Keeping("closeTo", start, f[DOMAIN seq])
  BY <1>1, <1>5, <1>6, FoldKeeps
<1> QED
  BY <1>2, <1>6, <1>7

LEMMA FoldFixIs ==
  ASSUME NEW start, NEW S, NEW seq \in Seq(S), FixRel(start, start),
         \A acc : \A x \in S : FixRel(start, acc) => FixRel(start, FixChild(acc, x))
  PROVE  FixRel(start, FoldLeft(FixChild, start, seq))
<1> DEFINE E(h) == [s \in SUBSET DOMAIN seq |->
                      IF s = {} THEN start ELSE FixChild(h[s \ {Max(s)}], seq[Max(s)])]
           f == CHOOSE h : h = E(h)
<1>1. Len(seq) \in Nat /\ DOMAIN seq = 1 .. Len(seq) /\ \A i \in DOMAIN seq : seq[i] \in S
  OBVIOUS
<1>2. FoldLeft(FixChild, start, seq) = f[DOMAIN seq]
  BY Zenon DEF FoldLeft, MapThenFoldSet
<1>3. \A h : IsFold("fix", start, seq, h) <=> h = E(h)
  BY DEF IsFold, FoldStep, Folded
<1>4. \E h : h = E(h)
  BY <1>1, <1>3, FoldExists
<1> HIDE DEF E
<1>5. IsFold("fix", start, seq, f)
  BY <1>3, <1>4
<1> HIDE DEF f
<1>6. \A acc, x : /\ Keeping("fix", start, acc) <=> FixRel(start, acc)
                  /\ Folded("fix", acc, x) = FixChild(acc, x)
  BY DEF Keeping, Folded
<1>7. Keeping("fix", start, f[DOMAIN seq])
  BY <1>1, <1>5, <1>6, FoldKeeps
<1> QED
  BY <1>2, <1>6, <1>7

LEMMA FoldBelowIs ==
  ASSUME NEW start, NEW S, NEW seq \in Seq(S), BelowRel(start, start),
         \A acc : \A x \in S : BelowRel(start, acc) => BelowRel(start, FixBelow(acc, x))
  PROVE  BelowRel(start, FoldLeft(FixBelow, start, seq))
<1> DEFINE E(h) == [s \in SUBSET DOMAIN seq |->
                      IF s = {} THEN start ELSE FixBelow(h[s \ {Max(s)}], seq[Max(s)])]
           f == CHOOSE h : h = E(h)
<1>1. Len(seq) \in Nat /\ DOMAIN seq = 1 .. Len(seq) /\ \A i \in DOMAIN seq : seq[i] \in S
  OBVIOUS
<1>2. FoldLeft(FixBelow, start, seq) = f[DOMAIN seq]
  BY Zenon DEF FoldLeft, MapThenFoldSet
<1>3. \A h : IsFold("below", start, seq, h) <=> h = E(h)
  BY DEF IsFold, FoldStep, Folded
<1>4. \E h : h = E(h)
  BY <1>1, <1>3, FoldExists
<1> HIDE DEF E
<1>5. IsFold("below", start, seq, f)
  BY <1>3, <1>4
<1> HIDE DEF f
<1>6. \A acc, x : /\ Keeping("below", start, acc) <=> BelowRel(start, acc)
                  /\ Folded("below", acc, x) = FixBelow(acc, x)
  BY DEF Keeping, Folded
<1>7. Keeping("below", start, f[DOMAIN seq])
  BY <1>1, <1>5, <1>6, FoldKeeps
<1> QED
  BY <1>2, <1>6, <1>7

-----------------------------------------------------------------------------
(* Unwinding.                                                              *)

LEMMA MaxOf ==
  ASSUME NEW S, NEW s \in Seq(S), NEW I \in SUBSET DOMAIN s, I # {}
  PROVE  Max(I) \in I
<1>1. Len(s) \in Nat /\ I \in SUBSET (1 .. Len(s))
  OBVIOUS
<1> QED
  BY <1>1, MaxIsMember

LEMMA MinOf ==
  ASSUME NEW S, NEW s \in Seq(S), NEW I \in SUBSET DOMAIN s, I # {}
  PROVE  Min(I) \in I
<1>1. Len(s) \in Nat /\ I \in SUBSET (1 .. Len(s))
  OBVIOUS
<1> QED
  BY <1>1, MinIsMember

LEMMA PathIs ==
  ASSUME NEW h, GenOK(h), NEW c \in DOMAIN h.ctx
  PROVE  Path(h, c) \in Seq(DOMAIN h.ctx)
  BY DEF GenOK, ContextsOK, ContextOK, Path

LEMMA InnerContextsIs ==
  ASSUME NEW h, GenOK(h), NEW c \in DOMAIN h.ctx, NEW outer \in DOMAIN h.ctx
  PROVE  InnerContexts(h, c, outer) \in Seq(DOMAIN h.ctx)
<1> DEFINE s == Path(h, c)
           i == Len(Path(h, outer)) + 1
<1>1. s \in Seq(DOMAIN h.ctx) /\ Path(h, outer) \in Seq(DOMAIN h.ctx)
  BY PathIs
<1>2. i \in Nat \ {0} /\ Len(s) \in Int /\ Len(s) <= Len(s)
  BY <1>1
<1> HIDE DEF s, i
<1>3. SubSeq(s, i, Len(s)) \in Seq(DOMAIN h.ctx)
  BY <1>1, <1>2, SubSeqIs
<1> QED
  BY <1>3 DEF InnerContexts, s, i

\* The try statement around a context.
LEMMA getCatchIs ==
  ASSUME NEW h, GenOK(h), NEW c \in DOMAIN h.ctx
  PROVE  /\ getCatch(h, c) \in DOMAIN h.ctx
         /\ getCatch(h, c) = Toplevel \/ h.ctx[getCatch(h, c)].catch # 0
<1> DEFINE s == Path(h, c)
           I == {i \in DOMAIN s : h.ctx[s[i]].catch # 0}
<1>1. s \in Seq(DOMAIN h.ctx)
  BY PathIs
<1>2. getCatch(h, c) = IF I = {} THEN Toplevel ELSE s[Max(I)]
  BY DEF getCatch
<1>3. Toplevel \in DOMAIN h.ctx
  BY DEF GenOK, ContextsOK
<1>4. CASE I = {}
  BY <1>2, <1>3, <1>4
<1>5. CASE I # {}
  <2>1. Max(I) \in I
    <3>1. I \in SUBSET DOMAIN s
      OBVIOUS
    <3> HIDE DEF I, s
    <3> QED
      BY <1>1, <1>5, <3>1, MaxOf
  <2>2. Max(I) \in DOMAIN s /\ h.ctx[s[Max(I)]].catch # 0
    BY <2>1
  <2> HIDE DEF I, s
  <2>3. s[Max(I)] \in DOMAIN h.ctx
    BY <1>1, <2>2
  <2> QED
    BY <1>2, <1>5, <2>2, <2>3
<1> QED
  BY <1>4, <1>5

LEMMA getBreakIs ==
  ASSUME NEW h, GenOK(h), NEW c \in DOMAIN h.ctx, getBreak(h, c) # 0
  PROVE  /\ getBreak(h, c) \in DOMAIN h.ctx
         /\ h.ctx[getBreak(h, c)].loop # NoLoop
<1> DEFINE s == Path(h, c)
           I == {i \in DOMAIN s : h.ctx[s[i]].loop # NoLoop}
<1>1. s \in Seq(DOMAIN h.ctx)
  BY PathIs
<1>2. getBreak(h, c) = IF I = {} THEN 0 ELSE s[Max(I)]
  BY DEF getBreak
<1>3. I # {}
  BY <1>2
<1>4. Max(I) \in I
  <2>1. I \in SUBSET DOMAIN s
    OBVIOUS
  <2> HIDE DEF I, s
  <2> QED
    BY <1>1, <1>3, <2>1, MaxOf
<1>5. Max(I) \in DOMAIN s /\ h.ctx[s[Max(I)]].loop # NoLoop
  BY <1>4
<1> HIDE DEF I, s
<1>6. s[Max(I)] \in DOMAIN h.ctx
  BY <1>1, <1>5
<1> QED
  BY <1>2, <1>3, <1>5, <1>6

LEMMA PendingIs ==
  ASSUME NEW h, GenOK(h), NEW f \in DOMAIN h.fr
  PROVE  Pending(h, f) \in Seq(DOMAIN h.cl)
<1> DEFINE s == h.fr[f].cleanups
           I == {i \in DOMAIN s : h.cl[s[i]].busy}
<1>1. s \in Seq(DOMAIN h.cl)
  BY DEF GenOK, CleanupsOK, FrameOK
<1>2. Pending(h, f) = IF I = {} THEN s ELSE SubSeq(s, 1, Min(I) - 1)
  BY DEF Pending
<1>3. I \in SUBSET DOMAIN s
  OBVIOUS
<1> HIDE DEF I, s
<1>4. I # {} => Min(I) \in DOMAIN s
  BY <1>1, <1>3, MinOf
<1>5. I # {} => Min(I) - 1 \in Int /\ Min(I) - 1 <= Len(s)
  BY <1>1, <1>4
<1>6. I # {} => SubSeq(s, 1, Min(I) - 1) \in Seq(DOMAIN h.cl)
  <2> DEFINE j == Min(I) - 1
  <2> HIDE DEF j
  <2> SUFFICES ASSUME I # {} PROVE SubSeq(s, 1, j) \in Seq(DOMAIN h.cl)
    BY DEF j
  <2>1. j \in Int /\ j <= Len(s) /\ 1 \in Nat \ {0}
    BY <1>5 DEF j
  <2> QED
    BY <1>1, <2>1, SubSeqIs
<1> QED
  BY <1>1, <1>2, <1>6

\* A landing pad is a closed block.
LEMMA createLandingPadIs ==
  ASSUME NEW h, GenOK(h), NEW next, NEW try
  PROVE  Emits(h, createLandingPad(h, next, try))
<1> DEFINE d == [op |-> "lp", try |-> try]
           e == Br(next)
<1>1. d.op \notin Terminators /\ e.op \in Terminators
  BY DEF Terminators, Br
<1> HIDE DEF d, e
<1>2. Closed(<<d, e>>) /\ ~Open(<<d, e>>)
  BY <1>1, Pair, NotBoth
<1>3. Becomes(h, AddBlock(h, <<d, e>>), h.at, Opens(h))
  BY <1>2, AddBlockIs
<1> QED
  BY <1>3 DEF createLandingPad, Emits, d, e

LEMMA UnwindCleanupIs ==
  ASSUME NEW start, NEW acc, NEW v, GenOK(start.g), UnwindRel(start, acc)
  PROVE  UnwindRel(start, UnwindCleanup(acc, v))
<1> DEFINE h == acc.g
           c == h.fr[h.cl[v].fr].ctx
           try == getCatch(h, c)
           pad == IF h.ctx[try].catch # 0 THEN try ELSE 0
           d == [op |-> "clean", v |-> v, ctx |-> c, ex |-> NextBlock(h) + 1]
           e == Br(acc.next)
           k == AddBlock(h, <<d, e>>)
           l == createLandingPad(k, acc.next, pad)
           m1 == [l EXCEPT !.cl = [l.cl EXCEPT ![v] = [l.cl[v] EXCEPT !["unwind"] = NextBlock(h)]]]
<1>1. Emits(start.g, h) /\ {"g", "next"} \subseteq DOMAIN acc
  BY DEF UnwindRel
<1>2. GenOK(h)
  BY <1>1 DEF Emits, Becomes, Moves
<1>3. d.op \notin Terminators /\ e.op \in Terminators
  BY DEF Terminators, Br
<1>4. UnwindCleanup(acc, v) = IF h.cl[v].unwind # 0 THEN [acc EXCEPT !.next = h.cl[v].unwind]
                              ELSE [g |-> m1, next |-> NextBlock(h)]
  BY DEF UnwindCleanup
<1> HIDE DEF d, e
<1>5. Closed(<<d, e>>) /\ ~Open(<<d, e>>)
  BY <1>3, Pair, NotBoth
<1> HIDE DEF h
<1>6. Emits(h, k)
  BY <1>2, <1>5, AddBlockIs DEF Emits
<1>7. GenOK(k)
  BY <1>6 DEF Emits, Becomes, Moves
<1> HIDE DEF k, pad
<1>8. Emits(k, l)
  BY <1>7, createLandingPadIs
<1>9. GenOK(l)
  BY <1>8 DEF Emits, Becomes, Moves
<1> HIDE DEF l
<1>10. "unwind" \in ClCaches
  BY DEF ClCaches
<1>11. Emits(l, m1)
  BY <1>9, <1>10, SetClIs, Zenon
<1> HIDE DEF m1
<1>12. Emits(start.g, m1)
  BY <1>1, <1>2, <1>6, <1>7, <1>8, <1>9, <1>11, EmitsTrans
<1>13. CASE h.cl[v].unwind # 0
  <2> DEFINE r == [acc EXCEPT !.next = h.cl[v].unwind]
  <2>1. DOMAIN r = DOMAIN acc /\ r.g = acc.g
    BY <1>1
  <2>2. UnwindCleanup(acc, v) = r
    BY <1>4, <1>13
  <2> HIDE DEF r
  <2> QED
    BY <1>1, <2>1, <2>2 DEF UnwindRel, h
<1>14. CASE ~(h.cl[v].unwind # 0)
  <2> DEFINE r == [g |-> m1, next |-> NextBlock(h)]
  <2>1. {"g", "next"} \subseteq DOMAIN r /\ r.g = m1
    OBVIOUS
  <2>2. UnwindCleanup(acc, v) = r
    BY <1>4, <1>14
  <2> HIDE DEF r
  <2> QED
    BY <1>12, <2>1, <2>2 DEF UnwindRel
<1> QED
  BY <1>13, <1>14

-----------------------------------------------------------------------------
(* The folds of an unwind path.                                            *)

LEMMA UnwindRelRefl ==
  ASSUME NEW acc, GenOK(acc.g), {"g", "next"} \subseteq DOMAIN acc
  PROVE  UnwindRel(acc, acc)
  BY EmitsRefl DEF UnwindRel

LEMMA UnwindRelTrans ==
  ASSUME NEW a, NEW b, NEW c, GenOK(a.g), UnwindRel(a, b), UnwindRel(b, c)
  PROVE  UnwindRel(a, c)
  BY EmitsTrans DEF UnwindRel

LEMMA UnwindRelFacts ==
  ASSUME NEW a, NEW b, UnwindRel(a, b)
  PROVE  /\ GenOK(b.g) /\ {"g", "next"} \subseteq DOMAIN b
         /\ DOMAIN b.g.ctx = DOMAIN a.g.ctx
         /\ DOMAIN a.g.fr \subseteq DOMAIN b.g.fr
         /\ DOMAIN a.g.cl \subseteq DOMAIN b.g.cl
  BY DEF UnwindRel, Emits, Becomes, Moves, Kept

LEMMA UnwindFrameIs ==
  ASSUME NEW acc, GenOK(acc.g), {"g", "next"} \subseteq DOMAIN acc, NEW f \in DOMAIN acc.g.fr
  PROVE  UnwindRel(acc, UnwindFrame(acc, f))
<1>1. UnwindRel(acc, acc)
  BY UnwindRelRefl
<1>2. Pending(acc.g, f) \in Seq(DOMAIN acc.g.cl)
  BY PendingIs
<1>3. \A a : \A v \in DOMAIN acc.g.cl : UnwindRel(acc, a) => UnwindRel(acc, UnwindCleanup(a, v))
  BY UnwindCleanupIs
<1> QED
  BY <1>1, <1>2, <1>3, FoldCleanupsIs DEF UnwindFrame

LEMMA UnwindContextIs ==
  ASSUME NEW acc, GenOK(acc.g), {"g", "next"} \subseteq DOMAIN acc, NEW c \in DOMAIN acc.g.ctx
  PROVE  UnwindRel(acc, UnwindContext(acc, c))
<1>1. UnwindRel(acc, acc)
  BY UnwindRelRefl
<1>2. acc.g.ctx[c].frames \in Seq(DOMAIN acc.g.fr)
  BY DEF GenOK, ContextsOK, ContextOK
<1>3. \A a : \A f \in DOMAIN acc.g.fr : UnwindRel(acc, a) => UnwindRel(acc, UnwindFrame(a, f))
  <2> SUFFICES ASSUME NEW a, NEW f \in DOMAIN acc.g.fr, UnwindRel(acc, a)
               PROVE  UnwindRel(acc, UnwindFrame(a, f))
    OBVIOUS
  <2>1. UnwindRel(a, UnwindFrame(a, f))
    BY UnwindRelFacts, UnwindFrameIs
  <2> QED
    BY <2>1, UnwindRelTrans
<1> QED
  BY <1>1, <1>2, <1>3, FoldFramesIs DEF UnwindContext

LEMMA emitUnwindCleanupsIs ==
  ASSUME NEW h, GenOK(h), NEW c \in DOMAIN h.ctx, NEW outer \in DOMAIN h.ctx, NEW final
  PROVE  Emits(h, emitUnwindCleanups(h, c, outer, final).g)
<1> DEFINE acc == [g |-> h, next |-> final]
<1>1. acc.g = h /\ {"g", "next"} \subseteq DOMAIN acc
  OBVIOUS
<1>2. emitUnwindCleanups(h, c, outer, final) = FoldLeft(UnwindContext, acc, InnerContexts(h, c, outer))
  BY DEF emitUnwindCleanups
<1> HIDE DEF acc
<1>3. UnwindRel(acc, acc)
  BY <1>1, UnwindRelRefl
<1>4. InnerContexts(h, c, outer) \in Seq(DOMAIN h.ctx)
  BY InnerContextsIs
<1>5. \A a : \A x \in DOMAIN h.ctx : UnwindRel(acc, a) => UnwindRel(acc, UnwindContext(a, x))
  <2> SUFFICES ASSUME NEW a, NEW x \in DOMAIN h.ctx, UnwindRel(acc, a)
               PROVE  UnwindRel(acc, UnwindContext(a, x))
    OBVIOUS
  <2>1. GenOK(a.g) /\ {"g", "next"} \subseteq DOMAIN a /\ x \in DOMAIN a.g.ctx
    BY <1>1, UnwindRelFacts
  <2>2. UnwindRel(a, UnwindContext(a, x))
    BY <2>1, UnwindContextIs
  <2> QED
    BY <1>1, <2>2, UnwindRelTrans
<1>6. UnwindRel(acc, FoldLeft(UnwindContext, acc, InnerContexts(h, c, outer)))
  BY <1>3, <1>4, <1>5, FoldContextsIs
<1> QED
  BY <1>1, <1>2, <1>6 DEF UnwindRel

LEMMA withUnwindBlockIs ==
  ASSUME NEW h, GenOK(h), NEW c
  PROVE  Emits(h, withUnwindBlock(h, c))
<1> DEFINE e == [op |-> "resume", scope |-> {}]
           k == AddBlock(h, <<e>>)
           l == [k EXCEPT !.ctx = [k.ctx EXCEPT ![c] = [k.ctx[c] EXCEPT !["unwind"] = NextBlock(h)]]]
<1>1. e.op \in Terminators
  BY DEF Terminators
<1>2. withUnwindBlock(h, c) = IF h.ctx[c].unwind # 0 THEN h ELSE l
  BY DEF withUnwindBlock
<1> HIDE DEF e
<1>3. Closed(<<e>>) /\ ~Open(<<e>>)
  BY <1>1, Singleton, NotBoth
<1>4. Emits(h, k)
  BY <1>3, AddBlockIs DEF Emits
<1>5. GenOK(k)
  BY <1>4 DEF Emits, Becomes, Moves
<1> HIDE DEF k
<1>6. "unwind" \in CtxCaches
  BY DEF CtxCaches
<1>7. Emits(k, l)
  BY <1>5, <1>6, SetCtxIs, Zenon
<1> HIDE DEF l
<1> QED
  BY <1>2, <1>4, <1>7, EmitsTrans, EmitsRefl

LEMMA getLandingPadIs ==
  ASSUME NEW path, GenOK(path.g), NEW f, NEW try
  PROVE  Emits(path.g, getLandingPad(path, f, try).g)
<1> DEFINE h == path.g
           newest == IF h.fr[f].cleanups = <<>> THEN 0 ELSE Last(h.fr[f].cleanups)
           cached == IF newest = 0 THEN h.fr[f].lp ELSE h.cl[newest].lp
           k == createLandingPad(h, path.next, try)
           a == [k EXCEPT !.fr = [k.fr EXCEPT ![f] = [k.fr[f] EXCEPT !["lp"] = NextBlock(h)]]]
           b == [k EXCEPT !.cl = [k.cl EXCEPT ![newest] = [k.cl[newest] EXCEPT !["lp"] = NextBlock(h)]]]
<1>1. getLandingPad(path, f, try).g = IF cached # 0 THEN h ELSE IF newest = 0 THEN a ELSE b
  BY DEF getLandingPad
<1> HIDE DEF newest, cached
<1>2. Emits(h, k)
  BY createLandingPadIs
<1>3. GenOK(k)
  BY <1>2 DEF Emits, Becomes, Moves
<1> HIDE DEF k, h
<1>4. Emits(k, a)
  BY <1>3, SetFrIs, Zenon
<1>5. "lp" \in ClCaches
  BY DEF ClCaches
<1>6. Emits(k, b)
  BY <1>3, <1>5, SetClIs, Zenon
<1> HIDE DEF a, b
<1>7. Emits(h, h)
  BY EmitsRefl DEF h
<1>8. Emits(h, a) /\ Emits(h, b)
  BY <1>2, <1>4, <1>6, EmitsTrans DEF h
<1> QED
  BY <1>1, <1>7, <1>8 DEF h

LEMMA getUnwindBlockIs ==
  ASSUME NEW h, GenOK(h), NEW c \in DOMAIN h.ctx
  PROVE  Emits(h, getUnwindBlock(h, c).g)
<1> DEFINE try == getCatch(h, c)
           p == emitUnwindCleanups(h, c, try, h.ctx[try].catch)
           k == withUnwindBlock(h, Toplevel)
           q == ResumePath(k, c)
           f == Last(h.ctx[c].frames)
<1>1. getUnwindBlock(h, c) = IF h.ctx[try].catch # 0 THEN getLandingPad(p, f, try)
                             ELSE getLandingPad(q, f, 0)
  BY DEF getUnwindBlock
<1>2. try \in DOMAIN h.ctx
  BY getCatchIs
<1>3. Emits(h, p.g)
  BY <1>2, emitUnwindCleanupsIs
<1>4. Emits(h, k)
  BY withUnwindBlockIs
<1>5. GenOK(k) /\ c \in DOMAIN k.ctx /\ Outside \in DOMAIN k.ctx
  BY <1>4 DEF Emits, Becomes, Moves, Kept, GenOK, ContextsOK
<1>6. Emits(k, q.g)
  BY <1>5, emitUnwindCleanupsIs DEF ResumePath
<1>7. Emits(h, q.g)
  BY <1>4, <1>6, EmitsTrans
<1>8. GenOK(p.g) /\ GenOK(q.g)
  BY <1>3, <1>7 DEF Emits, Becomes, Moves
<1> HIDE DEF p, q, f, try, k
<1>9. Emits(p.g, getLandingPad(p, f, try).g) /\ Emits(q.g, getLandingPad(q, f, 0).g)
  BY <1>8, getLandingPadIs
<1>10. Emits(h, getLandingPad(p, f, try).g) /\ Emits(h, getLandingPad(q, f, 0).g)
  BY <1>3, <1>7, <1>9, EmitsTrans
<1> QED
  BY <1>1, <1>10

-----------------------------------------------------------------------------
(* Calls and the end of a cleanup frame.                                   *)

\* The insert point is open.
Ready(h) == GenOK(h) /\ h.at \in Opens(h)

LEMMA EmitsFacts ==
  ASSUME NEW h, NEW k, Emits(h, k)
  PROVE  /\ GenOK(k) /\ k.at = h.at /\ Opens(k) = Opens(h) /\ k.cur = h.cur
         /\ DOMAIN k.ctx = DOMAIN h.ctx
         /\ DOMAIN h.fr \subseteq DOMAIN k.fr
         /\ DOMAIN h.cl \subseteq DOMAIN k.cl
         /\ DOMAIN h.code \subseteq DOMAIN k.code
  BY DEF Emits, Becomes, Moves, Kept

LEMMA EmitsReady ==
  ASSUME NEW h, NEW k, Ready(h), Emits(h, k)
  PROVE  Ready(k)
  BY EmitsFacts DEF Ready

LEMMA InvokeIs ==
  ASSUME NEW h, Ready(h), NEW u, Emits(h, u.g), NEW i, "op" \in DOMAIN i
  PROVE  /\ i.op \notin Terminators => Emits(h, Invoke(u, i))
         /\ i.op \in Terminators => Becomes(h, Invoke(u, i), h.at, Opens(h) \ {h.at})
<1> DEFINE k == u.g
           e == [i EXCEPT !.ex = u.lp]
<1>1. e.op = i.op
  OBVIOUS
<1>2. Ready(k) /\ k.at = h.at /\ Opens(k) = Opens(h) /\ GenOK(h)
  BY EmitsReady, EmitsFacts DEF Ready
<1>3. Invoke(u, i) = Emit(k, e)
  BY DEF Invoke
<1> HIDE DEF k, e
<1>4. Emits(h, k)
  BY DEF k
<1>5. i.op \notin Terminators => Emits(h, Emit(k, e))
  BY <1>1, <1>2, <1>4, EmitPlain, EmitsTrans DEF Ready
<1>6. i.op \in Terminators => Becomes(h, Emit(k, e), h.at, Opens(h) \ {h.at})
  <2> SUFFICES ASSUME i.op \in Terminators
               PROVE  Becomes(h, Emit(k, e), h.at, Opens(h) \ {h.at})
    OBVIOUS
  <2>1. Becomes(k, Emit(k, e), h.at, Opens(h) \ {h.at})
    <3>1. Becomes(k, Emit(k, e), k.at, Opens(k) \ {k.at})
      BY <1>1, <1>2, EmitCloses DEF Ready
    <3> QED
      BY <1>2, <3>1
  <2>2. Becomes(h, k, h.at, Opens(h))
    BY <1>4 DEF Emits
  <2> QED
    BY <1>2, <2>1, <2>2, BecomesTrans
<1> QED
  BY <1>3, <1>5, <1>6

LEMMA emitFuncCallIs ==
  ASSUME NEW h, Ready(h)
  PROVE  Emits(h, emitFuncCall(h))
<1> DEFINE u == getUnwindBlock(h, h.cur)
           i == [op |-> "call", ctx |-> h.cur, ex |-> 0, scope |-> Scope(h, h.cur)]
<1>1. "op" \in DOMAIN i /\ i.op \notin Terminators
  BY DEF Terminators
<1>2. Emits(h, u.g)
  BY getUnwindBlockIs DEF Ready, GenOK, ContextsOK
<1>3. emitFuncCall(h) = Invoke(u, i)
  BY DEF emitFuncCall
<1> HIDE DEF u, i
<1> QED
  BY <1>1, <1>2, <1>3, InvokeIs

LEMMA CloseCleanupIs ==
  ASSUME NEW h, Ready(h), NEW v \in DOMAIN h.cl
  PROVE  Emits(h, CloseCleanup(h, v))
<1> DEFINE c == h.fr[h.cl[v].fr].ctx
           k == [h EXCEPT !.cl = [h.cl EXCEPT ![v] = [h.cl[v] EXCEPT !["busy"] = TRUE]]]
           u == getUnwindBlock(k, c)
           i == [op |-> "clean", v |-> v, ctx |-> c, ex |-> 0]
           l == Invoke(u, i)
           r == [l EXCEPT !.cl = [l.cl EXCEPT ![v] = [l.cl[v] EXCEPT !["busy"] = FALSE]]]
<1>1. CloseCleanup(h, v) = r
  BY DEF CloseCleanup
<1>2. c \in DOMAIN h.ctx
  BY DEF Ready, GenOK, CleanupsOK, CleanupOK, FrameOK
<1>3. "busy" \in ClCaches
  BY DEF ClCaches
<1>4. "op" \in DOMAIN i /\ i.op \notin Terminators
  BY DEF Terminators
<1>5. GenOK(h)
  BY DEF Ready
<1> HIDE DEF c, i
<1>6. Emits(h, k)
  BY <1>3, <1>5, SetClIs, Zenon
<1> HIDE DEF k
<1>7. Ready(k) /\ c \in DOMAIN k.ctx
  BY <1>2, <1>6, EmitsReady, EmitsFacts
<1>8. Emits(k, u.g)
  BY <1>7, getUnwindBlockIs DEF Ready
<1> HIDE DEF u
<1>9. Emits(k, l)
  BY <1>4, <1>7, <1>8, InvokeIs
<1>10. GenOK(l)
  BY <1>9, EmitsFacts
<1> HIDE DEF l
<1>11. Emits(l, r)
  BY <1>3, <1>10, SetClIs, Zenon
<1> HIDE DEF r
<1> QED
  BY <1>1, <1>5, <1>6, <1>7, <1>9, <1>10, <1>11, EmitsTrans DEF Ready

LEMMA closeIs ==
  ASSUME NEW h, Ready(h), NEW f \in DOMAIN h.fr
  PROVE  Emits(h, close(h, f))
<1>1. Emits(h, h)
  BY EmitsRefl DEF Ready
<1>2. h.fr[f].cleanups \in Seq(DOMAIN h.cl)
  BY DEF Ready, GenOK, CleanupsOK, FrameOK
<1>3. Reverse(h.fr[f].cleanups) \in Seq(DOMAIN h.cl)
  BY <1>2, ReverseIs
<1>4. \A a : \A v \in DOMAIN h.cl : Emits(h, a) => Emits(h, CloseCleanup(a, v))
  <2> SUFFICES ASSUME NEW a, NEW v \in DOMAIN h.cl, Emits(h, a)
               PROVE  Emits(h, CloseCleanup(a, v))
    OBVIOUS
  <2>1. Ready(a) /\ v \in DOMAIN a.cl
    BY EmitsReady, EmitsFacts
  <2>2. Emits(a, CloseCleanup(a, v))
    BY <2>1, CloseCleanupIs
  <2> QED
    BY <2>2, EmitsTrans DEF Ready
<1>5. Emits(h, FoldLeft(CloseCleanup, h, Reverse(h.fr[f].cleanups)))
  BY <1>1, <1>3, <1>4, FoldCloseIs
<1> QED
  BY <1>1, <1>5 DEF close

LEMMA closeAllCleanupsIs ==
  ASSUME NEW h, Ready(h), NEW c \in DOMAIN h.ctx
  PROVE  Emits(h, closeAllCleanups(h, c))
<1>1. Emits(h, h)
  BY EmitsRefl DEF Ready
<1>2. h.ctx[c].frames \in Seq(DOMAIN h.fr)
  BY DEF Ready, GenOK, ContextsOK, ContextOK
<1>3. Reverse(h.ctx[c].frames) \in Seq(DOMAIN h.fr)
  BY <1>2, ReverseIs
<1>4. \A a : \A f \in DOMAIN h.fr : Emits(h, a) => Emits(h, close(a, f))
  <2> SUFFICES ASSUME NEW a, NEW f \in DOMAIN h.fr, Emits(h, a)
               PROVE  Emits(h, close(a, f))
    OBVIOUS
  <2>1. Ready(a) /\ f \in DOMAIN a.fr
    BY EmitsReady, EmitsFacts
  <2>2. Emits(a, close(a, f))
    BY <2>1, closeIs
  <2> QED
    BY <2>2, EmitsTrans DEF Ready
<1>5. Emits(h, FoldLeft(close, h, Reverse(h.ctx[c].frames)))
  BY <1>1, <1>3, <1>4, FoldCloseAllIs
<1> QED
  BY <1>5 DEF closeAllCleanups

LEMMA emitCleanupsToIs ==
  ASSUME NEW h, Ready(h), NEW c \in DOMAIN h.ctx, NEW outer \in DOMAIN h.ctx
  PROVE  Emits(h, emitCleanupsTo(h, c, outer))
<1>1. Emits(h, h) /\ GenOK(h)
  BY EmitsRefl DEF Ready
<1>2. InnerContexts(h, c, outer) \in Seq(DOMAIN h.ctx)
  BY <1>1, InnerContextsIs
<1>3. Reverse(InnerContexts(h, c, outer)) \in Seq(DOMAIN h.ctx)
  BY <1>2, ReverseIs
<1>4. \A a : \A x \in DOMAIN h.ctx : Emits(h, a) => Emits(h, closeAllCleanups(a, x))
  <2> SUFFICES ASSUME NEW a, NEW x \in DOMAIN h.ctx, Emits(h, a)
               PROVE  Emits(h, closeAllCleanups(a, x))
    OBVIOUS
  <2>1. Ready(a) /\ x \in DOMAIN a.ctx
    BY EmitsReady, EmitsFacts
  <2>2. Emits(a, closeAllCleanups(a, x))
    BY <2>1, closeAllCleanupsIs
  <2> QED
    BY <1>1, <2>2, EmitsTrans
<1>5. Emits(h, FoldLeft(closeAllCleanups, h, Reverse(InnerContexts(h, c, outer))))
  BY <1>1, <1>3, <1>4, FoldCloseToIs
<1> QED
  BY <1>5 DEF emitCleanupsTo

LEMMA closeCleanupFrameIs ==
  ASSUME NEW h, Ready(h), Frames(h) # <<>>
  PROVE  Moves(h, closeCleanupFrame(h), Front(Frames(h)), h.at, Opens(h))
<1> DEFINE f == Last(Frames(h))
           k == WithFrames(h, Front(Frames(h)))
<1>1. GenOK(h)
  BY DEF Ready
<1>2. f \in DOMAIN h.fr
  <2>1. Frames(h) \in Seq(DOMAIN h.fr) /\ Len(Frames(h)) \in 1 .. Len(Frames(h))
    BY <1>1, FrameFacts
  <2> QED
    BY <2>1 DEF Last
<1>3. Front(Frames(h)) \in Seq(DOMAIN h.fr)
  BY <1>1, FrameFacts, FrontIs
<1>4. Moves(h, k, Front(Frames(h)), h.at, Opens(h))
  BY <1>1, <1>3, SetFrames
<1>5. closeCleanupFrame(h) = close(k, f)
  BY DEF closeCleanupFrame, WithFrames, Frames
<1> HIDE DEF f, k
<1>6. Ready(k) /\ f \in DOMAIN k.fr /\ Frames(k) = Front(Frames(h)) /\ k.at = h.at /\ Opens(k) = Opens(h)
  <2>1. Frames(k) = Front(Frames(h)) /\ GenOK(k)
    BY <1>1, <1>4, FramesKept
  <2>2. k.at = h.at /\ Opens(k) = Opens(h) /\ DOMAIN h.fr \subseteq DOMAIN k.fr
    BY <1>4 DEF Moves, Kept
  <2> QED
    BY <1>2, <2>1, <2>2 DEF Ready
<1>7. Emits(k, close(k, f))
  BY <1>6, closeIs
<1> QED
  BY <1>1, <1>4, <1>5, <1>6, <1>7, MovesTrans DEF Emits, Becomes

\* What is done in a frame that is opened before it and closed after it.
LEMMA InFrame ==
  ASSUME NEW h, GenOK(h), NEW k, NEW a, NEW O, a \in O,
         Becomes(createCleanupFrame(h), k, a, O)
  PROVE  Becomes(h, closeCleanupFrame(k), a, O)
<1> DEFINE b == createCleanupFrame(h)
           fs == Append(Frames(h), Len(h.fr) + 1)
<1>1. fs \in Seq(DOMAIN b.fr) /\ Moves(h, b, fs, h.at, Opens(h))
  BY createCleanupFrameIs
<1>2. Frames(b) = fs /\ GenOK(b)
  BY <1>1, FramesKept
<1>3. Front(fs) = Frames(h) /\ fs # <<>>
  <2>1. Frames(h) \in Seq(DOMAIN h.fr) /\ DOMAIN h.fr \subseteq DOMAIN b.fr
    BY <1>1, FrameFacts DEF Moves, Kept
  <2>2. Frames(h) \in Seq(DOMAIN b.fr)
    BY <2>1, SeqMonotonic
  <2>3. Len(h.fr) + 1 \in DOMAIN b.fr
    <3>1. b.fr = Append(h.fr, NewFrame(h.cur))
      BY DEF createCleanupFrame, GenOK
    <3> QED
      BY <3>1, Seqs, AppendIs
  <2> DEFINE x == Len(h.fr) + 1
             s == Frames(h)
  <2> HIDE DEF b, x, s
  <2>4. s \in Seq(DOMAIN b.fr) /\ x \in DOMAIN b.fr
    BY <2>2, <2>3 DEF x, s
  <2>5. Front(Append(s, x)) = s /\ Append(s, x) # <<>>
    BY <2>4, FrontAppend, AppendProperties
  <2> QED
    BY <2>5 DEF x, s
<1> HIDE DEF b, fs
<1>4. Becomes(b, k, a, O)
  BY DEF b
<1>5. Moves(h, k, fs, a, O)
  BY <1>1, <1>2, <1>4, MovesTrans DEF Becomes
<1>6. Ready(k) /\ Frames(k) = fs /\ k.at = a /\ Opens(k) = O
  BY <1>5, FramesKept DEF Moves, Ready
<1>7. Moves(k, closeCleanupFrame(k), Frames(h), a, O)
  BY <1>3, <1>6, closeCleanupFrameIs
<1> QED
  BY <1>5, <1>7, MovesTrans DEF Becomes

-----------------------------------------------------------------------------
(* Conditions, definitions and branches.                                   *)

LEMMA BecomesFacts ==
  ASSUME NEW h, NEW k, NEW a, NEW O, GenOK(h), Becomes(h, k, a, O)
  PROVE  /\ GenOK(k) /\ k.at = a /\ Opens(k) = O /\ k.cur = h.cur
         /\ Frames(k) = Frames(h)
         /\ DOMAIN k.ctx = DOMAIN h.ctx
         /\ DOMAIN h.code \subseteq DOMAIN k.code
<1>1. Frames(k) = Frames(h)
  BY FramesKept DEF Becomes
<1> QED
  BY <1>1 DEF Becomes, Moves, Kept

\* What is emitted between two steps.
LEMMA ThenEmits ==
  ASSUME NEW h, NEW k, NEW l, NEW a, NEW O, GenOK(h), Becomes(h, k, a, O), Emits(k, l)
  PROVE  Becomes(h, l, a, O)
<1>1. k.at = a /\ Opens(k) = O
  BY BecomesFacts
<1> QED
  BY <1>1, BecomesTrans DEF Emits

LEMMA EmitsThen ==
  ASSUME NEW h, NEW k, NEW l, NEW a, NEW O, GenOK(h), Emits(h, k), Becomes(k, l, a, O)
  PROVE  Becomes(h, l, a, O)
  BY BecomesTrans DEF Emits

\* A terminator at the insert point, and the next instruction elsewhere.
LEMMA ThenBr ==
  ASSUME NEW h, NEW k, NEW a, NEW O, GenOK(h), Becomes(h, k, a, O), a \in O,
         NEW e, e.op \in Terminators
  PROVE  Becomes(h, Emit(k, e), a, O \ {a})
<1>1. GenOK(k) /\ k.at = a /\ Opens(k) = O
  BY BecomesFacts
<1>2. Becomes(k, Emit(k, e), a, O \ {a})
  BY <1>1, EmitCloses
<1> QED
  BY <1>2, BecomesTrans

LEMMA ThenAt ==
  ASSUME NEW h, NEW k, NEW a, NEW O, GenOK(h), Becomes(h, k, a, O), NEW b \in DOMAIN k.code
  PROVE  Becomes(h, SetInsertPoint(k, b), b, O)
<1>1. GenOK(k) /\ k.at = a /\ Opens(k) = O
  BY BecomesFacts
<1>2. Becomes(k, SetInsertPoint(k, b), b, O)
  BY <1>1, SetInsertPointIs
<1> QED
  BY <1>2, BecomesTrans

LEMMA OpensExist ==
  ASSUME NEW h, NEW b \in Opens(h)
  PROVE  b \in DOMAIN h.code
  BY DEF Opens

LEMMA FramedIs ==
  ASSUME NEW h, Ready(h)
  PROVE  LET b == createCleanupFrame(h)
         IN  /\ Ready(b) /\ b.at = h.at /\ Opens(b) = Opens(h)
             /\ b.cur = h.cur /\ Frames(b) # <<>>
<1> DEFINE b == createCleanupFrame(h)
           fs == Append(Frames(h), Len(h.fr) + 1)
<1>1. GenOK(h)
  BY DEF Ready
<1>2. fs \in Seq(DOMAIN b.fr) /\ Moves(h, b, fs, h.at, Opens(h))
  BY <1>1, createCleanupFrameIs
<1>3. fs # <<>>
  <2>1. Frames(h) \in Seq(DOMAIN h.fr)
    BY <1>1, FrameFacts
  <2>2. IsSeq(Frames(h))
    BY <2>1, SeqIs
  <2>3. Len(h.fr) \in Nat /\ Len(Frames(h)) \in Nat
    BY <1>1, <2>1, FrameFacts
  <2>4. Len(fs) = Len(Frames(h)) + 1 /\ IsSeq(fs)
    BY <2>2, AppendIs
  <2> HIDE DEF fs
  <2> QED
    BY <2>3, <2>4, SeqFacts
<1> HIDE DEF b, fs
<1>4. Frames(b) = fs /\ b.cur = h.cur /\ GenOK(b)
  BY <1>1, <1>2, FramesKept
<1>5. b.at = h.at /\ Opens(b) = Opens(h)
  BY <1>2 DEF Moves
<1>6. Ready(b)
  BY <1>4, <1>5 DEF Ready
<1> QED
  BY <1>3, <1>4, <1>5, <1>6 DEF b

\* Something emitted in a frame of its own.
LEMMA EmitsInFrame ==
  ASSUME NEW h, Ready(h), NEW k, Emits(createCleanupFrame(h), k)
  PROVE  Emits(h, closeCleanupFrame(k))
<1> DEFINE b == createCleanupFrame(h)
<1>1. b.at = h.at /\ Opens(b) = Opens(h) /\ GenOK(h) /\ h.at \in Opens(h)
  BY FramedIs DEF Ready
<1>2. Becomes(createCleanupFrame(h), k, h.at, Opens(h))
  BY <1>1 DEF Emits
<1>3. Becomes(h, closeCleanupFrame(k), h.at, Opens(h))
  BY <1>1, <1>2, InFrame
<1> QED
  BY <1>3 DEF Emits

LEMMA ConditionIs ==
  ASSUME NEW h, Ready(h), NEW cond
  PROVE  Emits(h, Condition(h, cond))
<1> DEFINE b == createCleanupFrame(h)
           k == IF cond = "plain" THEN b ELSE emitFuncCall(b)
<1>1. Ready(b)
  BY FramedIs
<1>2. Condition(h, cond) = closeCleanupFrame(k)
  BY DEF Condition
<1>3. Emits(b, k)
  <2>1. Emits(b, b)
    BY <1>1, EmitsRefl DEF Ready
  <2>2. Emits(b, emitFuncCall(b))
    BY <1>1, emitFuncCallIs
  <2> QED
    BY <2>1, <2>2
<1> HIDE DEF k
<1> QED
  BY <1>2, <1>3, EmitsInFrame

LEMMA HandleTransientIs ==
  ASSUME NEW h, Ready(h), Frames(h) # <<>>
  PROVE  Emits(h, HandleTransient(h))
<1> DEFINE e == [op |-> "init", v |-> Len(h.cl) + 1, scope |-> Scope(h, h.cur)]
           k == Emit(h, e)
<1>1. e.op \notin Terminators
  BY DEF Terminators
<1>2. HandleTransient(h) = addCleanup(k)
  BY DEF HandleTransient
<1> HIDE DEF e
<1>3. Emits(h, k)
  BY <1>1, EmitPlain DEF Ready
<1> HIDE DEF k
<1>4. GenOK(k) /\ Frames(k) # <<>>
  BY <1>3, BecomesFacts DEF Ready, Emits
<1>5. Emits(k, addCleanup(k))
  BY <1>4, addCleanupIs
<1> QED
  BY <1>2, <1>3, <1>5, EmitsTrans DEF Ready

LEMMA emitVarDefIs ==
  ASSUME NEW h, Ready(h), Frames(h) # <<>>, NEW kind
  PROVE  Emits(h, emitVarDef(h, kind))
<1> DEFINE b == createCleanupFrame(h)
           value == IF kind = "call" THEN emitFuncCall(b) ELSE b
           e == [op |-> "init", v |-> Len(h.cl) + 1, scope |-> Scope(h, h.cur)]
           stored == Emit(value, e)
           k == closeCleanupFrame(stored)
<1>1. e.op \notin Terminators
  BY DEF Terminators
<1>2. emitVarDef(h, kind) = addCleanup(k)
  BY DEF emitVarDef
<1>3. Ready(b)
  BY FramedIs
<1>4. Emits(b, value)
  BY <1>3, EmitsRefl, emitFuncCallIs DEF Ready
<1> HIDE DEF e, value
<1>5. Ready(value)
  BY <1>3, <1>4, EmitsReady
<1>6. Emits(value, stored)
  BY <1>1, <1>5, EmitPlain DEF Ready
<1>7. Emits(b, stored)
  BY <1>3, <1>4, <1>6, EmitsTrans DEF Ready
<1> HIDE DEF stored
<1>8. Emits(h, k)
  BY <1>7, EmitsInFrame
<1> HIDE DEF k
<1>9. GenOK(k) /\ Frames(k) # <<>>
  BY <1>8, BecomesFacts DEF Ready, Emits
<1>10. Emits(k, addCleanup(k))
  BY <1>9, addCleanupIs
<1> QED
  BY <1>2, <1>8, <1>10, EmitsTrans DEF Ready

\* An expression statement.
LEMMA ExprIs ==
  ASSUME NEW h, Ready(h)
  PROVE  Emits(h, closeCleanupFrame(HandleTransient(emitFuncCall(createCleanupFrame(h)))))
<1> DEFINE b == createCleanupFrame(h)
           k == emitFuncCall(b)
           l == HandleTransient(k)
<1>1. Ready(b) /\ Frames(b) # <<>>
  BY FramedIs
<1>2. Emits(b, k)
  BY <1>1, emitFuncCallIs
<1>3. Ready(k) /\ Frames(k) # <<>>
  <2>1. Frames(k) = Frames(b)
    BY <1>1, <1>2, BecomesFacts DEF Ready, Emits
  <2> QED
    BY <1>1, <1>2, <2>1, EmitsReady
<1> HIDE DEF k
<1>4. Emits(k, l)
  BY <1>3, HandleTransientIs
<1>5. Emits(b, l)
  BY <1>1, <1>2, <1>4, EmitsTrans DEF Ready
<1>6. Emits(h, closeCleanupFrame(l))
  BY <1>5, EmitsInFrame
<1> QED
  BY <1>6 DEF k

LEMMA CondBrIs ==
  ASSUME NEW h, Ready(h), NEW t, NEW f
  PROVE  Becomes(h, CondBr(h, t, f), h.at, Opens(h) \ {h.at})
<1> DEFINE e == [op |-> "cond", to |-> {t, f}, scope |-> Scope(h, h.cur)]
<1>1. e.op \in Terminators
  BY DEF Terminators
<1>2. CondBr(h, t, f) = Emit(h, e)
  BY DEF CondBr
<1> HIDE DEF e
<1> QED
  BY <1>1, <1>2, EmitCloses DEF Ready

LEMMA BrIs ==
  ASSUME NEW b
  PROVE  Br(b).op \in Terminators
  BY DEF Br, Terminators

-----------------------------------------------------------------------------
(* Branches and loops.                                                     *)

\* n empty blocks, none of them seen before.
LEMMA NewBlocks ==
  ASSUME NEW h, Ready(h), NEW n \in Nat
  PROVE  LET t == NextBlock(h)
             N == t .. (t + n - 1)
             k == AddBlocks(h, n)
         IN  /\ t \in Nat \ {0}
             /\ N \cap DOMAIN h.code = {}
             /\ N \subseteq DOMAIN k.code
             /\ h.at \in DOMAIN h.code
             /\ Ready(k)
             /\ Becomes(h, k, h.at, Opens(h) \cup N)
<1> DEFINE t == NextBlock(h)
           N == t .. (t + n - 1)
           k == AddBlocks(h, n)
<1>1. GenOK(h) /\ h.at \in Opens(h) /\ h.at \in DOMAIN h.code
  BY OpensExist DEF Ready
<1>2. /\ t \in Nat \ {0}
      /\ \A i \in 0 .. (n - 1) : t + i \notin DOMAIN h.code /\ t + i \in DOMAIN k.code
      /\ Becomes(h, k, h.at, Opens(h) \cup N)
  BY <1>1, AddBlocksIs
<1> HIDE DEF t, k
<1>3. \A b \in N : b - t \in 0 .. (n - 1) /\ t + (b - t) = b
  BY <1>2
<1>4. \A b \in N : b \notin DOMAIN h.code /\ b \in DOMAIN k.code
  BY <1>2, <1>3
<1>5. Ready(k)
  BY <1>1, <1>2, BecomesFacts DEF Ready
<1> QED
  BY <1>1, <1>2, <1>4, <1>5 DEF t, k

LEMMA emitIfIs ==
  ASSUME NEW h, Ready(h), NEW cond
  PROVE  LET t == NextBlock(h)
         IN  /\ t \in Nat \ {0}
             /\ t \notin DOMAIN h.code /\ t + 1 \notin DOMAIN h.code
             /\ Becomes(h, emitIf(h, cond), t, (Opens(h) \ {h.at}) \cup {t, t + 1})
<1> DEFINE t == NextBlock(h)
           N == t .. (t + 2 - 1)
           a == AddBlocks(h, 2)
           b == Condition(a, cond)
           c == CondBr(b, t, t + 1)
<1>1. /\ t \in Nat \ {0} /\ N \cap DOMAIN h.code = {} /\ N \subseteq DOMAIN a.code
      /\ h.at \in DOMAIN h.code /\ Ready(a) /\ Becomes(h, a, h.at, Opens(h) \cup N)
  BY NewBlocks
<1>2. emitIf(h, cond) = SetInsertPoint(c, t)
  BY DEF emitIf
<1>3. GenOK(h)
  BY DEF Ready
<1> HIDE DEF t, a
<1>4. N = {t, t + 1}
  BY <1>1
<1> HIDE DEF N
<1>5. Emits(a, b)
  BY <1>1, ConditionIs
<1>6. Ready(b)
  BY <1>1, <1>5, EmitsReady
<1>7. Becomes(h, b, h.at, Opens(h) \cup N)
  BY <1>1, <1>3, <1>5, ThenEmits
<1> HIDE DEF b
<1>8. b.at = h.at /\ Opens(b) = Opens(h) \cup N
  BY <1>3, <1>7, BecomesFacts
<1>9. Becomes(b, c, h.at, (Opens(h) \cup N) \ {h.at})
  BY <1>6, <1>8, CondBrIs
<1>10. Becomes(h, c, h.at, (Opens(h) \cup N) \ {h.at})
  BY <1>3, <1>7, <1>9, BecomesTrans
<1> HIDE DEF c
<1>11. t \in (Opens(h) \cup N) \ {h.at}
  BY <1>1, <1>4
<1>12. t \in DOMAIN c.code
  BY <1>3, <1>10, <1>11, BecomesFacts, OpensExist
<1>13. Becomes(h, SetInsertPoint(c, t), t, (Opens(h) \cup N) \ {h.at})
  BY <1>3, <1>10, <1>12, ThenAt
<1>14. (Opens(h) \cup N) \ {h.at} = (Opens(h) \ {h.at}) \cup {t, t + 1}
  BY <1>1, <1>4
<1> QED
  BY <1>1, <1>2, <1>4, <1>13, <1>14 DEF t

\* One of the two values of a ternary expression.
LEMMA ArmIs ==
  ASSUME NEW h, GenOK(h), NEW b \in Opens(h), NEW post
  PROVE  Becomes(h, Emit(Condition(SetInsertPoint(h, b), "call"), Br(post)), b, Opens(h) \ {b})
<1> DEFINE k == SetInsertPoint(h, b)
           l == Condition(k, "call")
<1>1. Becomes(h, k, b, Opens(h))
  BY OpensExist, SetInsertPointIs
<1>2. Ready(k)
  BY <1>1, BecomesFacts DEF Ready
<1>3. Emits(k, l)
  BY <1>2, ConditionIs
<1>4. Becomes(h, l, b, Opens(h))
  BY <1>1, <1>3, ThenEmits
<1> HIDE DEF l
<1>5. Becomes(h, Emit(l, Br(post)), b, Opens(h) \ {b})
  BY <1>4, BrIs, ThenBr
<1> QED
  BY <1>5 DEF l

LEMMA emitTernaryIs ==
  ASSUME NEW h, Ready(h)
  PROVE  LET post == NextBlock(h) + 2
         IN  /\ post \notin DOMAIN h.code
             /\ Becomes(h, emitTernary(h), post, (Opens(h) \ {h.at}) \cup {post})
<1> DEFINE t == NextBlock(h)
           post == t + 2
           N == t .. (t + 3 - 1)
           a == AddBlocks(h, 3)
           b == CondBr(a, t, t + 1)
           c == Emit(Condition(SetInsertPoint(b, t), "call"), Br(post))
           d == Emit(Condition(SetInsertPoint(c, t + 1), "call"), Br(post))
<1>1. /\ t \in Nat \ {0} /\ N \cap DOMAIN h.code = {} /\ N \subseteq DOMAIN a.code
      /\ h.at \in DOMAIN h.code /\ Ready(a) /\ Becomes(h, a, h.at, Opens(h) \cup N)
  BY NewBlocks
<1>2. emitTernary(h) = SetInsertPoint(d, post)
  BY DEF emitTernary
<1>3. GenOK(h) /\ Opens(h) \subseteq DOMAIN h.code
  BY OpensExist DEF Ready
<1> HIDE DEF a
<1>4. N = {t, t + 1, t + 2}
  BY <1>1
<1> DEFINE P == (Opens(h) \cup N) \ {h.at}
<1>5. Becomes(a, b, h.at, P)
  <2>1. a.at = h.at /\ Opens(a) = Opens(h) \cup N
    BY <1>1, <1>3, BecomesFacts
  <2> QED
    BY <1>1, <2>1, CondBrIs
<1>6. t \in P /\ t + 1 \in P \ {t} /\ post \in (P \ {t}) \ {t + 1} /\ post \notin DOMAIN h.code
  BY <1>1, <1>4
<1>7. (P \ {t}) \ {t + 1} = (Opens(h) \ {h.at}) \cup {post}
  BY <1>1, <1>3, <1>4
<1> HIDE DEF t, N, b, P, post
<1>8. GenOK(b) /\ Opens(b) = P /\ GenOK(a)
  BY <1>1, <1>5, BecomesFacts DEF Ready
<1>9. Becomes(b, c, t, P \ {t})
  BY <1>6, <1>8, ArmIs
<1>10. GenOK(c) /\ Opens(c) = P \ {t}
  BY <1>8, <1>9, BecomesFacts
<1> HIDE DEF c
<1>11. Becomes(c, d, t + 1, (P \ {t}) \ {t + 1})
  BY <1>6, <1>10, ArmIs
<1> HIDE DEF d
<1>12. Becomes(h, d, t + 1, (P \ {t}) \ {t + 1})
  <2>1. Becomes(h, b, h.at, P)
    BY <1>1, <1>3, <1>5, BecomesTrans
  <2>2. Becomes(h, c, t, P \ {t})
    BY <1>3, <2>1, <1>9, BecomesTrans
  <2> QED
    BY <1>3, <2>2, <1>11, BecomesTrans
<1>13. post \in DOMAIN d.code
  BY <1>3, <1>6, <1>12, BecomesFacts, OpensExist
<1>14. Becomes(h, SetInsertPoint(d, post), post, (P \ {t}) \ {t + 1})
  BY <1>3, <1>12, <1>13, ThenAt
<1> QED
  BY <1>2, <1>6, <1>7, <1>14 DEF t, post

LEMMA TernaryIs ==
  ASSUME NEW h, Ready(h)
  PROVE  LET post == NextBlock(h) + 2
         IN  /\ post \notin DOMAIN h.code
             /\ Becomes(h, closeCleanupFrame(HandleTransient(emitTernary(createCleanupFrame(h)))),
                        post, (Opens(h) \ {h.at}) \cup {post})
<1> DEFINE b == createCleanupFrame(h)
           post == NextBlock(b) + 2
           k == emitTernary(b)
           l == HandleTransient(k)
           O == (Opens(h) \ {h.at}) \cup {post}
<1>1. Ready(b) /\ Frames(b) # <<>> /\ b.at = h.at /\ Opens(b) = Opens(h)
  BY FramedIs
<1>2. b.code = h.code
  BY DEF createCleanupFrame, Ready, GenOK
<1>3. NextBlock(b) = NextBlock(h)
  BY <1>2 DEF NextBlock
<1> HIDE DEF b
<1>4. post \notin DOMAIN b.code /\ Becomes(b, k, post, O)
  BY <1>1, emitTernaryIs
<1> HIDE DEF k, post
<1>5. Ready(k) /\ Frames(k) # <<>>
  BY <1>1, <1>4, BecomesFacts DEF Ready
<1>6. Emits(k, l)
  BY <1>5, HandleTransientIs
<1>7. Becomes(b, l, post, O)
  BY <1>1, <1>4, <1>6, ThenEmits DEF Ready
<1>8. Becomes(h, closeCleanupFrame(l), post, O)
  BY <1>7, InFrame DEF b, Ready
<1> QED
  BY <1>2, <1>3, <1>4, <1>8 DEF b, k, post

LEMMA emitElseIs ==
  ASSUME NEW h, GenOK(h), NEW block \in Opens(h), NEW terminal \in BOOLEAN,
         h.at \in Opens(h) <=> ~terminal
  PROVE  LET after == NextBlock(h)
             e == emitElse(h, block, terminal)
         IN  /\ after # 0 /\ after \notin DOMAIN h.code
             /\ e.block = IF terminal THEN 0 ELSE after
             /\ Becomes(h, e.g, block, IF terminal THEN Opens(h)
                                       ELSE (Opens(h) \ {h.at}) \cup {after})
<1> DEFINE after == NextBlock(h)
           a == AddBlock(h, <<>>)
           b == Emit(a, Br(after))
<1>1. block \in DOMAIN h.code
  BY OpensExist
<1>2. Becomes(h, SetInsertPoint(h, block), block, Opens(h))
  BY <1>1, SetInsertPointIs
<1>3. /\ after \in Nat \ {0} /\ after \notin DOMAIN h.code
      /\ Becomes(h, a, h.at, Opens(h) \cup {after})
  BY OpenEmpty, AddBlockIs
<1>4. emitElse(h, block, terminal) = IF terminal THEN [g |-> SetInsertPoint(h, block), block |-> 0]
                                     ELSE [g |-> SetInsertPoint(b, block), block |-> after]
  BY DEF emitElse
<1>5. ~terminal => Becomes(h, SetInsertPoint(b, block), block, (Opens(h) \ {h.at}) \cup {after})
  <2> SUFFICES ASSUME ~terminal
               PROVE  Becomes(h, SetInsertPoint(b, block), block, (Opens(h) \ {h.at}) \cup {after})
    OBVIOUS
  <2> DEFINE O == (Opens(h) \cup {after}) \ {h.at}
  <2> HIDE DEF a
  <2>1. Becomes(h, b, h.at, O)
    <3>1. h.at \in Opens(h) \cup {after}
      OBVIOUS
    <3> QED
      BY <1>3, <3>1, BrIs, ThenBr
  <2>2. block \in DOMAIN b.code
    BY <1>1, <2>1, BecomesFacts
  <2> HIDE DEF b
  <2>3. Becomes(h, SetInsertPoint(b, block), block, O)
    BY <2>1, <2>2, ThenAt
  <2>4. O = (Opens(h) \ {h.at}) \cup {after}
    <3>1. h.at \in DOMAIN h.code
      BY OpensExist
    <3> QED
      BY <1>3, <3>1
  <2> QED
    BY <2>3, <2>4
<1> HIDE DEF a, b
<1>6. CASE terminal
  BY <1>2, <1>3, <1>4, <1>6
<1>7. CASE ~terminal
  BY <1>3, <1>4, <1>5, <1>7
<1> QED
  BY <1>6, <1>7

\* The block that the if statement goes on with, if there is one.
LEMMA emitEndIfIs ==
  ASSUME NEW h, GenOK(h), NEW block, block # 0 => block \in Opens(h) \ {h.at},
         NEW terminal \in BOOLEAN,
         h.at \in Opens(h) <=> ~terminal
  PROVE  LET after == IF block = 0 THEN NextBlock(h) ELSE block
             k == emitEndIf(h, block, terminal)
         IN  /\ block = 0 => after \notin DOMAIN h.code
             /\ terminal /\ block = 0 => Becomes(h, k, h.at, Opens(h))
             /\ terminal /\ block # 0 => Becomes(h, k, block, Opens(h))
             /\ ~terminal => Becomes(h, k, after, (Opens(h) \ {h.at}) \cup {after})
<1> DEFINE after == IF block = 0 THEN NextBlock(h) ELSE block
           k == emitEndIf(h, block, terminal)
           n == AddBlock(h, <<>>)
<1>1. /\ NextBlock(h) \in Nat \ {0} /\ NextBlock(h) \notin DOMAIN h.code
      /\ Becomes(h, n, h.at, Opens(h) \cup {NextBlock(h)})
  BY OpenEmpty, AddBlockIs
<1>2. terminal /\ block = 0 => Becomes(h, k, h.at, Opens(h))
  <2> SUFFICES ASSUME terminal, block = 0 PROVE Becomes(h, k, h.at, Opens(h))
    OBVIOUS
  <2>1. k = h
    BY DEF emitEndIf
  <2> QED
    BY <2>1, EmitsRefl DEF Emits
<1>3. terminal /\ block # 0 => Becomes(h, k, block, Opens(h))
  <2> SUFFICES ASSUME terminal, block # 0 PROVE Becomes(h, k, block, Opens(h))
    OBVIOUS
  <2>1. k = SetInsertPoint(h, block)
    BY DEF emitEndIf
  <2> QED
    BY <2>1, OpensExist, SetInsertPointIs
<1>4. ~terminal => Becomes(h, k, after, (Opens(h) \ {h.at}) \cup {after})
  <2> SUFFICES ASSUME ~terminal
               PROVE  Becomes(h, k, after, (Opens(h) \ {h.at}) \cup {after})
    OBVIOUS
  <2> DEFINE made == IF block = 0 THEN n ELSE h
             O == Opens(h) \cup {after}
  <2>1. k = SetInsertPoint(Emit(made, Br(after)), after)
    BY <1>1 DEF emitEndIf
  <2>2. Becomes(h, made, h.at, O)
    <3>1. CASE block = 0
      BY <1>1, <3>1
    <3>2. CASE block # 0
      <4>1. made = h /\ O = Opens(h)
        BY <3>2
      <4> QED
        BY <4>1, EmitsRefl DEF Emits
    <3> QED
      BY <3>1, <3>2
  <2> HIDE DEF made
  <2>3. Becomes(h, Emit(made, Br(after)), h.at, O \ {h.at})
    <3>1. h.at \in O
      OBVIOUS
    <3> HIDE DEF O
    <3> QED
      BY <2>2, <3>1, BrIs, ThenBr
  <2>4. after \in DOMAIN Emit(made, Br(after)).code
    <3>1. GenOK(made) /\ Opens(made) = O
      BY <2>2, BecomesFacts
    <3>2. after \in DOMAIN made.code
      BY <3>1, OpensExist
    <3> HIDE DEF after
    <3> QED
      BY <3>1, <3>2, EmitFacts
  <2>5. Becomes(h, k, after, O \ {h.at})
    <3> DEFINE l == Emit(made, Br(after))
    <3> HIDE DEF l, after, O
    <3>1. Becomes(h, SetInsertPoint(l, after), after, O \ {h.at})
      BY <2>3, <2>4, ThenAt DEF l
    <3> QED
      BY <2>1, <3>1 DEF l
  <2>6. O \ {h.at} = (Opens(h) \ {h.at}) \cup {after}
    <3>1. h.at \in DOMAIN h.code
      BY OpensExist
    <3>2. h.at # after
      BY <1>1, <3>1
    <3> QED
      BY <3>2
  <2> QED
    BY <2>5, <2>6
<1> QED
  BY <1>1, <1>2, <1>3, <1>4
\* A branch at the end of what is not terminal.
LEMMA EndIs ==
  ASSUME NEW h, GenOK(h), NEW x, NEW terminal \in BOOLEAN,
         h.at \in Opens(h) <=> ~terminal
  PROVE  Becomes(h, IF terminal THEN h ELSE Emit(h, Br(x)), h.at, Opens(h) \ {h.at})
<1>1. CASE terminal
  <2>1. Opens(h) \ {h.at} = Opens(h)
    BY <1>1
  <2> QED
    BY <1>1, <2>1, EmitsRefl DEF Emits
<1>2. CASE ~terminal
  BY <1>2, BrIs, EmitCloses
<1> QED
  BY <1>1, <1>2

\* The same, and on from block b.
LEMMA GoOnIs ==
  ASSUME NEW h, GenOK(h), NEW b \in DOMAIN h.code, NEW x, NEW terminal \in BOOLEAN,
         h.at \in Opens(h) <=> ~terminal
  PROVE  Becomes(h, SetInsertPoint(IF terminal THEN h ELSE Emit(h, Br(x)), b), b,
                 Opens(h) \ {h.at})
<1> DEFINE k == IF terminal THEN h ELSE Emit(h, Br(x))
<1>1. Becomes(h, k, h.at, Opens(h) \ {h.at})
  BY EndIs
<1> HIDE DEF k
<1>2. b \in DOMAIN k.code
  BY <1>1, BecomesFacts
<1>3. Becomes(h, SetInsertPoint(k, b), b, Opens(h) \ {h.at})
  BY <1>1, <1>2, ThenAt
<1> QED
  BY <1>3 DEF k

\* The code of the head of a loop; n is the number of blocks.
LEMMA LoopHeadIs ==
  ASSUME NEW h, Ready(h), NEW cond, NEW n \in {3, 4}
  PROVE  LET end  == NextBlock(h)
             body == end + (n - 1)
             a == SetInsertPoint(Emit(AddBlocks(h, n), Br(end + 1)), end + 1)
             k == SetInsertPoint(CondBr(Condition(a, cond), body, end), body)
         IN  /\ end \in Nat \ {0}
             /\ (end .. body) \cap DOMAIN h.code = {}
             /\ Becomes(h, k, body, ((Opens(h) \ {h.at}) \cup (end .. body)) \ {end + 1})
<1> DEFINE end  == NextBlock(h)
           body == end + (n - 1)
           N == end .. (end + n - 1)
           b == AddBlocks(h, n)
           c == Emit(b, Br(end + 1))
           a == SetInsertPoint(c, end + 1)
           d == Condition(a, cond)
           e == CondBr(d, body, end)
           k == SetInsertPoint(e, body)
           P == (Opens(h) \cup N) \ {h.at}
<1>1. n \in Nat
  OBVIOUS
<1>2. /\ end \in Nat \ {0} /\ N \cap DOMAIN h.code = {}
      /\ h.at \in DOMAIN h.code /\ Ready(b) /\ Becomes(h, b, h.at, Opens(h) \cup N)
  BY <1>1, NewBlocks
<1>3. GenOK(h) /\ h.at \in Opens(h)
  BY DEF Ready
<1> HIDE DEF b
<1>4. Becomes(h, c, h.at, P)
  <2>1. h.at \in Opens(h) \cup N
    BY <1>3
  <2> HIDE DEF end, N
  <2> QED
    BY <1>2, <1>3, <2>1, BrIs, ThenBr
<1>5. N = end .. body /\ end + 1 \in P /\ body \in P \ {end + 1} /\ h.at \notin N
  BY <1>2
<1> HIDE DEF P, c, end, body, N
<1>6. end + 1 \in DOMAIN c.code
  BY <1>3, <1>4, <1>5, BecomesFacts, OpensExist
<1>7. Becomes(h, a, end + 1, P)
  BY <1>3, <1>4, <1>6, ThenAt
<1> HIDE DEF a
<1>8. Ready(a)
  BY <1>3, <1>5, <1>7, BecomesFacts DEF Ready
<1>9. Emits(a, d)
  BY <1>8, ConditionIs
<1>10. Becomes(h, d, end + 1, P) /\ Ready(d)
  BY <1>3, <1>7, <1>8, <1>9, ThenEmits, EmitsReady
<1> HIDE DEF d
<1>11. d.at = end + 1 /\ Opens(d) = P
  BY <1>3, <1>10, BecomesFacts
<1>12. Becomes(d, e, end + 1, P \ {end + 1})
  BY <1>10, <1>11, CondBrIs
<1>13. Becomes(h, e, end + 1, P \ {end + 1})
  BY <1>3, <1>10, <1>12, BecomesTrans
<1> HIDE DEF e
<1>14. body \in DOMAIN e.code
  BY <1>3, <1>5, <1>13, BecomesFacts, OpensExist
<1>15. Becomes(h, k, body, P \ {end + 1})
  BY <1>3, <1>13, <1>14, ThenAt
<1>16. P \ {end + 1} = ((Opens(h) \ {h.at}) \cup (end .. body)) \ {end + 1}
  BY <1>5 DEF P
<1> QED
  BY <1>2, <1>5, <1>15, <1>16 DEF a, c, b, d, e, end, body

LEMMA LeaveIs ==
  ASSUME NEW h, Ready(h), NEW outer \in DOMAIN h.ctx, NEW e, e.op \in Terminators
  PROVE  Becomes(h, Emit(emitCleanupsTo(h, h.cur, outer), e), h.at, Opens(h) \ {h.at})
<1> DEFINE k == emitCleanupsTo(h, h.cur, outer)
<1>1. GenOK(h) /\ h.at \in Opens(h) /\ h.cur \in DOMAIN h.ctx
  BY DEF Ready, GenOK, ContextsOK
<1>2. Becomes(h, k, h.at, Opens(h))
  BY <1>1, emitCleanupsToIs DEF Emits
<1> HIDE DEF k
<1>3. Becomes(h, Emit(k, e), h.at, Opens(h) \ {h.at})
  BY <1>1, <1>2, ThenBr
<1> QED
  BY <1>3 DEF k

LEMMA emitBreakIs ==
  ASSUME NEW h, Ready(h), NEW loop, loop.ctx \in DOMAIN h.ctx
  PROVE  /\ Becomes(h, emitBreak(h, loop), h.at, Opens(h) \ {h.at})
         /\ Becomes(h, emitContinue(h, loop), h.at, Opens(h) \ {h.at})
  BY LeaveIs, BrIs DEF emitBreak, emitContinue

LEMMA emitReturnIs ==
  ASSUME NEW h, Ready(h), NEW gotExpr \in BOOLEAN
  PROVE  Becomes(h, emitReturn(h, gotExpr), h.at, Opens(h) \ {h.at})
<1> DEFINE k == IF gotExpr THEN emitFuncCall(h) ELSE h
           e == Ret({})
<1>1. emitReturn(h, gotExpr) = Emit(emitCleanupsTo(k, k.cur, Outside), e)
  BY DEF emitReturn, emitFunctionCleanups
<1>2. e.op \in Terminators
  BY DEF Ret, Terminators
<1>3. Emits(h, k)
  BY EmitsRefl, emitFuncCallIs DEF Ready
<1> HIDE DEF k, e
<1>4. Ready(k) /\ k.at = h.at /\ Opens(k) = Opens(h)
  BY <1>3, EmitsReady, EmitsFacts
<1>5. Outside \in DOMAIN k.ctx
  BY <1>4 DEF Ready, GenOK, ContextsOK
<1>6. Becomes(k, Emit(emitCleanupsTo(k, k.cur, Outside), e), h.at, Opens(h) \ {h.at})
  BY <1>2, <1>4, <1>5, LeaveIs
<1> QED
  BY <1>1, <1>3, <1>6, EmitsThen DEF Ready

LEMMA emitThrowIs ==
  ASSUME NEW h, Ready(h), NEW x
  PROVE  LET k == emitThrow(h, x)
         IN  /\ k.at \notin DOMAIN h.code
             /\ Becomes(h, k, k.at, Opens(h) \ {h.at})
<1> DEFINE a == Condition(h, "call")
           u == getUnwindBlock(a, a.cur)
           i == [op |-> "throw", x |-> x, ctx |-> a.cur, ex |-> 0, scope |-> Scope(a, a.cur)]
           b == Invoke(u, i)
           n == NextBlock(b)
           c == AddBlock(b, <<Unreachable>>)
           k == SetInsertPoint(c, n)
<1>1. emitThrow(h, x) = k
  BY DEF emitThrow, Throw, Unreached
<1>2. "op" \in DOMAIN i /\ i.op \in Terminators
  BY DEF Terminators
<1>3. GenOK(h)
  BY DEF Ready
<1>4. Emits(h, a)
  BY ConditionIs
<1> HIDE DEF a
<1>5. Ready(a) /\ a.at = h.at /\ Opens(a) = Opens(h)
  BY <1>4, EmitsReady, EmitsFacts
<1>6. Emits(a, u.g)
  BY <1>5, getUnwindBlockIs DEF Ready, GenOK, ContextsOK
<1> HIDE DEF u, i
<1>7. Becomes(a, b, h.at, Opens(h) \ {h.at})
  BY <1>2, <1>5, <1>6, InvokeIs
<1>8. Becomes(h, b, h.at, Opens(h) \ {h.at})
  BY <1>3, <1>4, <1>7, EmitsThen
<1> HIDE DEF b
<1>9. GenOK(b) /\ b.at = h.at /\ Opens(b) = Opens(h) \ {h.at} /\ DOMAIN h.code \subseteq DOMAIN b.code
  BY <1>3, <1>8, BecomesFacts
<1>10. Closed(<<Unreachable>>) /\ ~Open(<<Unreachable>>)
  <2>1. Unreachable.op \in Terminators
    BY DEF Unreachable, Terminators
  <2> QED
    BY <2>1, Singleton, NotBoth
<1>11. n \notin DOMAIN b.code /\ n \in DOMAIN c.code /\ Becomes(b, c, h.at, Opens(h) \ {h.at})
  <2> DEFINE s == <<Unreachable>>
  <2>1. (Open(s) \/ Closed(s)) /\ ~Open(s) /\ c = AddBlock(b, s)
    BY <1>10
  <2> HIDE DEF s, c
  <2>2. n \notin DOMAIN b.code /\ n \in DOMAIN c.code /\ Becomes(b, c, b.at, Opens(b))
    BY <1>9, <2>1, AddBlockIs
  <2> QED
    BY <1>9, <2>2
<1>12. Becomes(h, c, h.at, Opens(h) \ {h.at})
  BY <1>3, <1>8, <1>11, BecomesTrans
<1> HIDE DEF c, n
<1>13. Becomes(h, k, n, Opens(h) \ {h.at})
  BY <1>3, <1>11, <1>12, ThenAt
<1>14. k.at = n
  BY <1>3, <1>13, BecomesFacts
<1> HIDE DEF k
<1> QED
  BY <1>1, <1>9, <1>11, <1>13, <1>14
-----------------------------------------------------------------------------
(* Steps that change a context.                                            *)

\* In context c, field f is x; nothing else has changed but caches.
CtxSet(h, k, c, f, x) ==
  /\ GenOK(k)
  /\ k.at = h.at /\ k.cur = h.cur /\ k.code = h.code /\ Opens(k) = Opens(h)
  /\ k.fr = h.fr /\ k.cl = h.cl
  /\ DOMAIN k.ctx = DOMAIN h.ctx
  /\ k.ctx[c][f] = x
  /\ \A e \in DOMAIN h.ctx : \A n \in CtxFields :
       e # c \/ n # f => k.ctx[e][n] = h.ctx[e][n]

\* The fields that may be set, and to what.
MaySet(h, c, f, x) ==
  /\ f \in CtxFields \ {"path"}
  /\ f = "frames" => x \in Seq(DOMAIN h.fr)
  /\ f = "nested" => x \in Seq(DOMAIN h.ctx)
  /\ f = "loop" => (x # NoLoop => x.ctx = c)
  /\ f = "catch" => (x # 0 => h.ctx[c].body # 0)
  /\ f = "body" => x # 0

WithCtx(h, c, f, x) == [h EXCEPT !.ctx = [h.ctx EXCEPT ![c] = [h.ctx[c] EXCEPT ![f] = x]]]

LEMMA CtxSetIs ==
  ASSUME NEW h, GenOK(h), NEW c \in DOMAIN h.ctx, NEW f, NEW x, MaySet(h, c, f, x)
  PROVE  CtxSet(h, WithCtx(h, c, f, x), c, f, x)
<1> DEFINE r == [h.ctx[c] EXCEPT ![f] = x]
           t == [h.ctx EXCEPT ![c] = r]
           k == WithCtx(h, c, f, x)
<1>1. f \in CtxFields /\ CtxFields \subseteq DOMAIN h.ctx[c] /\ IsSeq(h.ctx)
  BY DEF MaySet, GenOK, ContextsOK, ContextOK
<1>2. r[f] = x /\ DOMAIN r = DOMAIN h.ctx[c] /\ \A n \in CtxFields : n # f => r[n] = h.ctx[c][n]
  BY <1>1
<1> HIDE DEF r
<1>3. /\ IsSeq(t) /\ DOMAIN t = DOMAIN h.ctx /\ t[c] = r
      /\ \A e \in DOMAIN h.ctx : e # c => t[e] = h.ctx[e]
  BY <1>1, ExceptIs, Zenon
<1>4. /\ DOMAIN k = DOMAIN h /\ k.ctx = t /\ k.fr = h.fr /\ k.cl = h.cl /\ k.cur = h.cur
      /\ k.code = h.code /\ k.at = h.at
  BY DEF GenOK, WithCtx, r
<1> HIDE DEF t, k
<1>5. \A e \in DOMAIN h.ctx : \A n \in CtxFields : e # c \/ n # f => k.ctx[e][n] = h.ctx[e][n]
  BY <1>2, <1>3, <1>4
<1>6. k.ctx[c][f] = x
  BY <1>2, <1>3, <1>4
<1>7. \A e \in DOMAIN h.ctx : ContextOK(k, e)
  <2> TAKE e \in DOMAIN h.ctx
  <2>1. ContextOK(h, e)
    BY DEF GenOK, ContextsOK
  <2>2. CtxFields \subseteq DOMAIN k.ctx[e]
    BY <1>2, <1>3, <1>4, <2>1 DEF ContextOK
  <2>3. k.ctx[e].path = h.ctx[e].path /\ k.ctx[e].frames \in Seq(DOMAIN h.fr)
    BY <1>5, <1>6, <2>1 DEF MaySet, CtxFields, Decides, ContextOK
  <2>4. k.ctx[e].nested \in Seq(DOMAIN h.ctx)
    BY <1>5, <1>6, <2>1 DEF MaySet, CtxFields, ContextOK
  <2>5. k.ctx[e].loop # NoLoop => k.ctx[e].loop.ctx = e
    BY <1>5, <1>6, <2>1 DEF MaySet, CtxFields, Decides, ContextOK
  <2>6. k.ctx[e].catch # 0 => k.ctx[e].body # 0
    <3>1. h.ctx[e].catch # 0 => h.ctx[e].body # 0
      BY <2>1 DEF ContextOK
    <3>2. {"catch", "body"} \subseteq CtxFields
      BY DEF CtxFields, Decides
    <3>3. CASE e # c
      BY <1>5, <3>1, <3>2, <3>3
    <3>4. CASE e = c /\ f = "catch"
      <4>1. k.ctx[e].body = h.ctx[e].body
        BY <1>5, <3>2, <3>4
      <4> QED
        BY <1>6, <3>4, <4>1 DEF MaySet
    <3>5. CASE e = c /\ f = "body"
      BY <1>6, <3>5 DEF MaySet
    <3>6. CASE e = c /\ f \notin {"catch", "body"}
      BY <1>5, <3>1, <3>2, <3>6
    <3> QED
      BY <3>3, <3>4, <3>5, <3>6
  <2> QED
    BY <1>3, <1>4, <2>1, <2>2, <2>3, <2>4, <2>5, <2>6 DEF ContextOK
<1>8. ContextsOK(k)
  BY <1>3, <1>4, <1>7 DEF GenOK, ContextsOK
<1>9. CleanupsOK(k)
  BY <1>3, <1>4 DEF GenOK, CleanupsOK, FrameOK, CleanupOK
<1>10. GenOK(k)
  BY <1>4, <1>8, <1>9 DEF GenOK, CodeOK
<1>11. Opens(k) = Opens(h)
  BY <1>4 DEF Opens
<1>12. CtxSet(h, k, c, f, x)
  BY <1>3, <1>4, <1>5, <1>6, <1>10, <1>11 DEF CtxSet
<1> QED
  BY <1>12 DEF k

\* Another context becomes the current one.
LEMMA SetCurIs ==
  ASSUME NEW h, GenOK(h), NEW c \in DOMAIN h.ctx
  PROVE  LET k == [h EXCEPT !.cur = c]
         IN  /\ GenOK(k) /\ k.cur = c /\ k.at = h.at /\ k.ctx = h.ctx /\ k.code = h.code
             /\ k.fr = h.fr /\ k.cl = h.cl /\ Opens(k) = Opens(h)
<1> DEFINE k == [h EXCEPT !.cur = c]
<1>1. /\ DOMAIN k = DOMAIN h /\ k.ctx = h.ctx /\ k.fr = h.fr /\ k.cl = h.cl /\ k.cur = c
      /\ k.code = h.code /\ k.at = h.at
  BY DEF GenOK
<1> HIDE DEF k
<1>2. ContextsOK(k) /\ CleanupsOK(k) /\ CodeOK(k)
  BY <1>1 DEF GenOK, ContextsOK, ContextOK, CleanupsOK, FrameOK, CleanupOK, CodeOK
<1>3. GenOK(k)
  BY <1>1, <1>2 DEF GenOK
<1>4. Opens(k) = Opens(h)
  BY <1>1 DEF Opens
<1> QED
  BY <1>1, <1>3, <1>4 DEF k

\* A block is given other contents.
LEMMA SetCodeIs ==
  ASSUME NEW h, GenOK(h), NEW b \in DOMAIN h.code, NEW s, Open(s) \/ Closed(s)
  PROVE  Becomes(h, [h EXCEPT !.code[b] = s], h.at,
                 IF Open(s) THEN Opens(h) \cup {b} ELSE Opens(h) \ {b})
<1> DEFINE t == [h.code EXCEPT ![b] = s]
           k == [h EXCEPT !.code[b] = s]
<1>1. IsSeq(h.code) /\ h.at \in DOMAIN h.code
  BY DEF GenOK, CodeOK
<1>2. /\ IsSeq(t) /\ DOMAIN t = DOMAIN h.code /\ t[b] = s
      /\ \A e \in DOMAIN h.code : e # b => t[e] = h.code[e]
  BY <1>1, ExceptIs, Zenon
<1>3. /\ DOMAIN k = DOMAIN h /\ k.ctx = h.ctx /\ k.fr = h.fr /\ k.cl = h.cl /\ k.cur = h.cur
      /\ k.code = t /\ k.at = h.at
  BY DEF GenOK
<1> HIDE DEF t, k
<1>4. CodeOK(k)
  BY <1>1, <1>2, <1>3 DEF GenOK, CodeOK
<1>5. Opens(k) = IF Open(s) THEN Opens(h) \cup {b} ELSE Opens(h) \ {b}
  BY <1>2, <1>3 DEF Opens
<1>6. Becomes(h, k, k.at, Opens(k))
  BY <1>2, <1>3, <1>4, CodeStep
<1> QED
  BY <1>3, <1>5, <1>6 DEF k

\* A context within parent, and nothing else.
Nested(h, k, parent) ==
  LET new == k.cur
  IN  /\ GenOK(k)
      /\ k.at = h.at /\ k.code = h.code /\ Opens(k) = Opens(h)
      /\ new \notin DOMAIN h.ctx /\ new # 0
      /\ DOMAIN k.ctx = DOMAIN h.ctx \cup {new}
      /\ \A c \in DOMAIN h.ctx : k.ctx[c] = h.ctx[c]
      /\ k.ctx[new].parent = parent
      /\ k.ctx[new].loop = NoLoop /\ k.ctx[new].body = 0
      /\ k.ctx[new].terminal = FALSE
      /\ k.ctx[new].clauses = 0 /\ k.ctx[new].nonTerminal = FALSE
      /\ k.ctx[new].frames # <<>>

LEMMA OneIs ==
  ASSUME NEW S, NEW x \in S
  PROVE  <<x>> \in Seq(S)
  OBVIOUS

LEMMA createSubContextIs ==
  ASSUME NEW h, GenOK(h), NEW parent \in DOMAIN h.ctx
  PROVE  Nested(h, createSubContext(h, parent), parent)
<1> DEFINE new == Len(h.ctx) + 1
           f == Len(h.fr) + 1
           path == Append(h.ctx[parent].path, new)
           r == NewContext(parent, path, f)
           k == createSubContext(h, parent)
<1>1. /\ DOMAIN k = DOMAIN h /\ k.ctx = Append(h.ctx, r) /\ k.fr = Append(h.fr, NewFrame(new))
      /\ k.cl = h.cl /\ k.cur = new /\ k.code = h.code /\ k.at = h.at
  BY DEF GenOK, createSubContext
<1> HIDE DEF k
<1>2. /\ IsSeq(k.ctx) /\ DOMAIN k.ctx = DOMAIN h.ctx \cup {new} /\ new \notin DOMAIN h.ctx
      /\ \A i \in DOMAIN h.ctx : k.ctx[i] = h.ctx[i]
      /\ k.ctx[new] = r
  BY <1>1, Seqs, AppendIs
<1>3. /\ IsSeq(k.fr) /\ DOMAIN k.fr = DOMAIN h.fr \cup {f}
      /\ \A i \in DOMAIN h.fr : k.fr[i] = h.fr[i]
      /\ k.fr[f] = NewFrame(new)
  BY <1>1, Seqs, AppendIs
<1>4. new # 0
  BY Seqs, SeqFacts
<1>5. path \in Seq(DOMAIN k.ctx)
  <2>1. h.ctx[parent].path \in Seq(DOMAIN h.ctx)
    BY DEF GenOK, ContextsOK, ContextOK
  <2>2. h.ctx[parent].path \in Seq(DOMAIN k.ctx) /\ new \in DOMAIN k.ctx
    BY <1>2, <2>1, SeqMonotonic
  <2> HIDE DEF new
  <2> QED
    BY <2>2, AppendProperties, Zenon
<1>6. <<f>> \in Seq(DOMAIN k.fr) /\ <<>> \in Seq(DOMAIN k.ctx) /\ <<f>> # <<>>
  <2>1. f \in DOMAIN k.fr
    BY <1>3
  <2> HIDE DEF f
  <2>2. <<f>> \in Seq(DOMAIN k.fr)
    BY <2>1, OneIs
  <2>3. <<>> \in Seq(DOMAIN k.ctx)
    OBVIOUS
  <2>4. <<f>> # <<>>
    OBVIOUS
  <2> QED
    BY <2>2, <2>3, <2>4
<1> HIDE DEF path, f, new
<1>7. /\ r.parent = parent /\ r.path = path /\ r.terminal = FALSE /\ r.loop = NoLoop
      /\ r.catch = 0 /\ r.frames = <<f>> /\ r.body = 0 /\ r.clauses = 0
      /\ r.nested = <<>> /\ r.nonTerminal = FALSE
      /\ CtxFields \subseteq DOMAIN r
  BY DEF NewContext, CtxFields, Decides
<1> HIDE DEF r
<1>8. ContextOK(k, new)
  BY <1>2, <1>5, <1>6, <1>7 DEF ContextOK
<1>9. \A c \in DOMAIN h.ctx : ContextOK(k, c)
  <2> TAKE c \in DOMAIN h.ctx
  <2>1. ContextOK(h, c) /\ k.ctx[c] = h.ctx[c]
    BY <1>2 DEF GenOK, ContextsOK
  <2>2. /\ h.ctx[c].path \in Seq(DOMAIN k.ctx) /\ h.ctx[c].nested \in Seq(DOMAIN k.ctx)
        /\ h.ctx[c].frames \in Seq(DOMAIN k.fr)
    BY <1>2, <1>3, <2>1, SeqMonotonic DEF ContextOK
  <2> QED
    BY <2>1, <2>2 DEF ContextOK
<1>10. ContextsOK(k)
  BY <1>1, <1>2, <1>8, <1>9 DEF GenOK, ContextsOK
<1>11. CleanupsOK(k)
  <2>1. FrameOK(k, f)
    <3>1. k.fr[f] = [ctx |-> new, cleanups |-> <<>>, lp |-> 0]
      BY <1>3 DEF NewFrame
    <3>2. <<>> \in Seq(DOMAIN k.cl)
      OBVIOUS
    <3> QED
      BY <1>2, <3>1, <3>2 DEF FrameOK
  <2>2. \A i \in DOMAIN h.fr : FrameOK(k, i)
    BY <1>1, <1>2, <1>3 DEF GenOK, CleanupsOK, FrameOK
  <2>3. \A v \in DOMAIN k.cl : CleanupOK(k, v)
    BY <1>1, <1>3 DEF GenOK, CleanupsOK, CleanupOK
  <2> QED
    BY <1>1, <1>3, <2>1, <2>2, <2>3, Seqs DEF CleanupsOK
<1>12. GenOK(k)
  BY <1>1, <1>10, <1>11 DEF GenOK, CodeOK
<1>13. Opens(k) = Opens(h)
  BY <1>1 DEF Opens
<1>14. Nested(h, k, parent)
  BY <1>1, <1>2, <1>4, <1>6, <1>7, <1>12, <1>13 DEF Nested
<1> QED
  BY <1>14 DEF k
-----------------------------------------------------------------------------
(* What the parser sees of a step.                                         *)

Marks == {"parent", "loop", "body", "terminal", "clauses", "nonTerminal"}

\* From h to k, contexts and blocks are added, and of the contexts there were the
\* parser can tell only the fields F of d apart.
Goes(h, k, d, F) ==
  /\ GenOK(k)
  /\ DOMAIN h.ctx \subseteq DOMAIN k.ctx
  /\ DOMAIN h.code \subseteq DOMAIN k.code
  /\ \A c \in DOMAIN h.ctx : h.ctx[c].frames # <<>> => k.ctx[c].frames # <<>>
  /\ \A c \in DOMAIN k.ctx \ DOMAIN h.ctx : k.ctx[c].frames # <<>>
  /\ \A c \in DOMAIN h.ctx : \A n \in Marks :
       c # d \/ n \notin F => k.ctx[c][n] = h.ctx[c][n]

LEMMA GoesTrans ==
  ASSUME NEW h, NEW k, NEW l, NEW d, NEW F, Goes(h, k, d, F), Goes(k, l, d, F)
  PROVE  Goes(h, l, d, F)
<1>1. /\ GenOK(l) /\ DOMAIN h.ctx \subseteq DOMAIN l.ctx
      /\ DOMAIN h.code \subseteq DOMAIN l.code
  BY DEF Goes
<1>2. \A c \in DOMAIN h.ctx : h.ctx[c].frames # <<>> => l.ctx[c].frames # <<>>
  BY DEF Goes
<1>3. \A c \in DOMAIN l.ctx \ DOMAIN h.ctx : l.ctx[c].frames # <<>>
  BY DEF Goes
<1>4. \A c \in DOMAIN h.ctx : \A n \in Marks : c # d \/ n \notin F => l.ctx[c][n] = h.ctx[c][n]
  BY DEF Goes
<1> QED
  BY <1>1, <1>2, <1>3, <1>4 DEF Goes

LEMMA GoesRefl ==
  ASSUME NEW h, GenOK(h), NEW d, NEW F
  PROVE  Goes(h, h, d, F)
  BY DEF Goes

LEMMA BecomesGoes ==
  ASSUME NEW h, NEW k, NEW a, NEW O, GenOK(h), Becomes(h, k, a, O), NEW d, NEW F
  PROVE  Goes(h, k, d, F)
<1>1. Kept(h, k, Frames(h)) /\ GenOK(k)
  BY DEF Becomes, Moves
<1>2. Marks \subseteq Decides
  BY DEF Marks, Decides
<1>3. \A c \in DOMAIN h.ctx : k.ctx[c].frames = h.ctx[c].frames
  BY <1>1 DEF Kept, Frames
<1> QED
  BY <1>1, <1>2, <1>3 DEF Goes, Kept

LEMMA EmitsGoes ==
  ASSUME NEW h, NEW k, GenOK(h), Emits(h, k), NEW d, NEW F
  PROVE  Goes(h, k, d, F)
  BY BecomesGoes DEF Emits

LEMMA CtxSetGoes ==
  ASSUME NEW h, NEW k, NEW c, NEW f, NEW x, CtxSet(h, k, c, f, x), f # "frames",
         NEW d, NEW F, c \in DOMAIN h.ctx /\ f \in Marks => c = d /\ f \in F
  PROVE  Goes(h, k, d, F)
<1>1. "frames" \in CtxFields /\ Marks \subseteq CtxFields
  BY DEF CtxFields, Marks, Decides
<1>2. \A e \in DOMAIN h.ctx : k.ctx[e].frames = h.ctx[e].frames
  BY <1>1 DEF CtxSet
<1>3. \A e \in DOMAIN h.ctx : \A n \in Marks : e # d \/ n \notin F => k.ctx[e][n] = h.ctx[e][n]
  BY <1>1 DEF CtxSet
<1> QED
  BY <1>2, <1>3 DEF Goes, CtxSet

\* A change to a context that there was not at the start.
LEMMA NewCtxGoes ==
  ASSUME NEW h, NEW k, NEW l, NEW c, NEW f, NEW x, NEW d, NEW F,
         Goes(h, k, d, F), CtxSet(k, l, c, f, x), c \notin DOMAIN h.ctx, f # "frames"
  PROVE  Goes(h, l, d, F)
<1>1. "frames" \in CtxFields /\ Marks \subseteq CtxFields
  BY DEF CtxFields, Marks, Decides
<1>2. \A e \in DOMAIN k.ctx : l.ctx[e].frames = k.ctx[e].frames
  BY <1>1 DEF CtxSet
<1>3. \A e \in DOMAIN h.ctx : \A n \in Marks : l.ctx[e][n] = k.ctx[e][n]
  BY <1>1 DEF CtxSet, Goes
<1>4. GenOK(l) /\ DOMAIN l.ctx = DOMAIN k.ctx /\ l.code = k.code
  BY DEF CtxSet
<1> QED
  BY <1>2, <1>3, <1>4 DEF Goes

LEMMA NestedGoes ==
  ASSUME NEW h, NEW k, NEW p, Nested(h, k, p), NEW d, NEW F
  PROVE  Goes(h, k, d, F)
  BY DEF Nested, Goes

LEMMA SetCurGoes ==
  ASSUME NEW h, GenOK(h), NEW c \in DOMAIN h.ctx, NEW d, NEW F
  PROVE  Goes(h, [h EXCEPT !.cur = c], d, F)
<1> DEFINE k == [h EXCEPT !.cur = c]
<1>1. GenOK(k) /\ k.ctx = h.ctx /\ k.code = h.code
  BY SetCurIs
<1> HIDE DEF k
<1>2. Goes(h, k, d, F)
  BY <1>1 DEF Goes
<1> QED
  BY <1>2 DEF k

LEMMA GoesFramed ==
  ASSUME NEW h, NEW k, NEW d, NEW F, Framed(h), Goes(h, k, d, F)
  PROVE  Framed(k)
  BY DEF Framed, Goes

LEMMA GoesWider ==
  ASSUME NEW h, NEW k, NEW d, NEW F, NEW D, F \subseteq D, Goes(h, k, d, F)
  PROVE  Goes(h, k, d, D)
  BY DEF Goes

-----------------------------------------------------------------------------
(* Exceptions.                                                             *)

LEMMA FirstCatchIs ==
  ASSUME NEW h, GenOK(h), NEW switch \in Opens(h) \ {h.at}, NEW terminal \in BOOLEAN,
         h.at \in Opens(h) <=> ~terminal,
         h.ctx[h.cur].parent \in DOMAIN h.ctx
  PROVE  LET after == NextBlock(h)
         IN  /\ after \in Nat \ {0} /\ after \notin DOMAIN h.code
             /\ Becomes(h, FirstCatch(h, switch, terminal), switch,
                        ((Opens(h) \ {h.at}) \cup {after}) \ {switch})
<1> DEFINE after == NextBlock(h)
           n == AddBlock(h, <<>>)
           a == IF terminal THEN n ELSE Emit(n, Br(after))
           b == withUnwindBlock(a, h.cur)
           p == CatchDefault(b)
           c == SetInsertPoint(p.g, switch)
           e == [op |-> "switch", try |-> p.g.cur, default |-> p.next,
                 scope |-> Scope(p.g, p.g.ctx[p.g.cur].parent)]
           O == (Opens(h) \ {h.at}) \cup {after}
<1>1. FirstCatch(h, switch, terminal) = Emit(c, e)
  BY DEF FirstCatch, CatchSwitch
<1>2. e.op \in Terminators
  BY DEF Terminators
<1>3. /\ after \in Nat \ {0} /\ after \notin DOMAIN h.code
      /\ Becomes(h, n, h.at, Opens(h) \cup {after})
  BY OpenEmpty, AddBlockIs
<1>4. h.at \in DOMAIN h.code /\ switch \in DOMAIN h.code /\ h.cur \in DOMAIN h.ctx
  BY OpensExist DEF GenOK, CodeOK, ContextsOK
<1>5. Becomes(h, a, h.at, O)
  <2> HIDE DEF after
  <2>1. n.at = h.at /\ Opens(n) = Opens(h) \cup {after} /\ GenOK(n)
    BY <1>3, BecomesFacts
  <2>2. (Opens(h) \cup {after}) \ {h.at} = O
    BY <1>3, <1>4
  <2>3. n.at \in Opens(n) <=> ~terminal
    BY <1>3, <1>4, <2>1
  <2> HIDE DEF n, O
  <2>4. Becomes(n, a, h.at, O)
    BY <2>1, <2>2, <2>3, EndIs
  <2> QED
    BY <1>3, <2>4, BecomesTrans
<1> HIDE DEF a, e
<1>6. GenOK(a)
  BY <1>5, BecomesFacts
<1>7. Emits(a, b)
  BY <1>6, withUnwindBlockIs
<1>8. Becomes(h, b, h.at, O)
  BY <1>5, <1>7, ThenEmits
<1> HIDE DEF b, O
<1>9. /\ GenOK(b) /\ b.cur = h.cur /\ DOMAIN b.ctx = DOMAIN h.ctx
      /\ b.ctx[b.cur].parent = h.ctx[h.cur].parent
  BY <1>4, <1>8, BecomesFacts DEF Becomes, Moves, Kept, Decides
<1>10. Emits(b, p.g)
  <2>1. Outside \in DOMAIN b.ctx
    BY <1>9 DEF GenOK, ContextsOK
  <2> QED
    BY <1>9, <2>1, emitUnwindCleanupsIs DEF CatchDefault
<1>11. Becomes(h, p.g, h.at, O)
  BY <1>8, <1>10, ThenEmits
<1> HIDE DEF p
<1>12. switch \in DOMAIN p.g.code
  BY <1>4, <1>11, BecomesFacts
<1>13. Becomes(h, c, switch, O)
  BY <1>11, <1>12, ThenAt
<1> HIDE DEF c
<1>14. switch \in O
  BY DEF O
<1>15. Becomes(h, Emit(c, e), switch, O \ {switch})
  BY <1>2, <1>13, <1>14, ThenBr
<1> QED
  BY <1>1, <1>3, <1>15 DEF O

\* The block of a catch clause.
LEMMA CatchBlockIs ==
  ASSUME NEW h, GenOK(h), NEW x, NEW terminal \in BOOLEAN
  PROVE  LET k == CatchBlock(h, x, terminal)
         IN  /\ Goes(h, k, h.cur, {"clauses", "nonTerminal"})
             /\ k.cur = h.cur
             /\ k.at \notin DOMAIN h.code
             /\ Opens(k) = Opens(h) \cup {k.at}
             /\ k.ctx[h.cur].clauses = h.ctx[h.cur].clauses + 1
             /\ k.ctx[h.cur].nonTerminal = (h.ctx[h.cur].nonTerminal \/ ~terminal)
<1> DEFINE b == NextBlock(h)
           c == h.cur
           F == {"clauses", "nonTerminal"}
           n == AddBlock(h, <<>>)
           i == SetInsertPoint(n, b)
           x1 == Append(i.ctx[c].catches, [type |-> x, block |-> b])
           k1 == WithCtx(i, c, "catches", x1)
           x2 == i.ctx[c].clauses + 1
           k2 == WithCtx(k1, c, "clauses", x2)
           x3 == i.ctx[c].nonTerminal \/ ~terminal
           k3 == WithCtx(k2, c, "nonTerminal", x3)
           e == [op |-> "catch", ctx |-> c, block |-> b, scope |-> Scope(h, c)]
           k == [k3 EXCEPT !.code[b] = <<e>>]
<1>1. CatchBlock(h, x, terminal) = k
  BY DEF CatchBlock, WithCtx
<1>2. e.op \notin Terminators
  BY DEF Terminators
<1>3. /\ b \in Nat \ {0} /\ b \notin DOMAIN h.code /\ b \in DOMAIN n.code
      /\ Becomes(h, n, h.at, Opens(h) \cup {b})
  BY OpenEmpty, AddBlockIs
<1> HIDE DEF b, n, e
<1>4. Becomes(h, i, b, Opens(h) \cup {b})
  BY <1>3, ThenAt
<1> HIDE DEF i
<1>5. c \in DOMAIN h.ctx
  BY DEF GenOK, ContextsOK
<1>6. /\ GenOK(i) /\ i.at = b /\ Opens(i) = Opens(h) \cup {b} /\ i.cur = c /\ c \in DOMAIN i.ctx
      /\ i.ctx[c].clauses = h.ctx[c].clauses /\ i.ctx[c].nonTerminal = h.ctx[c].nonTerminal
  BY <1>4, <1>5, BecomesFacts DEF Becomes, Moves, Kept, Decides
<1> HIDE DEF x1
<1>7. CtxSet(i, k1, c, "catches", x1)
  <2>1. MaySet(i, c, "catches", x1)
    BY DEF MaySet, CtxFields
  <2> QED
    BY <1>6, <2>1, CtxSetIs
<1> HIDE DEF k1, x2
<1>8. GenOK(k1) /\ c \in DOMAIN k1.ctx
  BY <1>6, <1>7 DEF CtxSet
<1>9. CtxSet(k1, k2, c, "clauses", x2)
  <2>1. MaySet(k1, c, "clauses", x2)
    BY DEF MaySet, CtxFields, Decides
  <2> QED
    BY <1>8, <2>1, CtxSetIs
<1> HIDE DEF k2, x3
<1>10. GenOK(k2) /\ c \in DOMAIN k2.ctx
  BY <1>8, <1>9 DEF CtxSet
<1>11. CtxSet(k2, k3, c, "nonTerminal", x3)
  <2>1. MaySet(k2, c, "nonTerminal", x3)
    BY DEF MaySet, CtxFields, Decides
  <2> QED
    BY <1>10, <2>1, CtxSetIs
<1> HIDE DEF k3
<1>12. GenOK(k3) /\ k3.at = b /\ Opens(k3) = Opens(h) \cup {b} /\ k3.cur = c /\ k3.code = i.code
  BY <1>6, <1>7, <1>9, <1>11 DEF CtxSet
<1>13. b \in DOMAIN i.code
  BY <1>6, OpensExist
<1>14. Open(<<e>>)
  BY <1>2, Singleton
<1>15. Becomes(k3, k, b, Opens(h) \cup {b})
  <2> DEFINE s == <<e>>
             kk == [k3 EXCEPT !.code[b] = s]
  <2>1. Open(s) \/ Closed(s)
    BY <1>14
  <2> HIDE DEF s
  <2>2. Becomes(k3, kk, k3.at, Opens(k3) \cup {b})
    BY <1>12, <1>13, <1>14, <2>1, SetCodeIs DEF s
  <2>3. Opens(k3) \cup {b} = Opens(h) \cup {b} /\ k3.at = b
    BY <1>12
  <2> QED
    BY <2>2, <2>3 DEF s
<1> HIDE DEF k
<1>16. Goes(h, k, c, F)
  <2>1. Goes(h, i, c, F)
    BY <1>4, BecomesGoes
  <2>2. Goes(i, k1, c, F)
    BY <1>7, CtxSetGoes DEF Marks
  <2>3. Goes(k1, k2, c, F) /\ Goes(k2, k3, c, F)
    BY <1>9, <1>11, CtxSetGoes
  <2>4. Goes(k3, k, c, F)
    BY <1>12, <1>15, BecomesGoes
  <2> QED
    BY <2>1, <2>2, <2>3, <2>4, GoesTrans
<1>17. k.at = b /\ Opens(k) = Opens(h) \cup {b} /\ k.cur = c
  BY <1>12, <1>15, BecomesFacts
<1>18. k.ctx[c].clauses = h.ctx[c].clauses + 1
  <2>1. k2.ctx[c].clauses = x2
    BY <1>9 DEF CtxSet
  <2>2. k3.ctx[c].clauses = k2.ctx[c].clauses
    BY <1>10, <1>11 DEF CtxSet, CtxFields, Decides
  <2>3. k.ctx[c].clauses = k3.ctx[c].clauses
    BY <1>10, <1>11, <1>15 DEF CtxSet, Becomes, Moves, Kept, Decides
  <2> QED
    BY <1>6, <2>1, <2>2, <2>3 DEF x2
<1>19. k.ctx[c].nonTerminal = (h.ctx[c].nonTerminal \/ ~terminal)
  <2>1. k3.ctx[c].nonTerminal = x3
    BY <1>11 DEF CtxSet
  <2>2. k.ctx[c].nonTerminal = k3.ctx[c].nonTerminal
    BY <1>10, <1>11, <1>15 DEF CtxSet, Becomes, Moves, Kept, Decides
  <2> QED
    BY <1>6, <2>1, <2>2 DEF x3
<1> QED
  BY <1>1, <1>3, <1>16, <1>17, <1>18, <1>19

\* What a catch clause needs, and what it leaves.
CatchReady(h, switch, after, terminal) ==
  /\ GenOK(h) /\ terminal \in BOOLEAN
  /\ after = 0 => switch \in Opens(h) \ {h.at}
  /\ h.at \in Opens(h) <=> ~terminal
  /\ h.ctx[h.cur].parent \in DOMAIN h.ctx

CatchLeft(h, switch, after) ==
  IF after = 0 THEN ((Opens(h) \ {h.at}) \cup {NextBlock(h)}) \ {switch}
  ELSE Opens(h) \ {h.at}

Caught(h, k, O, terminal) ==
  /\ Goes(h, k, h.cur, {"clauses", "nonTerminal"})
  /\ k.cur = h.cur
  /\ k.at \notin DOMAIN h.code /\ k.at \notin O
  /\ Opens(k) = O \cup {k.at}
  /\ k.ctx[h.cur].clauses = h.ctx[h.cur].clauses + 1
  /\ k.ctx[h.cur].nonTerminal = (h.ctx[h.cur].nonTerminal \/ ~terminal)

LEMMA emitCatchIs ==
  ASSUME NEW h, NEW switch, NEW after, NEW x, NEW terminal,
         CatchReady(h, switch, after, terminal)
  PROVE  Caught(h, emitCatch(h, switch, after, x, terminal),
                CatchLeft(h, switch, after), terminal)
<1> DEFINE F == {"clauses", "nonTerminal"}
           c == h.cur
           O == IF after = 0 THEN ((Opens(h) \ {h.at}) \cup {NextBlock(h)}) \ {switch}
                ELSE Opens(h) \ {h.at}
           e == IF terminal THEN h ELSE Emit(h, Br(after))
           l == IF after = 0 THEN FirstCatch(h, switch, terminal) ELSE e
           k == CatchBlock(l, x, terminal)
<1>0. /\ GenOK(h) /\ terminal \in BOOLEAN
      /\ after = 0 => switch \in Opens(h) \ {h.at}
      /\ h.at \in Opens(h) <=> ~terminal
      /\ h.ctx[h.cur].parent \in DOMAIN h.ctx
  BY DEF CatchReady
<1>1. emitCatch(h, switch, after, x, terminal) = k /\ CatchLeft(h, switch, after) = O
  BY DEF emitCatch, CatchLeft
<1>2. Becomes(h, l, l.at, O)
  <2>1. CASE after = 0
    <3> DEFINE f == FirstCatch(h, switch, terminal)
    <3>1. Becomes(h, f, switch, O)
      BY <1>0, <2>1, FirstCatchIs
    <3>2. f.at = switch
      BY <1>0, <3>1, BecomesFacts
    <3> HIDE DEF f, O
    <3> QED
      BY <2>1, <3>1, <3>2 DEF f
  <2>2. CASE after # 0
    <3>1. Becomes(h, e, h.at, O)
      BY <1>0, <2>2, EndIs
    <3>2. e.at = h.at
      BY <1>0, <3>1, BecomesFacts
    <3> HIDE DEF e, O
    <3> QED
      BY <2>2, <3>1, <3>2
  <2> QED
    BY <2>1, <2>2
<1> HIDE DEF l, O
<1>3. GenOK(l) /\ Opens(l) = O /\ l.cur = c /\ DOMAIN h.code \subseteq DOMAIN l.code
  BY <1>0, <1>2, BecomesFacts
<1>4. l.ctx[c].clauses = h.ctx[c].clauses /\ l.ctx[c].nonTerminal = h.ctx[c].nonTerminal
  BY <1>0, <1>2 DEF Becomes, Moves, Kept, Decides, GenOK, ContextsOK
<1>5. /\ Goes(l, k, l.cur, F) /\ k.cur = l.cur /\ k.at \notin DOMAIN l.code
      /\ Opens(k) = Opens(l) \cup {k.at}
      /\ k.ctx[l.cur].clauses = l.ctx[l.cur].clauses + 1
      /\ k.ctx[l.cur].nonTerminal = (l.ctx[l.cur].nonTerminal \/ ~terminal)
  BY <1>0, <1>3, CatchBlockIs
<1> HIDE DEF k
<1>6. Goes(h, k, c, F)
  <2>1. Goes(h, l, c, F)
    BY <1>0, <1>2, BecomesGoes
  <2> QED
    BY <1>3, <1>5, <2>1, GoesTrans
<1>7. k.at \notin O
  BY <1>3, <1>5, OpensExist
<1> QED
  BY <1>1, <1>3, <1>4, <1>5, <1>6, <1>7 DEF Caught

LEMMA emitExceptionCleanupIs ==
  ASSUME NEW h, Ready(h), NEW d, NEW F
  PROVE  LET k == emitExceptionCleanup(h)
         IN  Goes(h, k, d, F) /\ k.cur = h.cur /\ k.at = h.at /\ Opens(k) = Opens(h)
<1> DEFINE b == createCleanupFrame(h)
           fs == Append(Frames(h), Len(h.fr) + 1)
           k == HandleTransient(b)
<1>1. GenOK(h)
  BY DEF Ready
<1>2. Moves(h, b, fs, h.at, Opens(h))
  BY <1>1, createCleanupFrameIs
<1>3. Ready(b) /\ b.at = h.at /\ Opens(b) = Opens(h) /\ b.cur = h.cur /\ Frames(b) # <<>>
  BY FramedIs
<1>4. Frames(b) = fs
  BY <1>1, <1>2, FramesKept
<1> HIDE DEF b, fs
<1>5. Goes(h, b, d, F)
  <2>1. GenOK(b) /\ Kept(h, b, fs)
    BY <1>2 DEF Moves
  <2>2. Marks \subseteq Decides
    BY DEF Marks, Decides
  <2> QED
    BY <1>3, <1>4, <2>1, <2>2 DEF Goes, Kept
<1>6. Emits(b, k)
  BY <1>3, HandleTransientIs
<1>7. Goes(b, k, d, F)
  BY <1>3, <1>6, EmitsGoes DEF Ready
<1>8. Goes(h, k, d, F)
  BY <1>5, <1>7, GoesTrans
<1>9. k.cur = h.cur /\ k.at = h.at /\ Opens(k) = Opens(h)
  BY <1>3, <1>6, EmitsFacts
<1>10. emitExceptionCleanup(h) = k
  BY DEF emitExceptionCleanup, b
<1> HIDE DEF k
<1> QED
  BY <1>8, <1>9, <1>10

LEMMA FixChildIs ==
  ASSUME NEW start, NEW acc, NEW c, GenOK(start.g), FixRel(start, acc)
  PROVE  FixRel(start, FixChild(acc, c))
<1> DEFINE h == acc.g
           x == InheritCatches(h.ctx[c].catches, acc.catches)
           k == [h EXCEPT !.ctx = [h.ctx EXCEPT ![c] = [h.ctx[c] EXCEPT !["catches"] = x]]]
           r == [acc EXCEPT !.g = k]
<1>1. Emits(start.g, h) /\ {"g", "catches"} \subseteq DOMAIN acc
  BY DEF FixRel
<1>2. FixChild(acc, c) = r
  BY DEF FixChild
<1>3. GenOK(h)
  BY <1>1, EmitsFacts
<1> HIDE DEF h, x
<1>4. "catches" \in CtxCaches
  BY DEF CtxCaches
<1>5. Emits(h, k)
  BY <1>3, <1>4, SetCtxIs, Zenon
<1> HIDE DEF k
<1>6. r.g = k /\ DOMAIN r = DOMAIN acc
  BY <1>1
<1> HIDE DEF r
<1>7. Emits(start.g, k)
  BY <1>1, <1>5, EmitsTrans
<1> QED
  BY <1>1, <1>2, <1>6, <1>7 DEF FixRel

LEMMA FixNestedIs ==
  ASSUME NEW h, GenOK(h), NEW c \in DOMAIN h.ctx
  PROVE  Emits(h, FixNested(h, c))
<1> DEFINE acc == [g |-> h, catches |-> h.ctx[c].catches]
           s == h.ctx[c].nested
<1>1. acc.g = h /\ {"g", "catches"} \subseteq DOMAIN acc
  OBVIOUS
<1>2. FixNested(h, c) = FoldLeft(FixChild, acc, s).g
  BY DEF FixNested
<1>3. s \in Seq(DOMAIN h.ctx)
  BY DEF GenOK, ContextsOK, ContextOK
<1> HIDE DEF acc, s
<1>4. FixRel(acc, acc)
  BY <1>1, EmitsRefl DEF FixRel
<1>5. \A a : \A x \in DOMAIN h.ctx : FixRel(acc, a) => FixRel(acc, FixChild(a, x))
  BY <1>1, FixChildIs
<1>6. FixRel(acc, FoldLeft(FixChild, acc, s))
  BY <1>3, <1>4, <1>5, FoldFixIs
<1> QED
  BY <1>1, <1>2, <1>6 DEF FixRel

LEMMA FixBelowIs ==
  ASSUME NEW start, NEW acc, GenOK(start.g), BelowRel(start, acc), NEW x \in DOMAIN start.g.ctx
  PROVE  BelowRel(start, FixBelow(acc, x))
<1> DEFINE r == [g |-> FixNested(acc.g, x), below |-> acc.below \cup Range(acc.g.ctx[x].nested)]
<1>1. Emits(start.g, acc.g) /\ {"g", "below"} \subseteq DOMAIN acc
  BY DEF BelowRel
<1>2. FixBelow(acc, x) = IF x \notin acc.below THEN acc ELSE r
  BY DEF FixBelow
<1>3. r.g = FixNested(acc.g, x) /\ {"g", "below"} \subseteq DOMAIN r
  OBVIOUS
<1> HIDE DEF r
<1>4. GenOK(acc.g) /\ x \in DOMAIN acc.g.ctx
  BY <1>1, EmitsFacts
<1>5. Emits(acc.g, r.g)
  BY <1>3, <1>4, FixNestedIs
<1>6. BelowRel(start, r)
  BY <1>1, <1>3, <1>5, EmitsTrans DEF BelowRel
<1> QED
  BY <1>2, <1>6

LEMMA fixAllSelectorsIs ==
  ASSUME NEW h, GenOK(h), NEW try
  PROVE  Emits(h, fixAllSelectors(h, try))
<1> DEFINE acc == [g |-> h, below |-> {try}]
           s == [x \in DOMAIN h.ctx |-> x]
<1>1. acc.g = h /\ {"g", "below"} \subseteq DOMAIN acc
  OBVIOUS
<1>2. fixAllSelectors(h, try) = FoldLeft(FixBelow, acc, s).g
  BY DEF fixAllSelectors
<1>3. s \in Seq(DOMAIN h.ctx)
  <2>1. Len(h.ctx) \in Nat /\ DOMAIN h.ctx = 1 .. Len(h.ctx)
    BY Seqs, SeqFacts
  <2>2. s \in [1 .. Len(h.ctx) -> DOMAIN h.ctx]
    BY <2>1
  <2> HIDE DEF s
  <2> QED
    BY <2>1, <2>2, FunctionIsSeq, Zenon
<1> HIDE DEF acc, s
<1>4. BelowRel(acc, acc)
  BY <1>1, EmitsRefl DEF BelowRel
<1>5. \A a : \A x \in DOMAIN h.ctx : BelowRel(acc, a) => BelowRel(acc, FixBelow(a, x))
  BY <1>1, FixBelowIs
<1>6. BelowRel(acc, FoldLeft(FixBelow, acc, s))
  BY <1>3, <1>4, <1>5, FoldBelowIs
<1> QED
  BY <1>1, <1>2, <1>6 DEF BelowRel

LEMMA SetClosedIs ==
  ASSUME NEW h, GenOK(h), NEW b \in DOMAIN h.code, NEW s, Closed(s)
  PROVE  Becomes(h, [h EXCEPT !.code[b] = s], h.at, Opens(h) \ {b})
  BY SetCodeIs, NotBoth

LEMMA emitEndTryIs ==
  ASSUME NEW h, GenOK(h), NEW after \in Opens(h) \ {h.at}, NEW terminal \in BOOLEAN,
         h.at \in Opens(h) <=> ~terminal,
         h.ctx[h.cur].parent \in DOMAIN h.ctx
  PROVE  LET k  == emitEndTry(h, after, terminal)
             nt == h.ctx[h.cur].nonTerminal \/ ~terminal
         IN  /\ Goes(h, k, h.cur, {"nonTerminal"})
             /\ k.cur = h.cur
             /\ nt => k.at = after /\ Opens(k) = Opens(h) \ {h.at}
             /\ ~nt => k.at = h.at /\ Opens(k) = Opens(h) \ {after}
<1> DEFINE c == h.cur
           F == {"nonTerminal"}
           nt == h.ctx[c].nonTerminal \/ ~terminal
           e == Emit(h, Br(after))
           a == IF terminal THEN h ELSE WithCtx(e, c, "nonTerminal", TRUE)
           s == <<Unreachable>>
           b == IF a.ctx[c].nonTerminal THEN SetInsertPoint(a, after)
                ELSE [a EXCEPT !.code[after] = s]
           outer == getCatch(h, h.ctx[c].parent)
           x == Append(b.ctx[outer].nested, c)
           k == IF outer # Toplevel THEN WithCtx(b, outer, "nested", x)
                ELSE fixAllSelectors(b, c)
<1>1. emitEndTry(h, after, terminal) = k
  BY DEF emitEndTry, WithCtx
<1>2. c \in DOMAIN h.ctx /\ outer \in DOMAIN h.ctx /\ after \in DOMAIN h.code
  BY getCatchIs, OpensExist DEF GenOK, ContextsOK
<1>3. Closed(s) /\ ~Open(s)
  <2>1. Unreachable.op \in Terminators
    BY DEF Unreachable, Terminators
  <2> QED
    BY <2>1, Singleton, NotBoth
<1> HIDE DEF outer, s
<1>4. /\ GenOK(a) /\ a.at = h.at /\ Opens(a) = Opens(h) \ {h.at} /\ a.cur = c
      /\ Goes(h, a, c, F)
      /\ a.ctx[c].nonTerminal <=> nt
  <2>1. CASE terminal
    <3>1. a = h /\ Opens(h) \ {h.at} = Opens(h)
      BY <2>1
    <3> QED
      BY <2>1, <3>1, GoesRefl
  <2>2. CASE ~terminal
    <3>1. Becomes(h, e, h.at, Opens(h) \ {h.at})
      BY <2>2, BrIs, EmitCloses
    <3> HIDE DEF e
    <3>2. /\ GenOK(e) /\ e.at = h.at /\ Opens(e) = Opens(h) \ {h.at} /\ e.cur = c
          /\ c \in DOMAIN e.ctx
      BY <1>2, <3>1, BecomesFacts
    <3>3. CtxSet(e, a, c, "nonTerminal", TRUE)
      <4>1. MaySet(e, c, "nonTerminal", TRUE)
        BY DEF MaySet, CtxFields, Decides
      <4>2. a = WithCtx(e, c, "nonTerminal", TRUE)
        BY <2>2
      <4> HIDE DEF a
      <4> QED
        BY <3>2, <4>1, <4>2, CtxSetIs
    <3> HIDE DEF a
    <3>4. Goes(h, a, c, F)
      <4>1. Goes(h, e, c, F)
        BY <3>1, BecomesGoes
      <4>2. Goes(e, a, c, F)
        BY <3>3, CtxSetGoes
      <4> QED
        BY <4>1, <4>2, GoesTrans
    <3>5. a.ctx[c].nonTerminal
      BY <3>3 DEF CtxSet
    <3> QED
      BY <2>2, <3>2, <3>3, <3>4, <3>5 DEF CtxSet
  <2> QED
    BY <2>1, <2>2
<1> HIDE DEF a, nt
<1>5. after \in DOMAIN a.code
  BY <1>2, <1>4 DEF Goes
<1>6. /\ GenOK(b) /\ b.cur = c /\ Goes(h, b, c, F)
      /\ nt => b.at = after /\ Opens(b) = Opens(h) \ {h.at}
      /\ ~nt => b.at = h.at /\ Opens(b) = (Opens(h) \ {h.at}) \ {after}
  <2>1. CASE nt
    <3>1. b = SetInsertPoint(a, after)
      BY <1>4, <2>1
    <3> HIDE DEF b
    <3>2. Becomes(a, b, after, Opens(h) \ {h.at})
      BY <1>4, <1>5, <3>1, SetInsertPointIs
    <3> QED
      BY <1>4, <2>1, <3>2, BecomesFacts, BecomesGoes, GoesTrans
  <2>2. CASE ~nt
    <3>1. b = [a EXCEPT !.code[after] = s]
      BY <1>4, <2>2
    <3> HIDE DEF b
    <3>2. Becomes(a, [a EXCEPT !.code[after] = s], a.at, Opens(a) \ {after})
      BY <1>3, <1>4, <1>5, SetClosedIs, Zenon
    <3>3. Becomes(a, b, a.at, Opens(a) \ {after})
      BY <3>1, <3>2, Zenon
    <3> QED
      BY <1>4, <2>2, <3>3, BecomesFacts, BecomesGoes, GoesTrans
  <2> QED
    BY <2>1, <2>2
<1> HIDE DEF b
<1>7. GenOK(k) /\ k.cur = c /\ k.at = b.at /\ Opens(k) = Opens(b) /\ Goes(b, k, c, F)
  <2>0. c \in DOMAIN b.ctx /\ outer \in DOMAIN b.ctx
    BY <1>2, <1>6 DEF Goes
  <2>1. CASE outer # Toplevel
    <3>1. k = WithCtx(b, outer, "nested", x)
      BY <2>1
    <3>2. x \in Seq(DOMAIN b.ctx)
      <4>1. b.ctx[outer].nested \in Seq(DOMAIN b.ctx)
        BY <1>6, <2>0 DEF GenOK, ContextsOK, ContextOK
      <4> HIDE DEF c
      <4> QED
        BY <2>0, <4>1, AppendProperties, Zenon
    <3> HIDE DEF k, x
    <3>3. MaySet(b, outer, "nested", x)
      BY <3>2 DEF MaySet, CtxFields
    <3>4. CtxSet(b, k, outer, "nested", x)
      BY <1>6, <2>0, <3>1, <3>3, CtxSetIs
    <3>5. Goes(b, k, c, F)
      BY <3>4, CtxSetGoes DEF Marks
    <3> QED
      BY <1>6, <3>4, <3>5 DEF CtxSet
  <2>2. CASE outer = Toplevel
    <3>1. k = fixAllSelectors(b, c)
      BY <2>2
    <3> HIDE DEF k
    <3>2. Emits(b, k)
      BY <1>6, <3>1, fixAllSelectorsIs
    <3> QED
      BY <1>6, <3>2, EmitsFacts, EmitsGoes
  <2> QED
    BY <2>1, <2>2
<1> HIDE DEF k
<1>8. Goes(h, k, c, F)
  BY <1>6, <1>7, GoesTrans
<1>9. ~nt => (Opens(h) \ {h.at}) \ {after} = Opens(h) \ {after}
  BY DEF nt
<1> QED
  BY <1>1, <1>6, <1>7, <1>8, <1>9 DEF nt

-----------------------------------------------------------------------------
(* The end of a function and of a module.                                  *)

LEMMA emitEndFuncIs ==
  ASSUME NEW h, GenOK(h)
  PROVE  GenOK(emitEndFunc(h)) /\ Opens(emitEndFunc(h)) \subseteq Opens(h)
<1> DEFINE s == <<Unreachable>>
           k == [h EXCEPT !.code[h.at] = s]
<1>1. Closed(s) /\ ~Open(s)
  <2>1. Unreachable.op \in Terminators
    BY DEF Unreachable, Terminators
  <2> QED
    BY <2>1, Singleton, NotBoth
<1>2. emitEndFunc(h) = IF h.code[h.at] = <<>> THEN k ELSE h
  BY DEF emitEndFunc
<1>3. h.at \in DOMAIN h.code
  BY DEF GenOK, CodeOK
<1> HIDE DEF s
<1>4. Becomes(h, k, h.at, Opens(h) \ {h.at})
  BY <1>1, <1>3, SetCodeIs
<1> HIDE DEF k
<1>5. GenOK(k) /\ Opens(k) = Opens(h) \ {h.at}
  BY <1>4, BecomesFacts
<1> QED
  BY <1>2, <1>5

LEMMA clearCachedCleanupsIs ==
  ASSUME NEW h, GenOK(h)
  PROVE  Emits(h, clearCachedCleanups(h))
<1> DEFINE x == [h.ctx EXCEPT ![Toplevel] = [h.ctx[Toplevel] EXCEPT !["unwind"] = 0]]
           cl == [v \in DOMAIN h.cl |-> IF h.fr[h.cl[v].fr].ctx = Toplevel
                                        THEN [h.cl[v] EXCEPT !.unwind = 0, !.lp = 0] ELSE h.cl[v]]
           fr == [f \in DOMAIN h.fr |-> IF h.fr[f].ctx = Toplevel
                                        THEN [h.fr[f] EXCEPT !.lp = 0] ELSE h.fr[f]]
           k == clearCachedCleanups(h)
<1>1. /\ DOMAIN k = DOMAIN h /\ k.ctx = x /\ k.fr = fr /\ k.cl = cl /\ k.cur = h.cur
      /\ k.code = h.code /\ k.at = h.at
  BY DEF GenOK, clearCachedCleanups
<1>2. Edited(h.ctx, x, CtxCaches)
  <2>1. "unwind" \in CtxCaches
    BY DEF CtxCaches
  <2> QED
    BY <2>1, EditIs, Seqs, Zenon
<1>3. Edited(h.fr, fr, {"lp"})
  <2>1. DOMAIN fr = DOMAIN h.fr /\ fr = [i \in DOMAIN fr |-> fr[i]]
    OBVIOUS
  <2>2. \A i \in DOMAIN h.fr : /\ DOMAIN fr[i] = DOMAIN h.fr[i]
                               /\ \A n \in DOMAIN h.fr[i] \ {"lp"} : fr[i][n] = h.fr[i][n]
    OBVIOUS
  <2> HIDE DEF fr
  <2>3. IsSeq(fr)
    BY <2>1, Seqs, SameDomain
  <2> QED
    BY <2>1, <2>2, <2>3 DEF Edited
<1>4. Edited(h.cl, cl, ClCaches)
  <2>1. DOMAIN cl = DOMAIN h.cl /\ cl = [i \in DOMAIN cl |-> cl[i]]
    OBVIOUS
  <2>2. \A i \in DOMAIN h.cl : /\ DOMAIN cl[i] = DOMAIN h.cl[i]
                               /\ \A n \in DOMAIN h.cl[i] \ ClCaches : cl[i][n] = h.cl[i][n]
    BY DEF ClCaches
  <2> HIDE DEF cl
  <2>3. IsSeq(cl)
    BY <2>1, Seqs, SameDomain
  <2> QED
    BY <2>1, <2>2, <2>3 DEF Edited
<1> HIDE DEF k, x, fr, cl
<1>5. Emits(h, k)
  BY <1>1, <1>2, <1>3, <1>4, StateStep
<1> QED
  BY <1>5 DEF k

LEMMA CleanupFuncIs ==
  ASSUME NEW h, GenOK(h), Opens(h) = {}
  PROVE  GenOK(CleanupFunc(h)) /\ Opens(CleanupFunc(h)) = {}
<1> DEFINE n == NextBlock(h)
           a == AddBlock(h, <<>>)
           b == SetInsertPoint(a, n)
           c == closeAllCleanups(b, Toplevel)
           e == Ret({})
           d == Emit(c, e)
           k == [d EXCEPT !.del = n]
<1>1. CleanupFunc(h) = k
  BY DEF CleanupFunc
<1>2. e.op \in Terminators
  BY DEF Ret, Terminators
<1>3. n \in DOMAIN a.code /\ Becomes(h, a, h.at, {n})
  <2>1. n \in DOMAIN a.code /\ Becomes(h, a, h.at, Opens(h) \cup {n})
    BY OpenEmpty, AddBlockIs
  <2>2. Opens(h) \cup {n} = {n}
    OBVIOUS
  <2> QED
    BY <2>1, <2>2
<1> HIDE DEF n, a, e
<1>4. Becomes(h, b, n, {n})
  BY <1>3, ThenAt
<1> HIDE DEF b
<1>5. Ready(b) /\ Toplevel \in DOMAIN b.ctx
  BY <1>4, BecomesFacts DEF Ready, GenOK, ContextsOK
<1>6. Emits(b, c)
  BY <1>5, closeAllCleanupsIs
<1> HIDE DEF c
<1>7. Becomes(h, c, n, {n})
  BY <1>4, <1>6, ThenEmits
<1>8. Becomes(h, d, n, {n} \ {n})
  <2>1. n \in {n}
    OBVIOUS
  <2> QED
    BY <1>2, <1>7, <2>1, ThenBr
<1> HIDE DEF d
<1>9. GenOK(d) /\ Opens(d) = {}
  BY <1>8, BecomesFacts
<1>10. /\ DOMAIN k = DOMAIN d /\ k.ctx = d.ctx /\ k.fr = d.fr /\ k.cl = d.cl /\ k.cur = d.cur
       /\ k.code = d.code /\ k.at = d.at
  BY <1>9 DEF GenOK
<1> HIDE DEF k
<1>11. CodeOK(k) /\ Opens(k) = Opens(d)
  BY <1>9, <1>10 DEF GenOK, CodeOK, Opens
<1>12. GenOK(k)
  <2>1. Becomes(d, k, k.at, Opens(k))
    BY <1>9, <1>10, <1>11, CodeStep
  <2> QED
    BY <2>1 DEF Becomes, Moves
<1> QED
  BY <1>1, <1>9, <1>11, <1>12

LEMMA OpenIs ==
  ASSUME NEW h, GenOK(h), NEW b \in DOMAIN h.code
  PROVE  b \notin Opens(h) <=> h.code[b] # <<>> /\ Last(h.code[b]).op \in Terminators
<1> DEFINE s == h.code[b]
<1>1. Open(s) \/ Closed(s)
  BY DEF GenOK, CodeOK
<1>2. b \in Opens(h) <=> Open(s)
  BY DEF Opens
<1> HIDE DEF s
<1>3. Closed(s) => s # <<>> /\ Last(s).op \in Terminators
  BY DEF Closed, Last
<1>4. Open(s) /\ s # <<>> => Last(s).op \notin Terminators
  <2> SUFFICES ASSUME Open(s), s # <<>> PROVE Last(s).op \notin Terminators
    OBVIOUS
  <2>1. Len(s) \in DOMAIN s
    BY SeqFacts DEF Open
  <2> QED
    BY <2>1 DEF Open, Last
<1>5. Closed(s) => ~Open(s)
  BY NotBoth
<1> QED
  BY <1>1, <1>2, <1>3, <1>4, <1>5 DEF s

LEMMA finishModuleIs ==
  ASSUME NEW h, GenOK(h), Opens(h) \subseteq {h.at}
  PROVE  GenOK(finishModule(h)) /\ Opens(finishModule(h)) = {}
<1> DEFINE ended == h.code[h.at] # <<>> /\ Last(h.code[h.at]).op \in Terminators
           e == Ret(Scope(h, Toplevel))
           a == IF ended THEN h ELSE Emit(h, e)
           b == clearCachedCleanups(a)
<1>1. finishModule(h) = CleanupFunc(b)
  BY DEF finishModule
<1>2. e.op \in Terminators
  BY DEF Ret, Terminators
<1>3. h.at \notin Opens(h) <=> ended
  BY OpenIs DEF GenOK, CodeOK
<1> HIDE DEF ended, e
<1>4. GenOK(a) /\ Opens(a) = {}
  <2>1. CASE ended
    BY <1>3, <2>1
  <2>2. CASE ~ended
    <3>1. a = Emit(h, e)
      BY <2>2
    <3> HIDE DEF a
    <3>2. Becomes(h, a, h.at, Opens(h) \ {h.at})
      BY <1>2, <1>3, <2>2, <3>1, EmitCloses
    <3> QED
      BY <3>2, BecomesFacts
  <2> QED
    BY <2>1, <2>2
<1> HIDE DEF a
<1>5. GenOK(b) /\ Opens(b) = {}
  BY <1>4, clearCachedCleanupsIs, EmitsFacts
<1> QED
  BY <1>1, <1>5, CleanupFuncIs
-----------------------------------------------------------------------------
(* The inductive invariant.                                                *)

\* The context of a block: no loop, no try statement.
Plain(h, c) ==
  /\ c \in DOMAIN h.ctx \ {Outside}
  /\ h.ctx[c].loop = NoLoop
  /\ h.ctx[c].body = 0

\* What a terminal statement leaves to: the function, a loop or a try statement.
Target(h, t) ==
  \/ t = Outside
  \/ /\ t \in DOMAIN h.ctx
     /\ h.ctx[t].loop # NoLoop \/ h.ctx[t].body # 0

MaybeTarget(h, t) == t = 0 \/ Target(h, t)

\* The fields that a construct of each kind has.
Shape(s) ==
  /\ {"k", "ctx", "braces", "term"} \subseteq DOMAIN s
  /\ s.k \in {"func", "then", "else", "while", "for", "try", "catch"}
  /\ s.k \in {"then", "else"} => "block" \in DOMAIN s
  /\ s.k = "else" => "first" \in DOMAIN s
  /\ s.k = "for" => "iter" \in DOMAIN s
  /\ s.k \in {"try", "catch"} => "switch" \in DOMAIN s
  /\ s.k = "catch" => {"after", "all"} \subseteq DOMAIN s

\* The blocks that an open construct will go on with.
Waiting(h, s) ==
  CASE s.k = "then"  -> {s.block}
    [] s.k = "else"  -> {s.block} \ {0}
    [] s.k = "while" -> {h.ctx[s.ctx].loop.end}
    [] s.k = "for"   -> {h.ctx[s.ctx].loop.end} \cup
                        (IF s.iter THEN {h.ctx[s.ctx].loop.again} ELSE {})
    [] s.k = "try"   -> {s.switch}
    [] s.k = "catch" -> {IF s.after = 0 THEN s.switch ELSE s.after}
    [] OTHER -> {}

\* What the kind of a construct says of its context and of its fields.
ConstructOK(h, s) ==
  /\ Shape(s)
  /\ s.ctx \in DOMAIN h.ctx
  /\ s.k \in {"while", "for"} => h.ctx[s.ctx].loop # NoLoop
  /\ s.k = "for" => /\ s.iter \in BOOLEAN
                    /\ s.iter => h.ctx[s.ctx].loop.end # h.ctx[s.ctx].loop.again
  /\ s.k = "then" => s.block # 0
  /\ s.k = "else" => /\ MaybeTarget(h, s.first)
                     /\ s.first = 0 <=> s.block # 0
  /\ s.k = "try" => /\ s.switch # 0
                    /\ h.ctx[s.ctx].clauses = 0
                    /\ ~h.ctx[s.ctx].nonTerminal
  /\ s.k = "catch" => /\ MaybeTarget(h, s.all)
                      /\ s.switch # 0
                      /\ h.ctx[s.ctx].clauses \in Nat
                      /\ h.ctx[s.ctx].clauses > 0 <=> s.after # 0

\* The context of a construct is in the one of the block around it, which goes on
\* when the construct ends.
NestedOK(h, s, outer) ==
  LET block == h.ctx[s.ctx].parent
  IN  /\ s.ctx # Outside
      /\ Plain(h, block)
      /\ ~h.ctx[block].terminal
      /\ h.ctx[block].parent = outer.ctx
      /\ outer.term = 0

\* The try statement s has a clause that control can leave.
Through(h, s) == s.all = 0 <=> h.ctx[s.ctx].nonTerminal

\* The constructs below n.  They wait for different blocks.
BelowOK(h, stack, n) ==
  /\ \A i \in 1 .. (n - 1) :
       /\ ConstructOK(h, stack[i])
       /\ stack[i].k = "func" <=> i = 1
       /\ stack[i].k = "catch" => Through(h, stack[i])
  /\ \A i \in 2 .. (n - 1) : NestedOK(h, stack[i], stack[i - 1])
  /\ \A i, j \in 1 .. (n - 1) :
       i # j => /\ stack[i].ctx # stack[j].ctx
                /\ Waiting(h, stack[i]) \cap Waiting(h, stack[j]) = {}

Below(h, stack, n) == UNION {Waiting(h, stack[i]) : i \in 1 .. (n - 1)}

\* The innermost construct.
TopOK(h, stack, n) ==
  /\ ConstructOK(h, stack[n])
  /\ stack[n].k = "func" <=> n = 1
  /\ n > 1 => NestedOK(h, stack[n], stack[n - 1])
  /\ \A i \in 1 .. (n - 1) : stack[i].ctx # stack[n].ctx

\* Nothing is open but what the constructs wait for and the insert point.
OpenOK(h, stack, n, live) ==
  /\ Waiting(h, stack[n]) \cap Below(h, stack, n) = {}
  /\ h.at \notin Waiting(h, stack[n]) \cup Below(h, stack, n)
  /\ h.at \in Opens(h) <=> live
  /\ Opens(h) \ {h.at} = Waiting(h, stack[n]) \cup Below(h, stack, n)

\* Which context is current, and whether all that was parsed of a try statement
\* is terminal.
PhaseOK(h, s, ph, res) ==
  /\ ph \in {"stmt", "end"} => Plain(h, h.cur) /\ h.ctx[h.cur].parent = s.ctx
  /\ ph \in {"stmt", "end"} /\ s.k = "catch" => Through(h, s)
  /\ ph = "stmt" => /\ res = 0
                    /\ h.ctx[h.cur].terminal <=> s.term # 0
                    /\ s.term # 0 => s.braces
  /\ ph = "else" => h.cur = s.ctx /\ s.k = "then"
  /\ ph = "catch" => /\ h.cur = s.ctx /\ s.k = "catch"
                     /\ s.all = 0 <=> h.ctx[s.ctx].nonTerminal \/ res = 0

Live(h, ph, res) == IF ph = "stmt" THEN ~h.ctx[h.cur].terminal ELSE res = 0

Parsing(h, stack, ph, res) ==
  LET n == Len(stack)
  IN  /\ Framed(h)
      /\ IsSeq(stack) /\ stack # <<>>
      /\ BelowOK(h, stack, n)
      /\ TopOK(h, stack, n)
      /\ OpenOK(h, stack, n, Live(h, ph, res))
      /\ PhaseOK(h, stack[n], ph, res)
      /\ MaybeTarget(h, stack[n].term)
      /\ MaybeTarget(h, res)

StmtInv ==
  /\ GenOK(g)
  /\ phase \in {"stmt", "end", "else", "catch", "run", "error"}
  /\ phase \notin {"run", "error"} => Parsing(g, stk, phase, result)
  /\ phase = "run" => Opens(g) = {}

\* What is compiled.
TopInv == top \in {"void", "value", "module"}

-----------------------------------------------------------------------------
(* What is known of the constructs is kept.                                *)

\* The contexts of h are in k, with the same loops and try statements.
SameTree(h, k) ==
  /\ DOMAIN h.ctx \subseteq DOMAIN k.ctx
  /\ \A c \in DOMAIN h.ctx : /\ k.ctx[c].parent = h.ctx[c].parent
                             /\ k.ctx[c].loop = h.ctx[c].loop
                             /\ k.ctx[c].body = h.ctx[c].body

SameClauses(h, k, c) ==
  k.ctx[c].clauses = h.ctx[c].clauses /\ k.ctx[c].nonTerminal = h.ctx[c].nonTerminal

SameTerminal(h, k, c) == k.ctx[c].terminal = h.ctx[c].terminal

LEMMA GoesTree ==
  ASSUME NEW h, NEW k, NEW d, NEW F, Goes(h, k, d, F),
         F \subseteq {"terminal", "clauses", "nonTerminal"}
  PROVE  /\ SameTree(h, k)
         /\ \A c \in DOMAIN h.ctx :
              c # d \/ F \cap {"clauses", "nonTerminal"} = {} => SameClauses(h, k, c)
         /\ \A c \in DOMAIN h.ctx : c # d \/ "terminal" \notin F => SameTerminal(h, k, c)
<1>1. {"parent", "loop", "body", "terminal", "clauses", "nonTerminal"} \subseteq Marks
  BY DEF Marks
<1>2. SameTree(h, k)
  BY <1>1 DEF Goes, SameTree
<1>3. \A c \in DOMAIN h.ctx :
        c # d \/ F \cap {"clauses", "nonTerminal"} = {} => SameClauses(h, k, c)
  BY <1>1 DEF Goes, SameClauses
<1>4. \A c \in DOMAIN h.ctx : c # d \/ "terminal" \notin F => SameTerminal(h, k, c)
  BY <1>1 DEF Goes, SameTerminal
<1> QED
  BY <1>2, <1>3, <1>4

\* A change to contexts that there were not at the start.
LEMMA GoesNew ==
  ASSUME NEW h, NEW k, NEW l, NEW d, NEW F, NEW c, NEW G,
         Goes(h, k, d, F), Goes(k, l, c, G), c \notin DOMAIN h.ctx
  PROVE  Goes(h, l, d, F)
<1>1. /\ GenOK(l) /\ DOMAIN h.ctx \subseteq DOMAIN l.ctx
      /\ DOMAIN h.code \subseteq DOMAIN l.code
  BY DEF Goes
<1>2. \A e \in DOMAIN h.ctx : h.ctx[e].frames # <<>> => l.ctx[e].frames # <<>>
  BY DEF Goes
<1>3. \A e \in DOMAIN l.ctx \ DOMAIN h.ctx : l.ctx[e].frames # <<>>
  BY DEF Goes
<1>4. \A e \in DOMAIN h.ctx : \A n \in Marks : e # d \/ n \notin F => l.ctx[e][n] = h.ctx[e][n]
  BY DEF Goes
<1> QED
  BY <1>1, <1>2, <1>3, <1>4 DEF Goes

LEMMA TargetKept ==
  ASSUME NEW h, NEW k, SameTree(h, k), NEW t, MaybeTarget(h, t)
  PROVE  MaybeTarget(k, t)
  BY DEF SameTree, MaybeTarget, Target

LEMMA PlainKept ==
  ASSUME NEW h, NEW k, SameTree(h, k), NEW c, Plain(h, c)
  PROVE  Plain(k, c)
  BY DEF SameTree, Plain

LEMMA ConstructKept ==
  ASSUME NEW h, NEW k, NEW s, SameTree(h, k), ConstructOK(h, s), SameClauses(h, k, s.ctx)
  PROVE  /\ ConstructOK(k, s)
         /\ Waiting(k, s) = Waiting(h, s)
         /\ Through(k, s) <=> Through(h, s)
<1>1. s.ctx \in DOMAIN h.ctx /\ s.ctx \in DOMAIN k.ctx /\ k.ctx[s.ctx].loop = h.ctx[s.ctx].loop
  BY DEF ConstructOK, SameTree
<1>2. ConstructOK(k, s)
  BY <1>1, TargetKept DEF ConstructOK, SameClauses
<1>3. Waiting(k, s) = Waiting(h, s)
  BY <1>1 DEF Waiting
<1>4. Through(k, s) <=> Through(h, s)
  BY DEF Through, SameClauses
<1> QED
  BY <1>2, <1>3, <1>4

LEMMA NestedKept ==
  ASSUME NEW h, NEW k, NEW s, NEW outer, SameTree(h, k), s.ctx \in DOMAIN h.ctx,
         NestedOK(h, s, outer), SameTerminal(h, k, h.ctx[s.ctx].parent)
  PROVE  NestedOK(k, s, outer)
<1> DEFINE b == h.ctx[s.ctx].parent
<1>1. k.ctx[s.ctx].parent = b
  BY DEF SameTree
<1>2. Plain(h, b) /\ ~h.ctx[b].terminal /\ h.ctx[b].parent = outer.ctx /\ s.ctx # Outside /\ outer.term = 0
  BY DEF NestedOK
<1> HIDE DEF b
<1>3. Plain(k, b)
  BY <1>2, PlainKept
<1>4. k.ctx[b].parent = outer.ctx /\ ~k.ctx[b].terminal
  BY <1>2 DEF SameTree, Plain, SameTerminal, b
<1> QED
  BY <1>1, <1>2, <1>3, <1>4 DEF NestedOK

\* The constructs up to n are the same in s and t, and so is what the parser
\* knows of their contexts.
Keeps(h, k, s, t, n) ==
  /\ SameTree(h, k)
  /\ \A i \in 1 .. n : t[i] = s[i] /\ SameClauses(h, k, s[i].ctx)
  /\ \A i \in 2 .. n : SameTerminal(h, k, h.ctx[s[i].ctx].parent)

LEMMA BelowKept ==
  ASSUME NEW h, NEW k, NEW s, NEW t, NEW n \in Nat, Keeps(h, k, s, t, n - 1),
         BelowOK(h, s, n)
  PROVE  BelowOK(k, t, n) /\ Below(k, t, n) = Below(h, s, n)
<1>0. /\ SameTree(h, k)
      /\ \A i \in 1 .. (n - 1) : t[i] = s[i] /\ SameClauses(h, k, s[i].ctx)
      /\ \A i \in 2 .. (n - 1) : SameTerminal(h, k, h.ctx[s[i].ctx].parent)
  BY DEF Keeps
<1>1. \A i \in 1 .. (n - 1) : /\ ConstructOK(k, t[i])
                              /\ Waiting(k, t[i]) = Waiting(h, s[i])
                              /\ t[i].k = "func" <=> i = 1
                              /\ t[i].k = "catch" => Through(k, t[i])
  BY <1>0, ConstructKept DEF BelowOK
<1>2. \A i \in 2 .. (n - 1) : NestedOK(k, t[i], t[i - 1])
  <2> TAKE i \in 2 .. (n - 1)
  <2>1. i \in 1 .. (n - 1) /\ i - 1 \in 1 .. (n - 1)
    OBVIOUS
  <2>2. NestedOK(h, s[i], s[i - 1]) /\ s[i].ctx \in DOMAIN h.ctx
    BY <2>1 DEF BelowOK, ConstructOK
  <2>3. NestedOK(k, s[i], s[i - 1])
    BY <1>0, <2>2, NestedKept
  <2> QED
    BY <1>0, <2>1, <2>3
<1>3. \A i, j \in 1 .. (n - 1) :
        i # j => t[i].ctx # t[j].ctx /\ Waiting(k, t[i]) \cap Waiting(k, t[j]) = {}
  BY <1>0, <1>1 DEF BelowOK
<1>4. BelowOK(k, t, n)
  BY <1>1, <1>2, <1>3 DEF BelowOK
<1>5. Below(k, t, n) = Below(h, s, n)
  BY <1>0, <1>1 DEF Below
<1> QED
  BY <1>4, <1>5

\* One construct more is around the innermost one.
LEMMA BelowPush ==
  ASSUME NEW h, NEW s, NEW n \in Nat \ {0}, BelowOK(h, s, n), TopOK(h, s, n),
         s[n].k = "catch" => Through(h, s[n]),
         Waiting(h, s[n]) \cap Below(h, s, n) = {}
  PROVE  /\ BelowOK(h, s, n + 1)
         /\ Below(h, s, n + 1) = Waiting(h, s[n]) \cup Below(h, s, n)
<1>1. 1 .. ((n + 1) - 1) = (1 .. (n - 1)) \cup {n} /\ n \notin 1 .. (n - 1)
  OBVIOUS
<1>2. 2 .. ((n + 1) - 1) = (2 .. (n - 1)) \cup ({n} \ {1})
  OBVIOUS
<1>3. n # 1 => n > 1
  OBVIOUS
<1>4. \A i \in 1 .. (n - 1) : Waiting(h, s[i]) \cap Waiting(h, s[n]) = {}
  BY DEF Below
<1>5. \A i \in 1 .. ((n + 1) - 1) :
        /\ ConstructOK(h, s[i])
        /\ s[i].k = "func" <=> i = 1
        /\ s[i].k = "catch" => Through(h, s[i])
  BY <1>1 DEF BelowOK, TopOK
<1>6. \A i \in 2 .. ((n + 1) - 1) : NestedOK(h, s[i], s[i - 1])
  BY <1>2, <1>3 DEF BelowOK, TopOK
<1>7. \A i, j \in 1 .. ((n + 1) - 1) :
        i # j => s[i].ctx # s[j].ctx /\ Waiting(h, s[i]) \cap Waiting(h, s[j]) = {}
  BY <1>1, <1>4 DEF BelowOK, TopOK
<1>8. BelowOK(h, s, n + 1)
  BY <1>5, <1>6, <1>7 DEF BelowOK
<1>9. Below(h, s, n + 1) = Waiting(h, s[n]) \cup Below(h, s, n)
  BY <1>1 DEF Below
<1> QED
  BY <1>8, <1>9

\* The innermost one ends.
LEMMA BelowPop ==
  ASSUME NEW h, NEW s, NEW n \in Nat, n > 1, BelowOK(h, s, n)
  PROVE  /\ BelowOK(h, s, n - 1)
         /\ TopOK(h, s, n - 1)
         /\ s[n - 1].k = "catch" => Through(h, s[n - 1])
         /\ Waiting(h, s[n - 1]) \cap Below(h, s, n - 1) = {}
         /\ Below(h, s, n) = Waiting(h, s[n - 1]) \cup Below(h, s, n - 1)
<1> DEFINE p == n - 1
<1>1. p \in Nat \ {0} /\ n - 1 = p
  OBVIOUS
<1> HIDE DEF p
<1>2. 1 .. p = (1 .. (p - 1)) \cup {p} /\ p \notin 1 .. (p - 1) /\ 2 .. (p - 1) \subseteq 2 .. p
  BY <1>1
<1>3. p > 1 => p \in 2 .. p
  BY <1>1
<1>4. BelowOK(h, s, p)
  BY <1>1, <1>2 DEF BelowOK
<1>5. TopOK(h, s, p)
  BY <1>1, <1>2, <1>3 DEF BelowOK, TopOK
<1>6. s[p].k = "catch" => Through(h, s[p])
  BY <1>1, <1>2 DEF BelowOK
<1>7. Waiting(h, s[p]) \cap Below(h, s, p) = {}
  BY <1>1, <1>2 DEF BelowOK, Below
<1>8. Below(h, s, n) = Waiting(h, s[p]) \cup Below(h, s, p)
  BY <1>1, <1>2 DEF Below
<1> QED
  BY <1>1, <1>4, <1>5, <1>6, <1>7, <1>8
-----------------------------------------------------------------------------
(* The end of a statement.                                                 *)

\* The parser is back in the block of the innermost construct of stack, after a
\* statement that leaves to terminal.
Resumes(h, stack, terminal) ==
  LET n == Len(stack)
  IN  /\ GenOK(h)
      /\ Framed(h)
      /\ IsSeq(stack) /\ stack # <<>>
      /\ BelowOK(h, stack, n)
      /\ TopOK(h, stack, n)
      /\ OpenOK(h, stack, n, terminal = 0)
      /\ Plain(h, h.cur)
      /\ h.ctx[h.cur].parent = stack[n].ctx
      /\ ~h.ctx[h.cur].terminal
      /\ stack[n].k = "catch" => Through(h, stack[n])
      /\ stack[n].term = 0
      /\ MaybeTarget(h, terminal)

\* Constructs that differ in their terminal context only.
SameBut(s, r) ==
  /\ Shape(s) /\ Shape(r)
  /\ r.k = s.k /\ r.ctx = s.ctx /\ r.braces = s.braces
  /\ s.k \in {"then", "else"} => r.block = s.block
  /\ s.k = "else" => r.first = s.first
  /\ s.k = "for" => r.iter = s.iter
  /\ s.k \in {"try", "catch"} => r.switch = s.switch
  /\ s.k = "catch" => r.after = s.after /\ r.all = s.all

LEMMA SameButIs ==
  ASSUME NEW s, NEW r, SameBut(s, r), NEW h
  PROVE  /\ r.ctx = s.ctx /\ r.k = s.k /\ r.braces = s.braces
         /\ Waiting(h, r) = Waiting(h, s)
         /\ ConstructOK(h, s) => ConstructOK(h, r)
         /\ r.k = "catch" => (Through(h, r) <=> Through(h, s))
         /\ \A outer : NestedOK(h, s, outer) => NestedOK(h, r, outer)
<1>1. r.ctx = s.ctx /\ r.k = s.k /\ r.braces = s.braces
  BY DEF SameBut
<1>2. Waiting(h, r) = Waiting(h, s)
  BY DEF SameBut, Waiting
<1>3. ConstructOK(h, s) => ConstructOK(h, r)
  BY DEF SameBut, ConstructOK
<1>4. r.k = "catch" => (Through(h, r) <=> Through(h, s))
  BY DEF SameBut, Through
<1>5. \A outer : NestedOK(h, s, outer) => NestedOK(h, r, outer)
  BY <1>1 DEF NestedOK
<1> QED
  BY <1>1, <1>2, <1>3, <1>4, <1>5

LEMMA TermIs ==
  ASSUME NEW s, Shape(s), NEW x
  PROVE  SameBut(s, [s EXCEPT !.term = x]) /\ [s EXCEPT !.term = x].term = x
<1> DEFINE r == [s EXCEPT !.term = x]
<1>1. r.term = x /\ DOMAIN r = DOMAIN s /\ \A f \in DOMAIN s : f # "term" => r[f] = s[f]
  BY DEF Shape
<1> HIDE DEF r
<1>2. /\ r.k = s.k /\ r.ctx = s.ctx /\ r.braces = s.braces /\ Shape(r)
      /\ s.k \in {"then", "else"} => r.block = s.block
      /\ s.k = "else" => r.first = s.first
      /\ s.k = "for" => r.iter = s.iter
      /\ s.k \in {"try", "catch"} => r.switch = s.switch
      /\ s.k = "catch" => r.after = s.after /\ r.all = s.all
  BY <1>1 DEF Shape
<1>3. SameBut(s, r)
  BY <1>2 DEF SameBut
<1> QED
  BY <1>1, <1>3 DEF r

LEMMA TopKept ==
  ASSUME NEW h, NEW k, NEW s, NEW t, NEW n \in Nat \ {0}, Keeps(h, k, s, t, n),
         TopOK(h, s, n)
  PROVE  /\ TopOK(k, t, n) /\ Waiting(k, t[n]) = Waiting(h, s[n])
         /\ Through(k, t[n]) <=> Through(h, s[n])
         /\ Keeps(h, k, s, t, n - 1)
<1>0. /\ SameTree(h, k)
      /\ \A i \in 1 .. n : t[i] = s[i] /\ SameClauses(h, k, s[i].ctx)
      /\ \A i \in 2 .. n : SameTerminal(h, k, h.ctx[s[i].ctx].parent)
  BY DEF Keeps
<1>1. n \in 1 .. n /\ (n > 1 => n - 1 \in 1 .. n) /\ 1 .. (n - 1) \subseteq 1 .. n
  OBVIOUS
<1>2. s[n].ctx \in DOMAIN h.ctx
  BY DEF TopOK, ConstructOK
<1>3. /\ ConstructOK(k, s[n]) /\ Waiting(k, s[n]) = Waiting(h, s[n])
      /\ Through(k, s[n]) <=> Through(h, s[n])
  BY <1>0, <1>1, ConstructKept DEF TopOK
<1>4. n > 1 => n \in 2 .. n
  OBVIOUS
<1>5. n > 1 => NestedOK(k, s[n], s[n - 1])
  BY <1>0, <1>2, <1>4, NestedKept DEF TopOK
<1>6. TopOK(k, t, n)
  BY <1>0, <1>1, <1>3, <1>5 DEF TopOK
<1>7. 2 .. (n - 1) \subseteq 2 .. n
  OBVIOUS
<1> QED
  BY <1>0, <1>1, <1>3, <1>6, <1>7 DEF Keeps

\* The block has a terminal statement.
Braced(stack) == Last(stack).braces

LEMMA LeavesIs ==
  ASSUME NEW h, NEW stack, NEW terminal, Resumes(h, stack, terminal), terminal # 0,
         Braced(stack)
  PROVE  LET n == Len(stack)
             k == [h EXCEPT !.ctx[h.cur].terminal = TRUE]
             t == [stack EXCEPT ![n].term = terminal]
         IN  GenOK(k) /\ Parsing(k, t, "stmt", 0)
<1> DEFINE n == Len(stack)
           c == h.cur
           s == stack[n]
           k == WithCtx(h, c, "terminal", TRUE)
           r == [s EXCEPT !.term = terminal]
           t == [stack EXCEPT ![n] = r]
<1>1. /\ GenOK(h) /\ Framed(h) /\ IsSeq(stack) /\ stack # <<>>
      /\ BelowOK(h, stack, n) /\ TopOK(h, stack, n) /\ OpenOK(h, stack, n, FALSE)
      /\ Plain(h, c) /\ h.ctx[c].parent = s.ctx
      /\ s.k = "catch" => Through(h, s)
      /\ MaybeTarget(h, terminal)
  BY DEF Resumes
<1>2. n \in Nat \ {0} /\ n \in DOMAIN stack /\ DOMAIN stack = 1 .. n
  BY <1>1, SeqFacts
<1>3. c \in DOMAIN h.ctx /\ c # Outside /\ Shape(s) /\ s.ctx \in DOMAIN h.ctx
  BY <1>1 DEF Plain, TopOK, ConstructOK
<1>4. CtxSet(h, k, c, "terminal", TRUE)
  <2>1. MaySet(h, c, "terminal", TRUE)
    BY DEF MaySet, CtxFields, Decides
  <2> QED
    BY <1>1, <1>3, <2>1, CtxSetIs
<1>5. k = [h EXCEPT !.ctx[h.cur].terminal = TRUE] /\ t = [stack EXCEPT ![Len(stack)].term = terminal]
  BY DEF WithCtx
<1> HIDE DEF k, r
<1>6. /\ IsSeq(t) /\ Len(t) = n /\ DOMAIN t = DOMAIN stack /\ t[n] = r
      /\ \A j \in DOMAIN stack : j # n => t[j] = stack[j]
  <2>1. t = [stack EXCEPT ![n] = r] /\ Len(stack) = n
    OBVIOUS
  <2> HIDE DEF n, t
  <2> QED
    BY <1>1, <1>2, <2>1, ExceptIs, Zenon
<1> HIDE DEF t, n
<1>7. Goes(h, k, c, {"terminal"})
  BY <1>4, CtxSetGoes
<1>8. /\ SameTree(h, k) /\ \A e \in DOMAIN h.ctx : SameClauses(h, k, e)
      /\ \A e \in DOMAIN h.ctx : e # c => SameTerminal(h, k, e)
  BY <1>7, GoesTree
<1>9. \A i \in 2 .. n : SameTerminal(h, k, h.ctx[stack[i].ctx].parent)
  <2> TAKE i \in 2 .. n
  <2>1. i - 1 \in 1 .. (n - 1) /\ (i \in 2 .. (n - 1) \/ (i = n /\ n > 1))
    BY <1>2
  <2>2. NestedOK(h, stack[i], stack[i - 1])
    BY <1>1, <2>1 DEF BelowOK, TopOK
  <2>3. stack[i - 1].ctx # s.ctx
    BY <1>1, <2>1 DEF TopOK
  <2> QED
    BY <1>1, <1>8, <2>2, <2>3 DEF NestedOK, Plain
<1>10. \A i \in 1 .. (n - 1) : t[i] = stack[i] /\ stack[i].ctx \in DOMAIN h.ctx
  <2>1. \A i \in 1 .. (n - 1) : i \in 1 .. n /\ i # n
    BY <1>2
  <2>2. \A i \in 1 .. (n - 1) : stack[i].ctx \in DOMAIN h.ctx
    BY <1>1 DEF BelowOK, ConstructOK
  <2> QED
    BY <1>2, <1>6, <2>1, <2>2
<1>11. Keeps(h, k, stack, stack, n)
  <2>1. 1 .. n = (1 .. (n - 1)) \cup {n}
    BY <1>2
  <2> QED
    BY <1>3, <1>8, <1>9, <1>10, <2>1 DEF Keeps
<1>12. /\ TopOK(k, stack, n) /\ Waiting(k, s) = Waiting(h, s)
       /\ Through(k, s) <=> Through(h, s)
       /\ BelowOK(k, t, n) /\ Below(k, t, n) = Below(h, stack, n)
  <2>1. /\ TopOK(k, stack, n) /\ Waiting(k, s) = Waiting(h, s)
        /\ Through(k, s) <=> Through(h, s)
        /\ Keeps(h, k, stack, stack, n - 1)
    BY <1>1, <1>2, <1>11, TopKept
  <2>2. Keeps(h, k, stack, t, n - 1)
    BY <1>10, <2>1 DEF Keeps
  <2>3. BelowOK(k, t, n) /\ Below(k, t, n) = Below(h, stack, n)
    BY <1>1, <1>2, <2>2, BelowKept
  <2> QED
    BY <2>1, <2>3
<1>13. /\ r.term = terminal /\ r.ctx = s.ctx /\ r.k = s.k /\ r.braces = s.braces
       /\ Waiting(k, r) = Waiting(k, s)
       /\ ConstructOK(k, s) => ConstructOK(k, r)
       /\ r.k = "catch" => (Through(k, r) <=> Through(k, s))
       /\ \A outer : NestedOK(k, s, outer) => NestedOK(k, r, outer)
  <2>1. SameBut(s, r) /\ r.term = terminal
    BY <1>3, TermIs, Zenon DEF r
  <2> QED
    BY <2>1, SameButIs
<1>14. TopOK(k, t, n)
  <2>1. n > 1 => n - 1 \in 1 .. (n - 1)
    BY <1>2
  <2> QED
    BY <1>6, <1>10, <1>12, <1>13, <2>1 DEF TopOK
<1>15. OpenOK(k, t, n, FALSE)
  <2>1. k.at = h.at /\ Opens(k) = Opens(h)
    BY <1>4 DEF CtxSet
  <2>2. Waiting(k, t[n]) = Waiting(h, s)
    BY <1>6, <1>12, <1>13
  <2> QED
    BY <1>1, <1>12, <2>1, <2>2 DEF OpenOK
<1>16. k.ctx[c].terminal /\ k.cur = c /\ GenOK(k)
  BY <1>4 DEF CtxSet
<1>17. PhaseOK(k, t[n], "stmt", 0)
  <2>1. Plain(k, c) /\ k.ctx[c].parent = s.ctx
    BY <1>1, <1>3, <1>8, PlainKept DEF SameTree
  <2>2. s.k = "catch" => Through(k, s)
    BY <1>1, <1>12
  <2>3. s.braces
    BY DEF n, Braced, Last
  <2> QED
    BY <1>6, <1>13, <1>16, <2>1, <2>2, <2>3 DEF PhaseOK
<1>18. MaybeTarget(k, terminal) /\ MaybeTarget(k, 0) /\ Framed(k)
  BY <1>1, <1>7, <1>8, TargetKept, GoesFramed DEF MaybeTarget
<1>19. t # <<>>
  BY <1>2, <1>6, SeqFacts
<1>20. Live(k, "stmt", 0) = FALSE
  BY <1>16 DEF Live
<1>21. Parsing(k, t, "stmt", 0)
  BY <1>6, <1>12, <1>13, <1>14, <1>15, <1>17, <1>18, <1>19, <1>20 DEF Parsing
<1> QED
  BY <1>5, <1>16, <1>21

\* The block goes on.
LEMMA GoesOnIs ==
  ASSUME NEW h, NEW stack, Resumes(h, stack, 0)
  PROVE  LET t == [stack EXCEPT ![Len(stack)].term = 0]
         IN  Parsing(h, t, "stmt", 0)
<1> DEFINE n == Len(stack)
           s == stack[n]
           r == [s EXCEPT !.term = 0]
           t == [stack EXCEPT ![n] = r]
<1>1. /\ GenOK(h) /\ Framed(h) /\ IsSeq(stack) /\ stack # <<>>
      /\ BelowOK(h, stack, n) /\ TopOK(h, stack, n) /\ OpenOK(h, stack, n, TRUE)
      /\ Plain(h, h.cur) /\ h.ctx[h.cur].parent = s.ctx /\ ~h.ctx[h.cur].terminal
      /\ s.k = "catch" => Through(h, s)
  BY DEF Resumes
<1>2. n \in Nat \ {0} /\ n \in DOMAIN stack /\ DOMAIN stack = 1 .. n
  BY <1>1, SeqFacts
<1>3. Shape(s)
  BY <1>1 DEF TopOK, ConstructOK
<1>4. t = [stack EXCEPT ![Len(stack)].term = 0]
  OBVIOUS
<1>5. /\ r.term = 0 /\ r.ctx = s.ctx /\ r.k = s.k
      /\ Waiting(h, r) = Waiting(h, s)
      /\ ConstructOK(h, s) => ConstructOK(h, r)
      /\ r.k = "catch" => (Through(h, r) <=> Through(h, s))
      /\ \A outer : NestedOK(h, s, outer) => NestedOK(h, r, outer)
  <2>1. SameBut(s, r) /\ r.term = 0
    BY <1>3, TermIs, Zenon
  <2> HIDE DEF r
  <2> QED
    BY <2>1, SameButIs
<1> HIDE DEF r
<1>6. /\ IsSeq(t) /\ Len(t) = n /\ DOMAIN t = DOMAIN stack /\ t[n] = r
      /\ \A j \in DOMAIN stack : j # n => t[j] = stack[j]
  BY <1>1, <1>2, ExceptIs, Zenon
<1> HIDE DEF t, n
<1>7. \A i \in 1 .. (n - 1) : t[i] = stack[i]
  BY <1>2, <1>6
<1>8. BelowOK(h, t, n) /\ Below(h, t, n) = Below(h, stack, n)
  <2>1. Keeps(h, h, stack, t, n - 1)
    BY <1>7 DEF Keeps, SameTree, SameClauses, SameTerminal
  <2> QED
    BY <1>1, <1>2, <2>1, BelowKept
<1>9. TopOK(h, t, n)
  <2>1. n > 1 => n - 1 \in 1 .. (n - 1)
    BY <1>2
  <2> QED
    BY <1>1, <1>5, <1>6, <1>7, <2>1 DEF TopOK
<1>10. OpenOK(h, t, n, TRUE)
  BY <1>1, <1>5, <1>6, <1>8 DEF OpenOK
<1>11. PhaseOK(h, t[n], "stmt", 0)
  BY <1>1, <1>5, <1>6 DEF PhaseOK
<1>12. t # <<>>
  BY <1>2, <1>6, SeqFacts
<1>13. Live(h, "stmt", 0) = TRUE
  BY <1>1 DEF Live
<1>14. Parsing(h, t, "stmt", 0)
  BY <1>1, <1>5, <1>6, <1>8, <1>9, <1>10, <1>11, <1>12, <1>13 DEF Parsing, MaybeTarget
<1> QED
  BY <1>4, <1>14

\* A clause of one statement has ended.
LEMMA ClauseEndsIs ==
  ASSUME NEW h, NEW stack, NEW terminal, Resumes(h, stack, terminal)
  PROVE  Parsing(h, stack, "end", terminal)
<1> DEFINE n == Len(stack)
<1>1. PhaseOK(h, stack[n], "end", terminal)
  BY DEF Resumes, PhaseOK
<1>2. Live(h, "end", terminal) = (terminal = 0)
  BY DEF Live
<1>3. MaybeTarget(h, stack[n].term) /\ MaybeTarget(h, terminal)
  BY DEF Resumes, MaybeTarget
<1> QED
  BY <1>1, <1>2, <1>3 DEF Resumes, Parsing

LEMMA ReturnIs ==
  ASSUME NEW h, NEW stack, NEW terminal, Resumes(h, stack, terminal),
         Return(stack, h, terminal)
  PROVE  StmtInv'
<1> DEFINE leaves == terminal # 0 /\ terminal # h.cur
<1>1. leaves <=> terminal # 0
  BY DEF Resumes, Plain, MaybeTarget, Target
<1>2. GenOK(h)
  BY DEF Resumes
<1>3. CASE Last(stack).braces /\ terminal # 0
  <2>1. /\ g' = [h EXCEPT !.ctx[h.cur].terminal = TRUE]
        /\ stk' = [stack EXCEPT ![Len(stack)].term = terminal]
        /\ phase' = "stmt" /\ result' = 0
    BY <1>1, <1>3 DEF Return
  <2>2. GenOK(g') /\ Parsing(g', stk', "stmt", 0)
    BY <1>3, <2>1, LeavesIs DEF Braced
  <2> QED
    BY <2>1, <2>2 DEF StmtInv
<1>4. CASE Last(stack).braces /\ terminal = 0
  <2>1. /\ g' = h
        /\ stk' = [stack EXCEPT ![Len(stack)].term = 0]
        /\ phase' = "stmt" /\ result' = 0
    BY <1>1, <1>4 DEF Return
  <2>2. Parsing(g', stk', "stmt", 0)
    BY <1>4, <2>1, GoesOnIs
  <2> QED
    BY <1>2, <2>1, <2>2 DEF StmtInv
<1>5. CASE ~Last(stack).braces
  <2>1. g' = h /\ stk' = stack /\ phase' = "end" /\ result' = terminal
    BY <1>5 DEF Return
  <2>2. Parsing(g', stk', "end", result')
    BY <2>1, ClauseEndsIs
  <2> QED
    BY <1>2, <2>1, <2>2 DEF StmtInv
<1> QED
  BY <1>3, <1>4, <1>5

-----------------------------------------------------------------------------
(* Statements.                                                             *)

\* The innermost construct.
LEMMA ParsingIs ==
  ASSUME StmtInv, phase \notin {"run", "error"}
  PROVE  LET n == Len(stk)
             s == stk[n]
         IN  /\ GenOK(g) /\ Framed(g)
             /\ IsSeq(stk) /\ stk # <<>> /\ n \in Nat \ {0} /\ DOMAIN stk = 1 .. n
             /\ Construct = s
             /\ BelowOK(g, stk, n) /\ TopOK(g, stk, n)
             /\ OpenOK(g, stk, n, Live(g, phase, result))
             /\ PhaseOK(g, s, phase, result)
             /\ MaybeTarget(g, s.term) /\ MaybeTarget(g, result)
             /\ ConstructOK(g, s) /\ Shape(s)
             /\ g.cur \in DOMAIN g.ctx
<1> DEFINE n == Len(stk)
           s == stk[n]
<1>1. /\ GenOK(g) /\ Framed(g) /\ IsSeq(stk) /\ stk # <<>>
      /\ BelowOK(g, stk, n) /\ TopOK(g, stk, n)
      /\ OpenOK(g, stk, n, Live(g, phase, result))
      /\ PhaseOK(g, s, phase, result)
      /\ MaybeTarget(g, s.term) /\ MaybeTarget(g, result)
  BY DEF StmtInv, Parsing
<1>2. n \in Nat \ {0} /\ DOMAIN stk = 1 .. n
  BY <1>1, SeqFacts
<1>3. Construct = s
  BY DEF Construct, Last
<1>4. ConstructOK(g, s) /\ Shape(s)
  BY <1>1 DEF TopOK, ConstructOK
<1>5. g.cur \in DOMAIN g.ctx
  BY <1>1 DEF GenOK, ContextsOK
<1> QED
  BY <1>1, <1>2, <1>3, <1>4, <1>5

\* A step that the constructs do not see.
LEMMA StackKept ==
  ASSUME NEW h, NEW k, NEW s, NEW n \in Nat \ {0}, NEW d, Goes(h, k, d, {}),
         BelowOK(h, s, n), TopOK(h, s, n)
  PROVE  /\ BelowOK(k, s, n) /\ TopOK(k, s, n)
         /\ Below(k, s, n) = Below(h, s, n)
         /\ Waiting(k, s[n]) = Waiting(h, s[n])
         /\ Through(k, s[n]) <=> Through(h, s[n])
         /\ SameTree(h, k)
         /\ \A c \in DOMAIN h.ctx : SameTerminal(h, k, c)
<1>1. /\ SameTree(h, k)
      /\ \A c \in DOMAIN h.ctx : SameClauses(h, k, c) /\ SameTerminal(h, k, c)
  BY GoesTree
<1>2. \A i \in 1 .. n : s[i].ctx \in DOMAIN h.ctx
  <2>1. 1 .. n = (1 .. (n - 1)) \cup {n}
    OBVIOUS
  <2> QED
    BY <2>1 DEF BelowOK, TopOK, ConstructOK
<1>3. \A i \in 2 .. n : h.ctx[s[i].ctx].parent \in DOMAIN h.ctx
  <2> TAKE i \in 2 .. n
  <2>1. i \in 2 .. (n - 1) \/ (i = n /\ n > 1)
    OBVIOUS
  <2>2. NestedOK(h, s[i], s[i - 1])
    BY <2>1 DEF BelowOK, TopOK
  <2> QED
    BY <2>2 DEF NestedOK, Plain
<1>4. Keeps(h, k, s, s, n)
  BY <1>1, <1>2, <1>3 DEF Keeps
<1>5. /\ TopOK(k, s, n) /\ Waiting(k, s[n]) = Waiting(h, s[n])
      /\ Through(k, s[n]) <=> Through(h, s[n])
      /\ Keeps(h, k, s, s, n - 1)
  BY <1>4, TopKept
<1>6. BelowOK(k, s, n) /\ Below(k, s, n) = Below(h, s, n)
  BY <1>5, BelowKept
<1> QED
  BY <1>1, <1>5, <1>6

\* Where a statement may begin.
LEMMA ReadsIs ==
  ASSUME StmtInv, phase = "stmt", ~g.ctx[g.cur].terminal
  PROVE  /\ Ready(g) /\ Frames(g) # <<>>
         /\ stk[Len(stk)].term = 0
         /\ g.cur \in DOMAIN g.ctx \ {Outside}
<1>1. phase \notin {"run", "error"}
  OBVIOUS
<1>2. /\ OpenOK(g, stk, Len(stk), Live(g, phase, result))
      /\ PhaseOK(g, stk[Len(stk)], phase, result) /\ GenOK(g) /\ Framed(g)
  BY <1>1, ParsingIs
<1>3. g.at \in Opens(g)
  BY <1>2 DEF OpenOK, Live
<1>4. g.cur \in DOMAIN g.ctx \ {Outside} /\ stk[Len(stk)].term = 0
  BY <1>2 DEF PhaseOK, Plain
<1>5. g.ctx[g.cur].frames # <<>>
  BY <1>2, <1>4 DEF Framed
<1> QED
  BY <1>2, <1>3, <1>4, <1>5 DEF Ready, Frames

\* A statement that is not a construct.
LEMMA StatementIs ==
  ASSUME StmtInv, phase = "stmt", ~g.ctx[g.cur].terminal, NEW k, NEW terminal,
         NEW O, Becomes(g, k, k.at, O), O \ {k.at} = Opens(g) \ {g.at},
         k.at = g.at \/ k.at \notin DOMAIN g.code,
         k.at \in O <=> terminal = 0, MaybeTarget(g, terminal)
  PROVE  Resumes(k, stk, terminal)
<1> DEFINE n == Len(stk)
           s == stk[n]
<1>1. phase \notin {"run", "error"}
  OBVIOUS
<1>2. /\ GenOK(g) /\ Framed(g) /\ IsSeq(stk) /\ stk # <<>> /\ n \in Nat \ {0}
      /\ BelowOK(g, stk, n) /\ TopOK(g, stk, n)
      /\ OpenOK(g, stk, n, Live(g, phase, result))
      /\ PhaseOK(g, s, phase, result)
  BY <1>1, ParsingIs
<1>3. s.term = 0
  BY ReadsIs
<1> HIDE DEF n
<1>4. GenOK(k) /\ Opens(k) = O /\ k.cur = g.cur
  BY <1>2, BecomesFacts
<1>5. Goes(g, k, g.cur, {})
  BY <1>2, BecomesGoes
<1>6. /\ BelowOK(k, stk, n) /\ TopOK(k, stk, n)
      /\ Below(k, stk, n) = Below(g, stk, n)
      /\ Waiting(k, s) = Waiting(g, s)
      /\ Through(k, s) <=> Through(g, s)
      /\ SameTree(g, k)
      /\ \A c \in DOMAIN g.ctx : SameTerminal(g, k, c)
  BY <1>2, <1>5, StackKept
<1>7. OpenOK(k, stk, n, terminal = 0)
  <2>1. Opens(g) \subseteq DOMAIN g.code
    BY DEF Opens
  <2> QED
    BY <1>2, <1>4, <1>6, <2>1 DEF OpenOK
<1>8. Plain(g, g.cur) /\ g.ctx[g.cur].parent = s.ctx /\ (s.k = "catch" => Through(g, s))
  BY <1>2 DEF PhaseOK
<1>9. Plain(k, k.cur)
  BY <1>4, <1>6, <1>8, PlainKept
<1>10. k.ctx[k.cur].parent = s.ctx /\ ~k.ctx[k.cur].terminal
  BY <1>4, <1>6, <1>8 DEF SameTree, SameTerminal, Plain
<1>11. MaybeTarget(k, terminal)
  BY <1>6, TargetKept
<1>12. Framed(k)
  BY <1>2, <1>5, GoesFramed
<1> QED
  BY <1>2, <1>3, <1>4, <1>6, <1>7, <1>8, <1>9, <1>10, <1>11, <1>12 DEF Resumes, n

LEMMA EmitsResumes ==
  ASSUME StmtInv, phase = "stmt", ~g.ctx[g.cur].terminal, NEW k, Emits(g, k)
  PROVE  Resumes(k, stk, 0)
<1>1. Ready(g)
  BY ReadsIs
<1>2. Becomes(g, k, g.at, Opens(g)) /\ GenOK(g) /\ g.at \in Opens(g)
  BY <1>1 DEF Emits, Ready
<1>3. k.at = g.at
  BY <1>2, BecomesFacts
<1>4. MaybeTarget(g, 0)
  BY DEF MaybeTarget
<1> QED
  BY <1>2, <1>3, <1>4, StatementIs

\* A statement that ends the block.
LEMMA TerminalResumes ==
  ASSUME StmtInv, phase = "stmt", ~g.ctx[g.cur].terminal, NEW k,
         Becomes(g, k, k.at, Opens(g) \ {g.at}),
         k.at = g.at \/ k.at \notin DOMAIN g.code,
         NEW t, Target(g, t), t # 0
  PROVE  Resumes(k, stk, t)
<1>1. Ready(g)
  BY ReadsIs
<1>2. Opens(g) \subseteq DOMAIN g.code
  BY DEF Opens
<1>3. k.at \notin Opens(g) \ {g.at}
  BY <1>2
<1>4. MaybeTarget(g, t)
  BY DEF MaybeTarget
<1>5. (Opens(g) \ {g.at}) \ {k.at} = Opens(g) \ {g.at}
  BY <1>3
<1> QED
  BY <1>3, <1>4, <1>5, StatementIs

LEMMA NullStmtIs ==
  ASSUME StmtInv, NullStmt
  PROVE  StmtInv'
<1>1. phase = "stmt" /\ phase \notin {"run", "error"} /\ ~Construct.braces /\ Return(stk, g, 0)
  BY DEF NullStmt
<1>2. ~g.ctx[g.cur].terminal /\ GenOK(g)
  BY <1>1, ParsingIs DEF PhaseOK
<1>3. Emits(g, g)
  BY <1>2, EmitsRefl
<1>4. Resumes(g, stk, 0)
  BY <1>1, <1>2, <1>3, EmitsResumes
<1> QED
  BY <1>1, <1>4, ReturnIs

\* A statement that control goes on after.
LEMMA GoesOnStmt ==
  ASSUME StmtInv, NEW kind, NEW k, Statement(kind, k, 0), Ready(g) => Emits(g, k)
  PROVE  StmtInv'
<1>1. phase = "stmt" /\ ~g.ctx[g.cur].terminal /\ Return(stk, k, 0)
  BY DEF Statement, Reads
<1>2. Ready(g)
  BY <1>1, ReadsIs
<1>3. Resumes(k, stk, 0)
  BY <1>1, <1>2, EmitsResumes
<1> QED
  BY <1>1, <1>3, ReturnIs

LEMMA VarDefIs ==
  ASSUME StmtInv, NEW kind, VarDef(kind)
  PROVE  StmtInv'
<1>1. Statement(kind, emitVarDef(g, kind), 0)
  BY DEF VarDef
<1>2. phase = "stmt" /\ ~g.ctx[g.cur].terminal
  BY <1>1 DEF Statement, Reads
<1>3. Ready(g) /\ Frames(g) # <<>>
  BY <1>2, ReadsIs
<1>4. Emits(g, emitVarDef(g, kind))
  BY <1>3, emitVarDefIs
<1> QED
  BY <1>1, <1>4, GoesOnStmt

LEMMA ExprStmtIs ==
  ASSUME StmtInv, ExprStmt
  PROVE  StmtInv'
<1> DEFINE k == closeCleanupFrame(HandleTransient(emitFuncCall(createCleanupFrame(g))))
<1>1. Statement("expr", k, 0)
  BY DEF ExprStmt
<1>2. Ready(g) => Emits(g, k)
  BY ExprIs
<1> HIDE DEF k
<1> QED
  BY <1>1, <1>2, GoesOnStmt

LEMMA TernaryStmtIs ==
  ASSUME StmtInv, TernaryStmt
  PROVE  StmtInv'
<1> DEFINE k == closeCleanupFrame(HandleTransient(emitTernary(createCleanupFrame(g))))
           post == NextBlock(g) + 2
           O == (Opens(g) \ {g.at}) \cup {post}
<1>1. phase = "stmt" /\ ~g.ctx[g.cur].terminal /\ Return(stk, k, 0)
  BY DEF TernaryStmt, Statement, Reads
<1>2. Ready(g)
  BY <1>1, ReadsIs
<1>3. post \notin DOMAIN g.code /\ Becomes(g, k, post, O)
  BY <1>2, TernaryIs
<1> HIDE DEF k, post
<1>4. k.at = post
  BY <1>2, <1>3, BecomesFacts DEF Ready
<1>5. Opens(g) \subseteq DOMAIN g.code
  BY DEF Opens
<1>6. O \ {k.at} = Opens(g) \ {g.at} /\ k.at \in O
  BY <1>3, <1>4, <1>5
<1>7. MaybeTarget(g, 0)
  BY DEF MaybeTarget
<1> HIDE DEF O
<1>8. Resumes(k, stk, 0)
  BY <1>1, <1>3, <1>4, <1>6, <1>7, StatementIs
<1> QED
  BY <1>1, <1>8, ReturnIs

LEMMA ReturnStmtIs ==
  ASSUME StmtInv, ReturnStmt
  PROVE  StmtInv'
<1> DEFINE k == emitReturn(g, top = "value")
<1>1. phase = "stmt" /\ ~g.ctx[g.cur].terminal /\ Return(stk, k, Outside)
  BY DEF ReturnStmt, Statement, Reads
<1>2. Ready(g)
  BY <1>1, ReadsIs
<1>3. Becomes(g, k, g.at, Opens(g) \ {g.at})
  BY <1>2, emitReturnIs
<1> HIDE DEF k
<1>4. k.at = g.at
  BY <1>2, <1>3, BecomesFacts DEF Ready
<1>5. Target(g, Outside) /\ Outside # 0
  BY DEF Target, Outside
<1>6. Resumes(k, stk, Outside)
  BY <1>1, <1>3, <1>4, <1>5, TerminalResumes
<1> QED
  BY <1>1, <1>6, ReturnIs

\* The loop that a break or a continue leaves to.
LEMMA LoopIs ==
  ASSUME NEW h, GenOK(h), NEW c \in DOMAIN h.ctx, getBreak(h, c) # 0
  PROVE  LET loop == h.ctx[getBreak(h, c)].loop
         IN  /\ loop.ctx \in DOMAIN h.ctx /\ loop.ctx # 0
             /\ Target(h, loop.ctx)
<1> DEFINE b == getBreak(h, c)
<1>1. b \in DOMAIN h.ctx /\ h.ctx[b].loop # NoLoop
  BY getBreakIs
<1>2. ContextOK(h, b)
  BY <1>1 DEF GenOK, ContextsOK
<1>3. h.ctx[b].loop.ctx = b
  BY <1>1, <1>2 DEF ContextOK
<1> QED
  BY <1>1, <1>3 DEF Target

LEMMA BreakStmtIs ==
  ASSUME StmtInv, BreakStmt \/ ContinueStmt
  PROVE  StmtInv'
<1> DEFINE loop == g.ctx[getBreak(g, g.cur)].loop
<1>1. /\ phase = "stmt" /\ ~g.ctx[g.cur].terminal /\ getBreak(g, g.cur) # 0
      /\ \/ Return(stk, emitBreak(g, loop), loop.ctx)
         \/ Return(stk, emitContinue(g, loop), loop.ctx)
  BY DEF BreakStmt, ContinueStmt, Statement, Reads
<1>2. Ready(g) /\ GenOK(g) /\ g.cur \in DOMAIN g.ctx
  BY <1>1, ReadsIs DEF Ready
<1>3. loop.ctx \in DOMAIN g.ctx /\ loop.ctx # 0 /\ Target(g, loop.ctx)
  BY <1>1, <1>2, LoopIs
<1> HIDE DEF loop
<1>4. PICK k : /\ Return(stk, k, loop.ctx)
               /\ Becomes(g, k, g.at, Opens(g) \ {g.at})
  BY <1>1, <1>2, <1>3, emitBreakIs
<1>5. k.at = g.at
  BY <1>2, <1>4, BecomesFacts
<1>6. Resumes(k, stk, loop.ctx)
  BY <1>1, <1>3, <1>4, <1>5, TerminalResumes
<1> QED
  BY <1>4, <1>6, ReturnIs

LEMMA ThrowStmtIs ==
  ASSUME StmtInv, ThrowStmt
  PROVE  StmtInv'
<1> DEFINE try == getCatch(g, g.cur)
           t == IF try = Toplevel THEN Outside ELSE try
<1>1. PICK x \in ExTypes : Statement("throw", emitThrow(g, x), t)
  BY DEF ThrowStmt
<1> DEFINE k == emitThrow(g, x)
<1>2. phase = "stmt" /\ ~g.ctx[g.cur].terminal /\ Return(stk, k, t)
  BY <1>1 DEF Statement, Reads
<1>3. Ready(g) /\ GenOK(g) /\ g.cur \in DOMAIN g.ctx
  BY <1>2, ReadsIs DEF Ready
<1>4. Target(g, t) /\ t # 0
  <2>1. CASE try = Toplevel
    BY <2>1 DEF Target, Outside
  <2>2. CASE try # Toplevel
    <3>1. try \in DOMAIN g.ctx /\ g.ctx[try].catch # 0
      BY <1>3, <2>2, getCatchIs
    <3>2. ContextOK(g, try)
      BY <1>3, <3>1 DEF GenOK, ContextsOK
    <3>3. try # 0
      BY <1>3, <3>1, Seqs, SeqFacts
    <3> QED
      BY <2>2, <3>1, <3>2, <3>3 DEF ContextOK, Target
  <2> QED
    BY <2>1, <2>2
<1>5. k.at \notin DOMAIN g.code /\ Becomes(g, k, k.at, Opens(g) \ {g.at})
  BY <1>3, emitThrowIs
<1> HIDE DEF k, t
<1>6. Resumes(k, stk, t)
  BY <1>2, <1>4, <1>5, TerminalResumes
<1> QED
  BY <1>2, <1>6, ReturnIs

-----------------------------------------------------------------------------
(* The end of a clause.                                                    *)

\* The constructs stay as they are.
LEMMA SameStackIs ==
  ASSUME StmtInv, phase \notin {"run", "error"}, NEW k, NEW d, Goes(g, k, d, {}),
         Opens(k) = Opens(g), k.at = g.at, NEW ph, NEW res,
         Live(k, ph, res) <=> Live(g, phase, result),
         PhaseOK(k, stk[Len(stk)], ph, res), MaybeTarget(g, res)
  PROVE  GenOK(k) /\ Parsing(k, stk, ph, res)
<1> DEFINE n == Len(stk)
           s == stk[n]
<1>1. /\ GenOK(g) /\ Framed(g) /\ IsSeq(stk) /\ stk # <<>> /\ n \in Nat \ {0}
      /\ BelowOK(g, stk, n) /\ TopOK(g, stk, n)
      /\ OpenOK(g, stk, n, Live(g, phase, result))
      /\ MaybeTarget(g, s.term)
  BY ParsingIs
<1>2. PhaseOK(k, s, ph, res)
  OBVIOUS
<1> HIDE DEF n
<1>3. /\ BelowOK(k, stk, n) /\ TopOK(k, stk, n)
      /\ Below(k, stk, n) = Below(g, stk, n)
      /\ Waiting(k, s) = Waiting(g, s)
      /\ SameTree(g, k)
  BY <1>1, StackKept
<1>4. OpenOK(k, stk, n, Live(k, ph, res))
  BY <1>1, <1>3 DEF OpenOK
<1>5. MaybeTarget(k, s.term) /\ MaybeTarget(k, res)
  BY <1>1, <1>3, TargetKept
<1>6. Framed(k)
  BY <1>1, GoesFramed
<1>7. GenOK(k)
  BY DEF Goes
<1> QED
  BY <1>1, <1>2, <1>3, <1>4, <1>5, <1>6, <1>7 DEF Parsing, n

LEMMA CloseBraceIs ==
  ASSUME StmtInv, CloseBrace
  PROVE  StmtInv'
<1> DEFINE n == Len(stk)
           s == stk[n]
<1>1. phase = "stmt" /\ phase \notin {"run", "error"}
  BY DEF CloseBrace
<1>2. /\ GenOK(g) /\ Construct = s /\ PhaseOK(g, s, phase, result) /\ MaybeTarget(g, s.term)
      /\ g.cur \in DOMAIN g.ctx
  BY <1>1, ParsingIs
<1>3. g' = g \/ (~g.ctx[g.cur].terminal /\ g' = closeAllCleanups(g, g.cur))
  BY DEF CloseBrace
<1>4. Emits(g, g')
  <2>1. CASE g' = g
    BY <1>2, <2>1, EmitsRefl
  <2>2. CASE ~g.ctx[g.cur].terminal /\ g' = closeAllCleanups(g, g.cur)
    <3>1. Ready(g)
      BY <1>1, <2>2, ReadsIs
    <3> QED
      BY <1>2, <2>2, <3>1, closeAllCleanupsIs
  <2> QED
    BY <1>3, <2>1, <2>2
<1>5. phase' = "end" /\ result' = s.term /\ stk' = stk
  BY <1>2 DEF CloseBrace
<1>6. g'.at = g.at /\ Opens(g') = Opens(g) /\ g'.cur = g.cur
  BY <1>4, EmitsFacts
<1>7. Goes(g, g', g.cur, {})
  BY <1>2, <1>4, EmitsGoes
<1>8. Plain(g, g.cur) /\ g.ctx[g.cur].parent = s.ctx /\ (s.k = "catch" => Through(g, s))
  BY <1>1, <1>2 DEF PhaseOK
<1>9. Live(g', "end", s.term) <=> Live(g, phase, result)
  BY <1>1, <1>2 DEF Live, PhaseOK
<1>10. PhaseOK(g', s, "end", s.term)
  <2>1. /\ SameTree(g, g') /\ \A c \in DOMAIN g.ctx : SameClauses(g, g', c)
    BY <1>7, GoesTree
  <2>2. Plain(g', g'.cur)
    BY <1>6, <1>8, <2>1, PlainKept
  <2>3. g'.ctx[g'.cur].parent = s.ctx
    BY <1>2, <1>6, <1>8, <2>1 DEF SameTree
  <2>4. ConstructOK(g, s)
    BY <1>1, ParsingIs
  <2>5. s.k = "catch" => Through(g', s)
    BY <1>8, <2>1, <2>4 DEF Through, SameClauses, ConstructOK
  <2> QED
    BY <2>2, <2>3, <2>5 DEF PhaseOK
<1>11. GenOK(g') /\ Parsing(g', stk, "end", s.term)
  BY <1>1, <1>2, <1>6, <1>7, <1>9, <1>10, SameStackIs
<1> QED
  BY <1>5, <1>11 DEF StmtInv

\* The context of the clause is left.
LEMMA PoppedIs ==
  ASSUME StmtInv, phase = "end"
  PROVE  /\ GenOK(Popped) /\ Popped.cur = stk[Len(stk)].ctx /\ Popped.at = g.at
         /\ Popped.ctx = g.ctx /\ Popped.code = g.code /\ Opens(Popped) = Opens(g)
         /\ \A d, F : Goes(g, Popped, d, F)
<1>1. phase \notin {"run", "error"}
  OBVIOUS
<1>2. /\ GenOK(g) /\ Construct = stk[Len(stk)] /\ ConstructOK(g, Construct)
  BY <1>1, ParsingIs
<1>3. Construct.ctx \in DOMAIN g.ctx
  BY <1>2 DEF ConstructOK
<1> DEFINE c == Construct.ctx
<1> HIDE DEF c
<1>4. Popped = [g EXCEPT !.cur = c]
  BY DEF Popped, c
<1>5. /\ GenOK(Popped) /\ Popped.cur = c /\ Popped.at = g.at
      /\ Popped.ctx = g.ctx /\ Popped.code = g.code /\ Opens(Popped) = Opens(g)
  BY <1>2, <1>3, <1>4, SetCurIs DEF c
<1>6. \A d, F : Goes(g, Popped, d, F)
  BY <1>2, <1>3, <1>4, SetCurGoes DEF c
<1> QED
  BY <1>2, <1>5, <1>6 DEF c

LEMMA EndThenIs ==
  ASSUME StmtInv, EndThen
  PROVE  StmtInv'
<1> DEFINE s == stk[Len(stk)]
<1>1. phase = "end" /\ phase \notin {"run", "error"} /\ Construct.k = "then"
  BY DEF EndThen, Ended
<1>2. Construct = s /\ MaybeTarget(g, result)
  BY <1>1, ParsingIs
<1>3. g' = Popped /\ phase' = "else" /\ stk' = stk /\ result' = result
  BY DEF EndThen
<1>4. /\ g'.cur = s.ctx /\ g'.at = g.at /\ Opens(g') = Opens(g)
      /\ Goes(g, g', g.cur, {})
  BY <1>1, <1>3, PoppedIs
<1>5. Live(g', "else", result) <=> Live(g, phase, result)
  BY <1>1 DEF Live
<1>6. PhaseOK(g', s, "else", result)
  BY <1>1, <1>2, <1>4 DEF PhaseOK
<1>7. GenOK(g') /\ Parsing(g', stk, "else", result)
  BY <1>1, <1>2, <1>4, <1>5, <1>6, SameStackIs
<1> QED
  BY <1>3, <1>7 DEF StmtInv

-----------------------------------------------------------------------------
(* The end of a construct.                                                 *)

Unseen(h, k, s, n) ==
  /\ BelowOK(k, s, n) /\ TopOK(k, s, n)
  /\ Below(k, s, n) = Below(h, s, n)
  /\ Waiting(k, s[n]) = Waiting(h, s[n])
  /\ Through(k, s[n]) <=> Through(h, s[n])
  /\ SameTree(h, k)

LEMMA StackUnseen ==
  ASSUME NEW h, NEW k, NEW s, NEW n \in Nat \ {0}, NEW d, Goes(h, k, d, {}),
         BelowOK(h, s, n), TopOK(h, s, n)
  PROVE  Unseen(h, k, s, n)
  BY StackKept DEF Unseen

LEMMA PopIs ==
  ASSUME StmtInv, phase \notin {"run", "error"}, Construct.k # "func",
         NEW k, k.cur = Construct.ctx,
         Goes(g, k, Construct.ctx, {"clauses", "nonTerminal"}),
         Opens(k) \ {k.at} = Below(g, stk, Len(stk)),
         k.at \notin Below(g, stk, Len(stk)),
         NEW terminal, k.at \in Opens(k) <=> terminal = 0, MaybeTarget(g, terminal)
  PROVE  Resumes(Leave(k), Front(stk), terminal)
<1> DEFINE n == Len(stk)
           s == stk[n]
           p == n - 1
           t == Front(stk)
           block == g.ctx[s.ctx].parent
           l == Leave(k)
<1>1. /\ GenOK(g) /\ Framed(g) /\ IsSeq(stk) /\ n \in Nat \ {0}
      /\ Construct = s /\ BelowOK(g, stk, n) /\ TopOK(g, stk, n) /\ ConstructOK(g, s)
  BY ParsingIs
<1>2. k.cur = s.ctx /\ Goes(g, k, s.ctx, {"clauses", "nonTerminal"})
  BY <1>1
<1>3. IsSeq(t) /\ Len(t) = p /\ \A i \in 1 .. p : t[i] = stk[i]
  <2>1. stk \in Seq(Range(stk)) /\ stk # <<>>
    BY <1>1, ParsingIs DEF IsSeq
  <2>2. t \in Seq(Range(stk)) /\ Len(t) = p /\ \A i \in 1 .. p : t[i] = stk[i]
    BY <2>1, FrontIs
  <2> QED
    BY <2>2, SeqIs
<1>4. Opens(k) \ {k.at} = Below(g, stk, n) /\ k.at \notin Below(g, stk, n)
  OBVIOUS
<1>5. n > 1
  <2>1. s.k # "func"
    BY <1>1
  <2> HIDE DEF n
  <2>2. n # 1
    BY <1>1, <2>1 DEF TopOK
  <2> QED
    BY <1>1, <2>2
<1> HIDE DEF n, t
<1>6. p \in Nat \ {0} /\ p \in 1 .. (n - 1) /\ 1 .. p = 1 .. (n - 1)
  BY <1>1, <1>5
<1>7. /\ s.ctx \in DOMAIN g.ctx /\ NestedOK(g, s, stk[p])
      /\ \A i \in 1 .. p : stk[i].ctx # s.ctx /\ stk[i].ctx \in DOMAIN g.ctx
  BY <1>1, <1>5, <1>6 DEF TopOK, ConstructOK, BelowOK
<1>8. /\ SameTree(g, k)
      /\ \A c \in DOMAIN g.ctx : c # s.ctx => SameClauses(g, k, c)
      /\ \A c \in DOMAIN g.ctx : SameTerminal(g, k, c)
  BY <1>2, GoesTree
<1>9. Keeps(g, k, stk, t, n - 1)
  <2>1. \A i \in 2 .. (n - 1) : g.ctx[stk[i].ctx].parent \in DOMAIN g.ctx
    BY <1>1 DEF BelowOK, NestedOK, Plain
  <2> QED
    BY <1>3, <1>6, <1>7, <1>8, <2>1 DEF Keeps
<1>10. BelowOK(k, t, n) /\ Below(k, t, n) = Below(g, stk, n)
  BY <1>1, <1>9, BelowKept
<1>11. /\ BelowOK(k, t, p) /\ TopOK(k, t, p)
       /\ t[p].k = "catch" => Through(k, t[p])
       /\ Waiting(k, t[p]) \cap Below(k, t, p) = {}
       /\ Below(k, t, n) = Waiting(k, t[p]) \cup Below(k, t, p)
  BY <1>1, <1>5, <1>10, BelowPop
<1>12. /\ k.ctx[k.cur].parent = block /\ Plain(k, block) /\ ~k.ctx[block].terminal
       /\ k.ctx[block].parent = t[p].ctx /\ t[p].term = 0
  <2>1. /\ Plain(g, block) /\ ~g.ctx[block].terminal
        /\ g.ctx[block].parent = stk[p].ctx /\ stk[p].term = 0
    BY <1>7 DEF NestedOK
  <2> HIDE DEF block
  <2>2. k.ctx[k.cur].parent = block
    BY <1>2, <1>7, <1>8 DEF SameTree, block
  <2>3. Plain(k, block)
    BY <1>8, <2>1, PlainKept
  <2>4. ~k.ctx[block].terminal /\ k.ctx[block].parent = stk[p].ctx
    BY <1>8, <2>1 DEF SameTree, SameTerminal, Plain
  <2> QED
    BY <1>3, <1>6, <2>1, <2>2, <2>3, <2>4
<1>13. GenOK(k) /\ block \in DOMAIN k.ctx
  BY <1>2, <1>12 DEF Goes, Plain
<1> HIDE DEF block, p
<1>14. l = [k EXCEPT !.cur = block]
  BY <1>12 DEF Leave
<1> HIDE DEF l
<1>15. /\ GenOK(l) /\ l.cur = block /\ l.at = k.at /\ l.ctx = k.ctx /\ Opens(l) = Opens(k)
  BY <1>13, <1>14, SetCurIs
<1>16. Goes(k, l, block, {})
  BY <1>13, <1>14, SetCurGoes
<1>17. /\ BelowOK(l, t, p) /\ TopOK(l, t, p)
       /\ Below(l, t, p) = Below(k, t, p)
       /\ Waiting(l, t[p]) = Waiting(k, t[p])
       /\ Through(l, t[p]) <=> Through(k, t[p])
       /\ SameTree(k, l)
  <2>1. p \in Nat \ {0} /\ Goes(k, l, block, {}) /\ BelowOK(k, t, p) /\ TopOK(k, t, p)
    BY <1>6, <1>11, <1>16
  <2>2. Unseen(k, l, t, p)
    BY <2>1, StackUnseen, Zenon
  <2> QED
    BY <2>2 DEF Unseen
<1>18. OpenOK(l, t, p, terminal = 0)
  BY <1>4, <1>10, <1>11, <1>15, <1>17 DEF OpenOK
<1>19. Framed(k)
  BY <1>1, <1>2, GoesFramed
<1>20. Framed(l)
  BY <1>16, <1>19, GoesFramed
<1>21. MaybeTarget(k, terminal)
  BY <1>8, TargetKept
<1>22. MaybeTarget(l, terminal)
  BY <1>17, <1>21, TargetKept
<1>23. t # <<>>
  BY <1>3, <1>6, SeqFacts
<1>24. Plain(l, l.cur) /\ l.ctx[l.cur].parent = t[p].ctx /\ ~l.ctx[l.cur].terminal
  BY <1>12, <1>15 DEF Plain
<1> QED
  BY <1>3, <1>11, <1>12, <1>15, <1>17, <1>18, <1>20, <1>22, <1>23, <1>24 DEF Resumes, l, t

\* What is open where a clause has ended.
LEMMA EndedIs ==
  ASSUME StmtInv, phase \in {"end", "else", "catch"}
  PROVE  LET n == Len(stk)
             s == stk[n]
         IN  /\ GenOK(g) /\ Construct = s /\ ConstructOK(g, s)
             /\ n \in Nat \ {0} /\ TopOK(g, stk, n)
             /\ PhaseOK(g, s, phase, result) /\ MaybeTarget(g, result)
             /\ Waiting(g, s) \cap Below(g, stk, n) = {}
             /\ g.at \notin Waiting(g, s) \cup Below(g, stk, n)
             /\ g.at \in Opens(g) <=> result = 0
             /\ Opens(g) \ {g.at} = Waiting(g, s) \cup Below(g, stk, n)
             /\ Opens(g) \subseteq DOMAIN g.code
             /\ g.cur \in DOMAIN g.ctx
<1> DEFINE n == Len(stk)
           s == stk[n]
<1>1. phase \notin {"run", "error"} /\ phase # "stmt"
  OBVIOUS
<1>2. /\ GenOK(g) /\ Construct = s /\ ConstructOK(g, s)
      /\ n \in Nat \ {0} /\ TopOK(g, stk, n)
      /\ PhaseOK(g, s, phase, result) /\ MaybeTarget(g, result)
      /\ OpenOK(g, stk, n, Live(g, phase, result)) /\ g.cur \in DOMAIN g.ctx
  BY <1>1, ParsingIs
<1>3. Live(g, phase, result) <=> result = 0
  BY <1>1 DEF Live
<1>4. Opens(g) \subseteq DOMAIN g.code
  BY DEF Opens
<1> HIDE DEF n
<1>5. /\ Waiting(g, s) \cap Below(g, stk, n) = {}
      /\ g.at \notin Waiting(g, s) \cup Below(g, stk, n)
      /\ g.at \in Opens(g) <=> result = 0
      /\ Opens(g) \ {g.at} = Waiting(g, s) \cup Below(g, stk, n)
  BY <1>2, <1>3 DEF OpenOK
<1> QED
  BY <1>2, <1>4, <1>5 DEF n

\* The construct ends with the code that h becomes.
LEMMA PopBecomes ==
  ASSUME StmtInv, phase \in {"end", "else"}, Construct.k # "func",
         NEW h, GenOK(h), h.cur = Construct.ctx, \A d, F : Goes(g, h, d, F),
         NEW k, NEW a, NEW O, Becomes(h, k, a, O),
         O \ {a} = Below(g, stk, Len(stk)), a \notin Below(g, stk, Len(stk)),
         NEW terminal, a \in O <=> terminal = 0, MaybeTarget(g, terminal)
  PROVE  Resumes(Leave(k), Front(stk), terminal)
<1> DEFINE F == {"clauses", "nonTerminal"}
           c == Construct.ctx
<1> HIDE DEF F, c
<1>1. k.at = a /\ Opens(k) = O /\ k.cur = h.cur
  BY BecomesFacts
<1>2. Goes(g, h, c, F)
  BY Zenon
<1>3. Goes(h, k, c, F)
  BY BecomesGoes
<1>4. Goes(g, k, c, F)
  BY <1>2, <1>3, GoesTrans
<1>5. phase \notin {"run", "error"}
  OBVIOUS
<1>6. /\ k.cur = Construct.ctx
      /\ Goes(g, k, Construct.ctx, {"clauses", "nonTerminal"})
      /\ Opens(k) \ {k.at} = Below(g, stk, Len(stk))
      /\ k.at \notin Below(g, stk, Len(stk))
      /\ k.at \in Opens(k) <=> terminal = 0
  BY <1>1, <1>4 DEF c, F
<1> QED
  BY <1>5, <1>6, PopIs

\* The same, with the cleanups of its context.
LEMMA PopClosed ==
  ASSUME StmtInv, phase \in {"end", "else"}, Construct.k # "func",
         NEW h, GenOK(h), h.cur = Construct.ctx, \A d, F : Goes(g, h, d, F),
         NEW k, NEW a, NEW O, Becomes(h, k, a, O), a \in O,
         O \ {a} = Below(g, stk, Len(stk)), a \notin Below(g, stk, Len(stk))
  PROVE  Resumes(Leave(closeAllCleanups(k, k.cur)), Front(stk), 0)
<1> DEFINE l == closeAllCleanups(k, k.cur)
<1>1. k.at = a /\ Opens(k) = O /\ GenOK(k)
  BY BecomesFacts
<1>2. k.cur \in DOMAIN k.ctx
  BY <1>1 DEF GenOK, ContextsOK
<1>3. Emits(k, l)
  BY <1>1, <1>2, closeAllCleanupsIs DEF Ready
<1> HIDE DEF l
<1>4. Becomes(h, l, a, O)
  BY <1>3, ThenEmits
<1>5. MaybeTarget(g, 0)
  BY DEF MaybeTarget
<1>6. Resumes(Leave(l), Front(stk), 0)
  BY <1>4, <1>5, PopBecomes
<1> QED
  BY <1>6 DEF l

LEMMA NoElseIs ==
  ASSUME StmtInv, NoElse
  PROVE  StmtInv'
<1> DEFINE n == Len(stk)
           s == stk[n]
           B == Below(g, stk, n)
           k == emitEndIf(g, s.block, result # 0)
<1>1. phase = "else" /\ phase \in {"end", "else"} /\ phase \in {"end", "else", "catch"}
  BY DEF NoElse
<1>2. /\ GenOK(g) /\ Construct = s /\ ConstructOK(g, s)
      /\ PhaseOK(g, s, phase, result)
      /\ Waiting(g, s) \cap B = {} /\ g.at \notin Waiting(g, s) \cup B
      /\ g.at \in Opens(g) <=> result = 0
      /\ Opens(g) \ {g.at} = Waiting(g, s) \cup B
  BY <1>1, EndedIs
<1>3. g.cur = s.ctx /\ s.k = "then" /\ s.block # 0
  BY <1>1, <1>2 DEF PhaseOK, ConstructOK
<1>4. Waiting(g, s) = {s.block}
  BY <1>3 DEF Waiting
<1>5. Return(Front(stk), Leave(closeAllCleanups(k, k.cur)), 0)
  BY <1>2 DEF NoElse
<1>6. PICK O : Becomes(g, k, s.block, O) /\ O = {s.block} \cup B
  <2>1. (result # 0) \in BOOLEAN /\ s.block \in Opens(g) \ {g.at}
        /\ (g.at \in Opens(g) <=> ~(result # 0))
    BY <1>2, <1>4
  <2>2. /\ result # 0 => Becomes(g, k, s.block, Opens(g))
        /\ result = 0 => Becomes(g, k, s.block, (Opens(g) \ {g.at}) \cup {s.block})
    BY <1>2, <1>3, <2>1, emitEndIfIs
  <2>3. result # 0 => Opens(g) = {s.block} \cup B
    BY <1>2, <1>4
  <2>4. (Opens(g) \ {g.at}) \cup {s.block} = {s.block} \cup B
    BY <1>2, <1>4
  <2> HIDE DEF k, B
  <2> QED
    BY <2>2, <2>3, <2>4
<1>7. s.block \in O /\ O \ {s.block} = B /\ s.block \notin B
  BY <1>2, <1>4, <1>6
<1>8. \A d, F : Goes(g, g, d, F)
  BY <1>2, GoesRefl
<1>9. g.cur = Construct.ctx /\ Construct.k # "func"
  BY <1>2, <1>3
<1> HIDE DEF k
<1>10. Resumes(Leave(closeAllCleanups(k, k.cur)), Front(stk), 0)
  BY <1>1, <1>2, <1>6, <1>7, <1>8, <1>9, PopClosed
<1> QED
  BY <1>5, <1>10, ReturnIs

LEMMA EndElseIs ==
  ASSUME StmtInv, EndElse
  PROVE  StmtInv'
<1> DEFINE n == Len(stk)
           s == stk[n]
           B == Below(g, stk, n)
           h == Popped
           k == emitEndIf(h, s.block, result # 0)
<1>1. phase = "end" /\ phase \in {"end", "else"} /\ phase \in {"end", "else", "catch"}
  BY DEF EndElse, Ended
<1>2. /\ GenOK(g) /\ Construct = s /\ ConstructOK(g, s) /\ MaybeTarget(g, result)
      /\ Waiting(g, s) \cap B = {} /\ g.at \notin Waiting(g, s) \cup B
      /\ g.at \in Opens(g) <=> result = 0
      /\ Opens(g) \ {g.at} = Waiting(g, s) \cup B
      /\ Opens(g) \subseteq DOMAIN g.code
  BY <1>1, EndedIs
<1>3. s.k = "else"
  BY <1>2 DEF EndElse, Ended
<1>4. /\ Waiting(g, s) = {s.block} \ {0} /\ (s.first = 0 <=> s.block # 0)
      /\ MaybeTarget(g, s.first)
  BY <1>2, <1>3 DEF Waiting, ConstructOK
<1>5. /\ GenOK(h) /\ h.cur = Construct.ctx /\ h.at = g.at /\ h.code = g.code
      /\ Opens(h) = Opens(g) /\ \A d, F : Goes(g, h, d, F)
  BY <1>1, <1>2, PoppedIs
<1> DEFINE t == IF Encloses(k, s.first, result) THEN result ELSE s.first
<1>6. IF s.first # 0 /\ result # 0 THEN Return(Front(stk), Leave(k), t)
      ELSE Return(Front(stk), Leave(closeAllCleanups(k, k.cur)), 0)
  BY <1>2 DEF EndElse
<1>7. Construct.k # "func"
  BY <1>2, <1>3
<1> HIDE DEF h
<1>8. /\ (result # 0) \in BOOLEAN /\ (s.block # 0 => s.block \in Opens(h) \ {h.at})
      /\ (h.at \in Opens(h) <=> ~(result # 0))
  BY <1>2, <1>4, <1>5
<1> DEFINE after == IF s.block = 0 THEN NextBlock(h) ELSE s.block
<1>9. /\ s.block = 0 => after \notin DOMAIN h.code
      /\ result # 0 /\ s.block = 0 => Becomes(h, k, h.at, Opens(h))
      /\ result # 0 /\ s.block # 0 => Becomes(h, k, s.block, Opens(h))
      /\ result = 0 => Becomes(h, k, after, (Opens(h) \ {h.at}) \cup {after})
  BY <1>5, <1>8, emitEndIfIs
<1>10. CASE s.first # 0 /\ result # 0
  <2>1. Becomes(h, k, h.at, Opens(h))
    BY <1>4, <1>9, <1>10
  <2>2. Opens(h) \ {h.at} = B /\ h.at \notin B /\ h.at \notin Opens(h)
    BY <1>2, <1>4, <1>5, <1>10
  <2>3. t # 0 /\ MaybeTarget(g, t)
    BY <1>2, <1>4, <1>10
  <2> HIDE DEF k, t, B
  <2>4. Resumes(Leave(k), Front(stk), t)
    BY <1>1, <1>5, <1>7, <2>1, <2>2, <2>3, PopBecomes DEF B
  <2> QED
    BY <1>6, <1>10, <2>4, ReturnIs
<1>11. CASE ~(s.first # 0 /\ result # 0)
  <2>1. PICK O : Becomes(h, k, after, O) /\ O = {after} \cup B
    <3>1. CASE result = 0
      <4>1. (Opens(h) \ {h.at}) \cup {after} = {after} \cup B
        BY <1>2, <1>4, <1>5
      <4> QED
        BY <1>9, <3>1, <4>1
    <3>2. CASE result # 0
      <4>1. s.block # 0 /\ after = s.block
        BY <1>4, <1>11, <3>2
      <4>2. Opens(h) = {after} \cup B
        BY <1>2, <1>4, <1>5, <3>2, <4>1
      <4> QED
        BY <1>9, <3>2, <4>1, <4>2
    <3> QED
      BY <3>1, <3>2
  <2>2. after \notin B
    BY <1>2, <1>4, <1>5, <1>9
  <2>3. after \in O /\ O \ {after} = B
    BY <2>1, <2>2
  <2> HIDE DEF k, after, B
  <2>4. Resumes(Leave(closeAllCleanups(k, k.cur)), Front(stk), 0)
    BY <1>1, <1>5, <1>7, <2>1, <2>2, <2>3, PopClosed DEF B
  <2> QED
    BY <1>6, <1>11, <2>4, ReturnIs
<1> QED
  BY <1>10, <1>11

\* The block after a loop.
LEMMA emitEndWhileIs ==
  ASSUME NEW h, GenOK(h), NEW terminal \in BOOLEAN, h.at \in Opens(h) <=> ~terminal,
         h.ctx[h.cur].loop.end \in DOMAIN h.code
  PROVE  Becomes(h, emitEndWhile(h, terminal), h.ctx[h.cur].loop.end, Opens(h) \ {h.at})
<1> DEFINE end == h.ctx[h.cur].loop.end
           x == end + 1
<1>1. emitEndWhile(h, terminal) = SetInsertPoint(IF terminal THEN h ELSE Emit(h, Br(x)), end)
  BY DEF emitEndWhile
<1> HIDE DEF x
<1> QED
  BY <1>1, GoOnIs

LEMMA EndWhileIs ==
  ASSUME StmtInv, EndWhile
  PROVE  StmtInv'
<1> DEFINE n == Len(stk)
           s == stk[n]
           B == Below(g, stk, n)
           h == Popped
           k == emitEndWhile(h, result # 0)
           end == h.ctx[h.cur].loop.end
           O == Opens(h) \ {h.at}
<1>1. phase = "end" /\ phase \in {"end", "else"} /\ phase \in {"end", "else", "catch"}
  BY DEF EndWhile, Ended
<1>2. /\ GenOK(g) /\ Construct = s /\ ConstructOK(g, s)
      /\ Waiting(g, s) \cap B = {} /\ g.at \notin Waiting(g, s) \cup B
      /\ g.at \in Opens(g) <=> result = 0
      /\ Opens(g) \ {g.at} = Waiting(g, s) \cup B
      /\ Opens(g) \subseteq DOMAIN g.code
  BY <1>1, EndedIs
<1>3. s.k = "while"
  BY <1>2 DEF EndWhile, Ended
<1>4. /\ GenOK(h) /\ h.cur = s.ctx /\ h.cur = Construct.ctx /\ h.at = g.at /\ h.code = g.code
      /\ h.ctx = g.ctx
      /\ Opens(h) = Opens(g) /\ \A d, F : Goes(g, h, d, F)
  BY <1>1, <1>2, PoppedIs
<1>5. Return(Front(stk), Leave(k), 0)
  BY DEF EndWhile
<1> HIDE DEF h
<1>6. Waiting(g, s) = {end}
  BY <1>3, <1>4 DEF Waiting
<1>7. O = {end} \cup B /\ end \notin B /\ end \in O /\ O \ {end} = B /\ end \in DOMAIN h.code
  BY <1>2, <1>4, <1>6
<1>8. (result # 0) \in BOOLEAN /\ (h.at \in Opens(h) <=> ~(result # 0))
  BY <1>2, <1>4
<1>9. Becomes(h, k, end, O)
  BY <1>4, <1>7, <1>8, emitEndWhileIs
<1>10. Construct.k # "func" /\ MaybeTarget(g, 0)
  BY <1>2, <1>3 DEF MaybeTarget
<1> HIDE DEF k, end, O
<1>11. Resumes(Leave(k), Front(stk), 0)
  BY <1>1, <1>4, <1>7, <1>9, <1>10, PopBecomes
<1> QED
  BY <1>5, <1>11, ReturnIs

LEMMA emitPostLoopIs ==
  ASSUME NEW h, GenOK(h), NEW terminal \in BOOLEAN, h.at \in Opens(h) <=> ~terminal,
         h.ctx[h.cur].loop.again \in DOMAIN h.code
  PROVE  Becomes(h, emitPostLoop(h, terminal), h.ctx[h.cur].loop.again, Opens(h) \ {h.at})
<1> DEFINE post == h.ctx[h.cur].loop.again
<1>1. emitPostLoop(h, terminal) = SetInsertPoint(IF terminal THEN h ELSE Emit(h, Br(post)), post)
  BY DEF emitPostLoop
<1> QED
  BY <1>1, GoOnIs

\* The end of an iteration: what follows the body, then the block after the loop.
LEMMA IterationIs ==
  ASSUME NEW h, GenOK(h), NEW terminal \in BOOLEAN, h.at \in Opens(h) <=> ~terminal,
         NEW loop, h.ctx[h.cur].loop = loop, loop.end # loop.again,
         {loop.end, loop.again} \subseteq Opens(h) \ {h.at}
  PROVE  Becomes(h, emitEndWhile(Condition(emitPostLoop(h, terminal), "call"), FALSE),
                 loop.end, (Opens(h) \ {h.at}) \ {loop.again})
<1> DEFINE p == emitPostLoop(h, terminal)
           b == Condition(p, "call")
           O == Opens(h) \ {h.at}
<1>1. loop.end \in DOMAIN h.code /\ loop.again \in DOMAIN h.code
  BY OpensExist
<1>2. Becomes(h, p, loop.again, O)
  BY <1>1, emitPostLoopIs
<1> HIDE DEF p
<1>3. /\ GenOK(p) /\ p.at = loop.again /\ Opens(p) = O /\ p.cur = h.cur
      /\ DOMAIN h.code \subseteq DOMAIN p.code
  BY <1>2, BecomesFacts
<1>4. Emits(p, b)
  BY <1>3, ConditionIs DEF Ready
<1> HIDE DEF b
<1>5. Becomes(h, b, loop.again, O)
  BY <1>2, <1>4, ThenEmits
<1>6. /\ GenOK(b) /\ b.at = loop.again /\ Opens(b) = O /\ b.cur = h.cur
      /\ DOMAIN h.code \subseteq DOMAIN b.code
  BY <1>5, BecomesFacts
<1>7. b.ctx[b.cur].loop = loop
  <2>1. Goes(h, b, h.cur, {})
    BY <1>5, BecomesGoes
  <2>2. SameTree(h, b)
    BY <2>1, GoesTree
  <2>3. h.cur \in DOMAIN h.ctx
    BY DEF GenOK, ContextsOK
  <2> QED
    BY <1>6, <2>2, <2>3 DEF SameTree
<1> DEFINE l == emitEndWhile(b, FALSE)
<1>8. b.at \in Opens(b) <=> ~FALSE
  BY <1>6
<1>9. Becomes(b, l, loop.end, Opens(b) \ {b.at})
  BY <1>1, <1>6, <1>7, <1>8, emitEndWhileIs
<1> HIDE DEF l
<1>10. Becomes(h, l, loop.end, Opens(b) \ {b.at})
  BY <1>5, <1>9, BecomesTrans
<1> QED
  BY <1>6, <1>10 DEF l, b, p

LEMMA EndForIs ==
  ASSUME StmtInv, EndFor
  PROVE  StmtInv'
<1> DEFINE n == Len(stk)
           s == stk[n]
           B == Below(g, stk, n)
           h == Popped
           loop == h.ctx[h.cur].loop
           k == emitEndWhile(IF s.iter THEN Condition(emitPostLoop(h, result # 0), "call") ELSE h,
                             result # 0 /\ ~s.iter)
<1>1. phase = "end" /\ phase \in {"end", "else"} /\ phase \in {"end", "else", "catch"}
  BY DEF EndFor, Ended
<1>2. /\ GenOK(g) /\ Construct = s /\ ConstructOK(g, s)
      /\ Waiting(g, s) \cap B = {} /\ g.at \notin Waiting(g, s) \cup B
      /\ g.at \in Opens(g) <=> result = 0
      /\ Opens(g) \ {g.at} = Waiting(g, s) \cup B
      /\ Opens(g) \subseteq DOMAIN g.code
  BY <1>1, EndedIs
<1>3. s.k = "for"
  BY <1>2 DEF EndFor, Ended
<1>4. /\ GenOK(h) /\ h.cur = s.ctx /\ h.cur = Construct.ctx /\ h.at = g.at /\ h.code = g.code
      /\ h.ctx = g.ctx
      /\ Opens(h) = Opens(g) /\ \A d, F : Goes(g, h, d, F)
  BY <1>1, <1>2, PoppedIs
<1>5. Return(Front(stk), Leave(closeAllCleanups(k, k.cur)), 0)
  BY <1>2 DEF EndFor
<1> HIDE DEF h
<1>6. Waiting(g, s) = {loop.end} \cup (IF s.iter THEN {loop.again} ELSE {})
  BY <1>3, <1>4 DEF Waiting
<1>7. s.iter \in BOOLEAN /\ (s.iter => loop.end # loop.again)
  BY <1>2, <1>3, <1>4 DEF ConstructOK
<1>8. (result # 0) \in BOOLEAN /\ (h.at \in Opens(h) <=> ~(result # 0))
  BY <1>2, <1>4
<1> DEFINE O == {loop.end} \cup B
<1>9. loop.end \in O /\ O \ {loop.end} = B /\ loop.end \notin B
  BY <1>2, <1>6
<1>10. Becomes(h, k, loop.end, O)
  <2>1. CASE s.iter
    <3>1. k = emitEndWhile(Condition(emitPostLoop(h, result # 0), "call"), FALSE)
      BY <1>7, <2>1
    <3>2. Opens(h) \ {h.at} = {loop.end, loop.again} \cup B
      BY <1>2, <1>4, <1>6, <2>1
    <3>3. (Opens(h) \ {h.at}) \ {loop.again} = O
      BY <1>2, <1>6, <1>7, <2>1, <3>2
    <3> HIDE DEF k, loop, O
    <3>4. {loop.end, loop.again} \subseteq Opens(h) \ {h.at}
      BY <3>2
    <3>5. h.ctx[h.cur].loop = loop
      BY DEF loop
    <3> QED
      BY <1>4, <1>7, <1>8, <2>1, <3>1, <3>3, <3>4, <3>5, IterationIs
  <2>2. CASE ~s.iter
    <3>1. k = emitEndWhile(h, result # 0)
      BY <1>7, <2>2
    <3>2. Opens(h) \ {h.at} = O /\ loop.end \in DOMAIN h.code
      BY <1>2, <1>4, <1>6, <2>2
    <3> QED
      BY <1>4, <1>8, <3>1, <3>2, emitEndWhileIs
  <2> QED
    BY <2>1, <2>2
<1>11. Construct.k # "func"
  BY <1>2, <1>3
<1> DEFINE a == loop.end
<1> HIDE DEF k, O, a
<1>12. Becomes(h, k, a, O) /\ a \in O /\ O \ {a} = B /\ a \notin B
  BY <1>9, <1>10 DEF a
<1>13. Resumes(Leave(closeAllCleanups(k, k.cur)), Front(stk), 0)
  BY <1>1, <1>4, <1>11, <1>12, PopClosed
<1> QED
  BY <1>5, <1>13, ReturnIs

LEMMA EndTryIs ==
  ASSUME StmtInv, EndTry
  PROVE  StmtInv'
<1> DEFINE n == Len(stk)
           s == stk[n]
           B == Below(g, stk, n)
           k == emitEndTry(g, s.after, result # 0)
           nt == g.ctx[g.cur].nonTerminal \/ ~(result # 0)
<1>1. phase = "catch" /\ phase \in {"end", "else", "catch"} /\ phase \notin {"run", "error"}
  BY DEF EndTry
<1>2. /\ GenOK(g) /\ Construct = s /\ ConstructOK(g, s)
      /\ n \in Nat \ {0} /\ TopOK(g, stk, n)
      /\ PhaseOK(g, s, phase, result)
      /\ Waiting(g, s) \cap B = {} /\ g.at \notin Waiting(g, s) \cup B
      /\ g.at \in Opens(g) <=> result = 0
      /\ Opens(g) \ {g.at} = Waiting(g, s) \cup B
  BY <1>1, EndedIs
<1>3. /\ g.ctx[g.cur].clauses > 0
      /\ Return(Front(stk), Leave(k), s.all)
  BY <1>2 DEF EndTry
<1>4. g.cur = s.ctx /\ s.k = "catch" /\ (s.all = 0 <=> nt)
  BY <1>1, <1>2 DEF PhaseOK
<1>5. s.after # 0 /\ MaybeTarget(g, s.all)
  BY <1>2, <1>3, <1>4 DEF ConstructOK
<1>6. Waiting(g, s) = {s.after}
  BY <1>4, <1>5 DEF Waiting
<1>7. g.ctx[g.cur].parent \in DOMAIN g.ctx
  <2> HIDE DEF n
  <2>1. n # 1
    BY <1>2, <1>4 DEF TopOK
  <2>2. n > 1
    BY <1>2, <2>1
  <2> QED
    BY <1>2, <1>4, <2>2 DEF TopOK, NestedOK, Plain
<1>8. /\ s.after \in Opens(g) \ {g.at} /\ (result # 0) \in BOOLEAN
      /\ g.at \in Opens(g) <=> ~(result # 0)
  BY <1>2, <1>6
<1>9. /\ Goes(g, k, g.cur, {"nonTerminal"})
      /\ k.cur = g.cur
      /\ nt => k.at = s.after /\ Opens(k) = Opens(g) \ {g.at}
      /\ ~nt => k.at = g.at /\ Opens(k) = Opens(g) \ {s.after}
  <2> DEFINE after == s.after
             t == result # 0
  <2>1. /\ after \in Opens(g) \ {g.at} /\ t \in BOOLEAN
        /\ g.at \in Opens(g) <=> ~t
    BY <1>8
  <2>2. k = emitEndTry(g, after, t) /\ (nt <=> g.ctx[g.cur].nonTerminal \/ ~t)
    OBVIOUS
  <2> HIDE DEF after, t, k, nt
  <2>3. /\ Goes(g, k, g.cur, {"nonTerminal"})
        /\ k.cur = g.cur
        /\ nt => k.at = after /\ Opens(k) = Opens(g) \ {g.at}
        /\ ~nt => k.at = g.at /\ Opens(k) = Opens(g) \ {after}
    BY <1>2, <1>7, <2>1, <2>2, emitEndTryIs
  <2> QED
    BY <2>3 DEF after
<1> HIDE DEF k
<1>10. Opens(k) \ {k.at} = B /\ k.at \notin B /\ (k.at \in Opens(k) <=> s.all = 0)
  <2>1. CASE nt
    <3>1. k.at = s.after /\ Opens(k) = {s.after} \cup B
      BY <1>2, <1>6, <1>9, <2>1
    <3> QED
      BY <1>2, <1>4, <1>6, <2>1, <3>1
  <2>2. CASE ~nt
    <3>1. k.at = g.at /\ Opens(k) = B
      BY <1>2, <1>6, <1>9, <2>2
    <3> QED
      BY <1>2, <1>4, <2>2, <3>1
  <2> QED
    BY <2>1, <2>2
<1>11. Goes(g, k, Construct.ctx, {"clauses", "nonTerminal"})
  <2>1. {"nonTerminal"} \subseteq {"clauses", "nonTerminal"}
    OBVIOUS
  <2>2. g.cur = Construct.ctx
    BY <1>2, <1>4
  <2> QED
    BY <1>9, <2>1, <2>2, GoesWider
<1>12. Construct.k # "func" /\ k.cur = Construct.ctx
  BY <1>2, <1>4, <1>9
<1>13. Resumes(Leave(k), Front(stk), s.all)
  BY <1>1, <1>5, <1>10, <1>11, <1>12, PopIs
<1> QED
  BY <1>3, <1>13, ReturnIs

-----------------------------------------------------------------------------
(* The start of a construct.                                               *)

\* A context in the current one, where the construct will be.
Begun(h) ==
  /\ Ready(h)
  /\ Goes(g, h, g.cur, {})
  /\ h.cur \in DOMAIN h.ctx \ DOMAIN g.ctx
  /\ h.ctx[h.cur].parent = g.cur

LEMMA ClauseIs ==
  ASSUME StmtInv, phase = "stmt", ~g.ctx[g.cur].terminal, NEW h, Begun(h),
         NEW r, ConstructOK(h, r), r.ctx = h.cur, r.term = 0, r.k \notin {"func", "catch"},
         Opens(h) \ {h.at} = (Opens(g) \ {g.at}) \cup Waiting(h, r),
         Waiting(h, r) \cap DOMAIN g.code = {},
         h.at = g.at \/ h.at \notin DOMAIN g.code, h.at \notin Waiting(h, r),
         NEW k, k = createSubContext(h, h.cur), NEW t, t = Append(stk, r)
  PROVE  GenOK(k) /\ Parsing(k, t, "stmt", 0)
<1> DEFINE n == Len(stk)
           s == stk[n]
           N == n + 1
           R == Opens(g) \ {g.at}
<1>1. phase \notin {"run", "error"}
  OBVIOUS
<1>2. /\ GenOK(g) /\ Framed(g) /\ IsSeq(stk) /\ n \in Nat \ {0} /\ DOMAIN stk = 1 .. n
      /\ BelowOK(g, stk, n) /\ TopOK(g, stk, n)
      /\ OpenOK(g, stk, n, Live(g, phase, result))
      /\ PhaseOK(g, s, phase, result) /\ g.cur \in DOMAIN g.ctx
  BY <1>1, ParsingIs
<1>3. s.term = 0
  BY ReadsIs
<1>4. /\ IsSeq(t) /\ Len(t) = N /\ t[N] = r /\ \A i \in 1 .. n : t[i] = stk[i]
  BY <1>2, AppendIs
<1> HIDE DEF n
<1>5. Nested(h, k, h.cur)
  BY createSubContextIs DEF Begun, Ready
<1>6. Goes(h, k, g.cur, {})
  BY <1>5, NestedGoes
<1>7. Goes(g, k, g.cur, {})
  BY <1>6, GoesTrans DEF Begun
<1>8. Unseen(g, k, stk, n)
  BY <1>2, <1>7, StackUnseen
<1>9. /\ Waiting(g, s) \cap Below(g, stk, n) = {}
      /\ R = Waiting(g, s) \cup Below(g, stk, n)
  BY <1>2 DEF OpenOK
<1>10. Plain(g, g.cur) /\ g.ctx[g.cur].parent = s.ctx /\ (s.k = "catch" => Through(g, s))
  BY <1>2 DEF PhaseOK
<1>11. /\ BelowOK(k, stk, n) /\ TopOK(k, stk, n)
       /\ s.k = "catch" => Through(k, s)
       /\ Waiting(k, s) \cap Below(k, stk, n) = {}
       /\ R = Waiting(k, s) \cup Below(k, stk, n)
  BY <1>8, <1>9, <1>10 DEF Unseen
<1>12. BelowOK(k, stk, N) /\ Below(k, stk, N) = R
  BY <1>2, <1>11, BelowPush
<1>13. N \in Nat \ {0} /\ N - 1 = n /\ n \in 1 .. (N - 1) /\ N > 1 /\ N # 1
  BY <1>2
<1> HIDE DEF N
<1>14. BelowOK(k, t, N) /\ Below(k, t, N) = R
  <2>1. Keeps(k, k, stk, t, N - 1)
    BY <1>4, <1>13 DEF Keeps, SameTree, SameClauses, SameTerminal
  <2> QED
    BY <1>12, <1>13, <2>1, BelowKept
<1>15. SameTree(h, k) /\ SameTree(g, k) /\ SameTerminal(g, k, g.cur)
  BY <1>2, <1>6, <1>7, GoesTree
<1>16. ConstructOK(k, r) /\ Waiting(k, r) = Waiting(h, r)
  <2>1. SameClauses(h, k, r.ctx)
    BY <1>5 DEF Nested, SameClauses, Begun
  <2> QED
    BY <1>15, <2>1, ConstructKept
<1>17. NestedOK(k, r, t[n])
  <2>1. k.ctx[r.ctx].parent = g.cur
    BY <1>15 DEF SameTree, Begun
  <2>2. Plain(k, g.cur)
    BY <1>10, <1>15, PlainKept
  <2>3. k.ctx[g.cur].parent = s.ctx /\ ~k.ctx[g.cur].terminal
    BY <1>2, <1>10, <1>15 DEF SameTree, SameTerminal
  <2>4. Outside \in DOMAIN g.ctx
    BY <1>2 DEF GenOK, ContextsOK
  <2>5. t[n] = s
    BY <1>4, <1>13
  <2> QED
    BY <1>3, <2>1, <2>2, <2>3, <2>4, <2>5 DEF NestedOK, Begun
<1>18. TopOK(k, t, N)
  <2>1. \A i \in 1 .. (N - 1) : t[i].ctx # r.ctx
    <3>1. \A i \in 1 .. n : stk[i].ctx \in DOMAIN g.ctx
      <4>1. 1 .. n = (1 .. (n - 1)) \cup {n}
        BY <1>2
      <4> QED
        BY <1>2, <4>1 DEF BelowOK, TopOK, ConstructOK
    <3> QED
      BY <1>4, <1>13, <3>1 DEF Begun
  <2> QED
    BY <1>4, <1>13, <1>16, <1>17, <2>1 DEF TopOK
<1>19. /\ GenOK(k) /\ k.at = h.at /\ Opens(k) = Opens(h)
       /\ k.cur \notin DOMAIN h.ctx /\ k.cur \in DOMAIN k.ctx
       /\ k.ctx[k.cur].parent = r.ctx /\ k.ctx[k.cur].loop = NoLoop
       /\ k.ctx[k.cur].body = 0 /\ ~k.ctx[k.cur].terminal
  BY <1>5 DEF Nested
<1>20. OpenOK(k, t, N, TRUE)
  <2>1. R \subseteq DOMAIN g.code /\ g.at \notin R
    BY DEF Opens
  <2>2. h.at \in Opens(h)
    BY DEF Begun, Ready
  <2>3. Waiting(h, r) \cap R = {} /\ h.at \notin Waiting(h, r) \cup R
    BY <2>1
  <2>4. Opens(h) \ {h.at} = Waiting(h, r) \cup R
    OBVIOUS
  <2> HIDE DEF R
  <2> QED
    BY <1>4, <1>14, <1>16, <1>19, <2>2, <2>3, <2>4 DEF OpenOK
<1>21. PhaseOK(k, t[N], "stmt", 0)
  <2>1. Outside \in DOMAIN h.ctx
    BY DEF Begun, Ready, GenOK, ContextsOK
  <2>2. Plain(k, k.cur)
    BY <1>19, <2>1 DEF Plain
  <2> QED
    BY <1>4, <1>19, <2>2 DEF PhaseOK
<1>22. Framed(k)
  BY <1>2, <1>7, GoesFramed
<1>23. Live(k, "stmt", 0) = TRUE
  BY <1>19 DEF Live
<1>24. MaybeTarget(k, t[N].term) /\ MaybeTarget(k, 0)
  BY <1>4 DEF MaybeTarget
<1>25. t # <<>>
  BY <1>4, <1>13, SeqFacts
<1> QED
  BY <1>4, <1>14, <1>18, <1>19, <1>20, <1>21, <1>22, <1>23, <1>24, <1>25 DEF Parsing

\* More code for the construct.
LEMMA BegunBecomes ==
  ASSUME NEW h, Begun(h), NEW k, NEW a, NEW O, Becomes(h, k, a, O), a \in O
  PROVE  /\ Begun(k) /\ k.at = a /\ Opens(k) = O /\ k.cur = h.cur
         /\ DOMAIN h.code \subseteq DOMAIN k.code
         /\ k.ctx[h.cur].loop = h.ctx[h.cur].loop
<1>1. GenOK(h)
  BY DEF Begun, Ready
<1>2. /\ GenOK(k) /\ k.at = a /\ Opens(k) = O /\ k.cur = h.cur
      /\ DOMAIN k.ctx = DOMAIN h.ctx /\ DOMAIN h.code \subseteq DOMAIN k.code
  BY <1>1, BecomesFacts
<1>3. Goes(h, k, g.cur, {})
  BY <1>1, BecomesGoes
<1>4. Goes(g, k, g.cur, {})
  BY <1>3, GoesTrans DEF Begun
<1>5. SameTree(h, k)
  BY <1>3, GoesTree
<1>6. k.ctx[h.cur].parent = h.ctx[h.cur].parent /\ k.ctx[h.cur].loop = h.ctx[h.cur].loop
  BY <1>5 DEF SameTree, Begun
<1> QED
  BY <1>2, <1>4, <1>6 DEF Begun, Ready

LEMMA BegunEmits ==
  ASSUME NEW h, Begun(h), NEW k, Emits(h, k)
  PROVE  /\ Begun(k) /\ k.at = h.at /\ Opens(k) = Opens(h) /\ k.cur = h.cur
         /\ DOMAIN h.code \subseteq DOMAIN k.code
         /\ k.ctx[h.cur].loop = h.ctx[h.cur].loop
  BY BegunBecomes DEF Emits, Begun, Ready

\* A new context in the current one.
LEMMA BeginsIs ==
  ASSUME StmtInv, phase = "stmt", ~g.ctx[g.cur].terminal
  PROVE  LET h == createSubContext(g, g.cur)
         IN  /\ Begun(h) /\ Frames(h) # <<>> /\ h.at = g.at /\ Opens(h) = Opens(g)
             /\ DOMAIN g.code \subseteq DOMAIN h.code
<1> DEFINE h == createSubContext(g, g.cur)
<1>1. Ready(g) /\ GenOK(g) /\ g.cur \in DOMAIN g.ctx
  BY ReadsIs DEF Ready
<1>2. Nested(g, h, g.cur)
  BY <1>1, createSubContextIs
<1> HIDE DEF h
<1>3. Goes(g, h, g.cur, {})
  BY <1>2, NestedGoes
<1>4. /\ GenOK(h) /\ h.at = g.at /\ h.code = g.code /\ Opens(h) = Opens(g)
      /\ h.cur \in DOMAIN h.ctx \ DOMAIN g.ctx
      /\ h.ctx[h.cur].parent = g.cur /\ h.ctx[h.cur].frames # <<>>
  BY <1>2 DEF Nested
<1> QED
  BY <1>1, <1>3, <1>4 DEF Begun, Ready, Frames, h

\* A condition may define a variable.
LEMMA DefinesIs ==
  ASSUME StmtInv, phase = "stmt", ~g.ctx[g.cur].terminal, NEW cond
  PROVE  LET h == Defines(createSubContext(g, g.cur), cond)
         IN  /\ Begun(h) /\ h.at = g.at /\ Opens(h) = Opens(g)
             /\ DOMAIN g.code \subseteq DOMAIN h.code
<1> DEFINE b == createSubContext(g, g.cur)
           h == Defines(b, cond)
<1>1. /\ Begun(b) /\ Frames(b) # <<>> /\ b.at = g.at /\ Opens(b) = Opens(g)
      /\ DOMAIN g.code \subseteq DOMAIN b.code
  BY BeginsIs
<1> HIDE DEF b
<1>2. CASE cond = "define"
  <2>1. Emits(b, emitVarDef(b, "value"))
    BY <1>1, emitVarDefIs DEF Begun
  <2>2. h = emitVarDef(b, "value")
    BY <1>2 DEF Defines
  <2> HIDE DEF h
  <2>3. /\ Begun(h) /\ h.at = b.at /\ Opens(h) = Opens(b) /\ DOMAIN b.code \subseteq DOMAIN h.code
    BY <1>1, <2>1, <2>2, BegunEmits
  <2> QED
    BY <1>1, <2>3 DEF h, b
<1>3. CASE cond # "define"
  BY <1>1, <1>3 DEF Defines, b
<1> QED
  BY <1>2, <1>3

LEMMA IfStmtIs ==
  ASSUME StmtInv, NEW cond, NEW braces, IfStmt(cond, braces)
  PROVE  StmtInv'
<1> DEFINE h == Defines(createSubContext(g, g.cur), cond)
           t == NextBlock(h)
           k == emitIf(h, cond)
           open == [k |-> "then", ctx |-> 0, braces |-> braces, term |-> 0, block |-> t + 1]
           r == [open EXCEPT !.ctx = k.cur]
           O == (Opens(h) \ {h.at}) \cup {t, t + 1}
<1>1. phase = "stmt" /\ ~g.ctx[g.cur].terminal /\ Clause(open, k)
  BY DEF IfStmt, Reads
<1>2. /\ Begun(h) /\ h.at = g.at /\ Opens(h) = Opens(g)
      /\ DOMAIN g.code \subseteq DOMAIN h.code
  BY <1>1, DefinesIs
<1>3. g' = createSubContext(k, k.cur) /\ stk' = Append(stk, r) /\ phase' = "stmt" /\ result' = 0
  BY <1>1 DEF Clause
<1> HIDE DEF h
<1>4. /\ t \in Nat \ {0} /\ t \notin DOMAIN h.code /\ t + 1 \notin DOMAIN h.code
      /\ Becomes(h, k, t, O)
  BY <1>2, emitIfIs DEF Begun
<1> HIDE DEF k, t
<1>5. /\ Begun(k) /\ k.at = t /\ Opens(k) = O
      /\ DOMAIN h.code \subseteq DOMAIN k.code
  BY <1>2, <1>4, BegunBecomes
<1>6. /\ r.k = "then" /\ r.ctx = k.cur /\ r.term = 0 /\ r.block = t + 1
      /\ DOMAIN r = {"k", "ctx", "braces", "term", "block"}
  OBVIOUS
<1> HIDE DEF r
<1>7. t + 1 # 0 /\ t + 1 # t
  BY <1>4
<1>8. ConstructOK(k, r) /\ Waiting(k, r) = {t + 1} /\ r.k \notin {"func", "catch"}
  BY <1>5, <1>6, <1>7 DEF ConstructOK, Shape, Waiting, Begun
<1>9. /\ Opens(k) \ {k.at} = (Opens(g) \ {g.at}) \cup Waiting(k, r)
      /\ Waiting(k, r) \cap DOMAIN g.code = {}
      /\ k.at \notin DOMAIN g.code /\ k.at \notin Waiting(k, r)
  <2>1. Opens(g) \subseteq DOMAIN g.code
    BY DEF Opens
  <2> QED
    BY <1>2, <1>4, <1>5, <1>7, <1>8, <2>1
<1>10. GenOK(g') /\ Parsing(g', stk', "stmt", 0)
  BY <1>1, <1>3, <1>5, <1>6, <1>8, <1>9, ClauseIs
<1> QED
  BY <1>3, <1>10 DEF StmtInv

\* The head of a loop, with the branchpoint in the current context.
LEMMA emitBeginWhileIs ==
  ASSUME NEW h, Begun(h), NEW cond, NEW gotPost \in BOOLEAN
  PROVE  LET end == NextBlock(h)
             body == IF gotPost THEN end + 3 ELSE end + 2
             k == emitBeginWhile(h, cond, gotPost)
             loop == [end |-> end, again |-> IF gotPost THEN end + 2 ELSE end + 1, ctx |-> h.cur]
         IN  /\ Begun(k) /\ k.cur = h.cur /\ k.at = body
             /\ end \in Nat \ {0} /\ (end .. body) \cap DOMAIN h.code = {}
             /\ Opens(k) = ((Opens(h) \ {h.at}) \cup (end .. body)) \ {end + 1}
             /\ k.ctx[k.cur].loop = loop
<1> DEFINE end == NextBlock(h)
           n == IF gotPost THEN 4 ELSE 3
           body == IF gotPost THEN end + 3 ELSE end + 2
           loop == [end |-> end, again |-> IF gotPost THEN end + 2 ELSE end + 1, ctx |-> h.cur]
           a == SetInsertPoint(Emit(AddBlocks(h, n), Br(end + 1)), end + 1)
           b == SetInsertPoint(CondBr(Condition(a, cond), body, end), body)
           O == ((Opens(h) \ {h.at}) \cup (end .. body)) \ {end + 1}
           k == emitBeginWhile(h, cond, gotPost)
           l == WithCtx(b, h.cur, "loop", loop)
<1>1. Ready(h) /\ GenOK(h) /\ h.cur \in DOMAIN h.ctx
  BY DEF Begun, Ready
<1>2. end \in Nat \ {0}
  BY <1>1, NewBlocks
<1>3. n \in {3, 4} /\ body = end + (n - 1) /\ (body + 1) - end = n
  BY <1>2
<1>4. k = l
  <2>1. k = [b EXCEPT !.ctx[h.cur].loop = loop]
    <3> DEFINE N == body + 1 - end
    <3>1. N = n
      BY <1>2, <1>3
    <3>2. k = [SetInsertPoint(CondBr(Condition(SetInsertPoint(Emit(AddBlocks(h, N), Br(end + 1)),
                                                              end + 1), cond), body, end), body)
                 EXCEPT !.ctx[h.cur].loop = loop]
      BY DEF emitBeginWhile
    <3> HIDE DEF N, n
    <3> QED
      BY <3>1, <3>2
  <2> HIDE DEF b, loop
  <2> QED
    BY <2>1 DEF WithCtx
<1>5. (end .. body) \cap DOMAIN h.code = {} /\ Becomes(h, b, body, O)
  <2> HIDE DEF n
  <2> QED
    BY <1>1, <1>3, LoopHeadIs
<1> HIDE DEF a, b, end, k, l, n
<1>6. body \in O /\ end # 0
  BY <1>2
<1> HIDE DEF O
<1>7. Begun(b) /\ b.at = body /\ Opens(b) = O /\ b.cur = h.cur
  BY <1>5, <1>6, BegunBecomes
<1>8. CtxSet(b, l, h.cur, "loop", loop)
  <2>1. MaySet(b, h.cur, "loop", loop)
    BY DEF MaySet, CtxFields, Decides
  <2>2. GenOK(b) /\ h.cur \in DOMAIN b.ctx
    BY <1>7 DEF Begun, Ready
  <2> HIDE DEF loop
  <2> QED
    BY <2>1, <2>2, CtxSetIs DEF l
<1> HIDE DEF loop
<1>9. GenOK(l) /\ l.cur = h.cur /\ l.at = body /\ Opens(l) = O /\ DOMAIN l.ctx = DOMAIN b.ctx
  BY <1>7, <1>8 DEF CtxSet
<1>10. l.ctx[h.cur].loop = loop
  BY <1>8 DEF CtxSet
<1>11. l.ctx[h.cur].parent = g.cur
  <2>1. "parent" \in CtxFields
    BY DEF CtxFields, Decides
  <2> QED
    BY <1>7, <1>8, <2>1 DEF CtxSet, Begun
<1>12. Goes(g, l, g.cur, {})
  <2>1. h.cur \notin DOMAIN g.ctx /\ Goes(g, b, g.cur, {}) /\ "loop" # "frames"
    BY <1>7 DEF Begun
  <2> QED
    BY <1>8, <2>1, NewCtxGoes
<1>13. Begun(l)
  BY <1>6, <1>7, <1>9, <1>11, <1>12 DEF Begun, Ready
<1> QED
  BY <1>2, <1>4, <1>5, <1>9, <1>10, <1>13 DEF O, end, loop, k

\* The head of a loop is from h to k.
LoopHead(h, k, end, post, body) ==
  /\ end \in Nat \ {0}
  /\ body = IF post THEN end + 3 ELSE end + 2
  /\ (end .. body) \cap DOMAIN h.code = {}
  /\ k.at = body
  /\ Opens(k) = ((Opens(h) \ {h.at}) \cup (end .. body)) \ {end + 1}
  /\ k.ctx[k.cur].loop.end = end
  /\ post => k.ctx[k.cur].loop.again = end + 2

\* What the parser has of the loop.
LoopOf(r, k, post) ==
  /\ Shape(r) /\ r.ctx = k.cur /\ r.term = 0
  /\ r.k \in {"while", "for"}
  /\ r.k = "for" => r.iter = post
  /\ r.k = "while" => post = FALSE

LEMMA LoopClauseIs ==
  ASSUME StmtInv, phase = "stmt", ~g.ctx[g.cur].terminal,
         NEW h, Begun(h), h.at = g.at, Opens(h) = Opens(g), DOMAIN g.code \subseteq DOMAIN h.code,
         NEW k, Begun(k), NEW post \in BOOLEAN,
         NEW end, NEW body, LoopHead(h, k, end, post, body), NEW r, LoopOf(r, k, post),
         NEW l, l = createSubContext(k, k.cur), NEW t, t = Append(stk, r)
  PROVE  GenOK(l) /\ Parsing(l, t, "stmt", 0)
<1> DEFINE R == Opens(g) \ {g.at}
           W == IF post THEN {end, end + 2} ELSE {end}
           loop == k.ctx[k.cur].loop
<1>0. /\ end \in Nat \ {0} /\ body = IF post THEN end + 3 ELSE end + 2
      /\ (end .. body) \cap DOMAIN h.code = {}
      /\ k.at = body /\ Opens(k) = ((Opens(h) \ {h.at}) \cup (end .. body)) \ {end + 1}
      /\ loop.end = end /\ (post => loop.again = end + 2)
      /\ Shape(r) /\ r.ctx = k.cur /\ r.term = 0 /\ (r.k = "while" \/ r.k = "for")
      /\ (r.k = "for" => r.iter = post) /\ (r.k = "while" => post = FALSE)
  BY DEF LoopHead, LoopOf
<1>1. Opens(g) \subseteq DOMAIN g.code
  BY DEF Opens
<1>2. end .. body = IF post THEN {end, end + 1, end + 2, end + 3} ELSE {end, end + 1, end + 2}
  <2>1. CASE post = TRUE
    <3>1. body = end + 3
      BY <1>0, <2>1
    <3>2. \A i \in end .. (end + 3) : i \in {end, end + 1, end + 2, end + 3}
      BY <1>0
    <3>3. {end, end + 1, end + 2, end + 3} \subseteq end .. (end + 3)
      BY <1>0
    <3> QED
      BY <2>1, <3>1, <3>2, <3>3
  <2>2. CASE post = FALSE
    <3>1. body = end + 2
      BY <1>0, <2>2
    <3>2. \A i \in end .. (end + 2) : i \in {end, end + 1, end + 2}
      BY <1>0
    <3>3. {end, end + 1, end + 2} \subseteq end .. (end + 2)
      BY <1>0
    <3> QED
      BY <2>2, <3>1, <3>2, <3>3
  <2> QED
    BY <2>1, <2>2
<1>3. body \in end .. body /\ body # end /\ W \subseteq end .. body /\ body \notin W
  BY <1>0
<1>4. Waiting(k, r) = W
  BY <1>0 DEF Waiting
<1>5. loop # NoLoop
  BY <1>0 DEF NoLoop
<1>6. ConstructOK(k, r) /\ r.k \notin {"func", "catch"}
  <2>1. post => end # end + 2
    BY <1>0
  <2> QED
    BY <1>0, <1>5, <2>1 DEF ConstructOK, Begun
<1>7. (end .. body) \ {body, end + 1} = W
  BY <1>0, <1>2
<1>8. R \cap (end .. body) = {}
  BY <1>0, <1>1
<1>9. end + 1 \in end .. body
  BY <1>0
<1> HIDE DEF W
<1>10. Opens(k) \ {k.at} = R \cup W
  BY <1>0, <1>3, <1>7, <1>8, <1>9
<1>11. W \cap DOMAIN g.code = {} /\ k.at \notin DOMAIN g.code /\ k.at \notin W
  BY <1>0, <1>3
<1> QED
  BY <1>0, <1>4, <1>6, <1>10, <1>11, ClauseIs

LEMMA WhileStmtIs ==
  ASSUME StmtInv, NEW cond, NEW braces, WhileStmt(cond, braces)
  PROVE  StmtInv'
<1> DEFINE h == Defines(createSubContext(g, g.cur), cond)
           end == NextBlock(h)
           body == end + 2
           loop == [end |-> end, again |-> end + 1, ctx |-> h.cur]
           k == emitBeginWhile(h, cond, FALSE)
           open == [k |-> "while", ctx |-> 0, braces |-> braces, term |-> 0]
           r == [open EXCEPT !.ctx = k.cur]
<1>1. phase = "stmt" /\ ~g.ctx[g.cur].terminal /\ Clause(open, k)
  BY DEF WhileStmt, Reads
<1>2. /\ Begun(h) /\ h.at = g.at /\ Opens(h) = Opens(g)
      /\ DOMAIN g.code \subseteq DOMAIN h.code
  BY <1>1, DefinesIs
<1>3. g' = createSubContext(k, k.cur) /\ stk' = Append(stk, r) /\ phase' = "stmt" /\ result' = 0
  BY <1>1 DEF Clause
<1> HIDE DEF h
<1>4. /\ Begun(k) /\ k.at = body /\ end \in Nat \ {0} /\ (end .. body) \cap DOMAIN h.code = {}
      /\ Opens(k) = ((Opens(h) \ {h.at}) \cup (end .. body)) \ {end + 1}
      /\ k.ctx[k.cur].loop = loop
  BY <1>2, emitBeginWhileIs
<1> HIDE DEF k
<1>5. r.k = "while" /\ r.ctx = k.cur /\ r.term = 0 /\ Shape(r)
  BY DEF Shape
<1>6. loop.end = end
  OBVIOUS
<1>7. body = IF FALSE THEN end + 3 ELSE end + 2
  OBVIOUS
<1> HIDE DEF r, end, body, loop
<1>8. GenOK(g') /\ Parsing(g', stk', "stmt", 0)
  <2>1. LoopHead(h, k, end, FALSE, body)
    BY <1>2, <1>4, <1>6, <1>7 DEF LoopHead
  <2>2. LoopOf(r, k, FALSE)
    BY <1>5 DEF LoopOf
  <2> QED
    BY <1>1, <1>2, <1>3, <1>4, <2>1, <2>2, LoopClauseIs
<1> QED
  BY <1>3, <1>8 DEF StmtInv

LEMMA ForStmtIs ==
  ASSUME StmtInv, NEW iter \in BOOLEAN, NEW braces, ForStmt(iter, braces)
  PROVE  StmtInv'
<1> DEFINE b == createSubContext(g, g.cur)
           h == IF iter THEN emitVarDef(emitVarDef(b, "call"), "value") ELSE b
           end == NextBlock(h)
           body == IF iter THEN end + 3 ELSE end + 2
           loop == [end |-> end, again |-> IF iter THEN end + 2 ELSE end + 1, ctx |-> h.cur]
           p == emitBeginWhile(h, IF iter THEN "call" ELSE "plain", iter)
           k == IF iter THEN Condition(p, "call") ELSE p
           open == [k |-> "for", ctx |-> 0, braces |-> braces, term |-> 0, iter |-> iter]
           r == [open EXCEPT !.ctx = k.cur]
<1>1. phase = "stmt" /\ ~g.ctx[g.cur].terminal
  BY DEF ForStmt, Reads
<1>2. Clause(open, k)
  <2>1. CASE iter = TRUE
    BY <2>1 DEF ForStmt
  <2>2. CASE iter = FALSE
    BY <2>2 DEF ForStmt
  <2> QED
    BY <2>1, <2>2
<1>3. /\ Begun(b) /\ Frames(b) # <<>> /\ b.at = g.at /\ Opens(b) = Opens(g)
      /\ DOMAIN g.code \subseteq DOMAIN b.code
  BY <1>1, BeginsIs
<1>4. g' = createSubContext(k, k.cur) /\ stk' = Append(stk, r) /\ phase' = "stmt" /\ result' = 0
  BY <1>2 DEF Clause
<1> HIDE DEF b
<1>5. /\ Begun(h) /\ h.at = g.at /\ Opens(h) = Opens(g)
      /\ DOMAIN g.code \subseteq DOMAIN h.code
  <2>1. CASE iter
    <3> DEFINE c == emitVarDef(b, "call")
               d == emitVarDef(c, "value")
    <3>1. Emits(b, c)
      BY <1>3, emitVarDefIs DEF Begun
    <3> HIDE DEF c
    <3>2. Begun(c) /\ c.at = b.at /\ Opens(c) = Opens(b) /\ DOMAIN b.code \subseteq DOMAIN c.code
      BY <1>3, <3>1, BegunEmits
    <3>3. Frames(c) # <<>>
      BY <1>3, <3>1, BecomesFacts DEF Emits, Begun, Ready
    <3>4. Emits(c, d)
      BY <3>2, <3>3, emitVarDefIs DEF Begun
    <3> HIDE DEF d
    <3>5. Begun(d) /\ d.at = c.at /\ Opens(d) = Opens(c) /\ DOMAIN c.code \subseteq DOMAIN d.code
      BY <3>2, <3>4, BegunEmits
    <3>6. h = d
      BY <2>1 DEF c, d
    <3> QED
      BY <1>3, <3>2, <3>5, <3>6
  <2>2. CASE ~iter
    BY <1>3, <2>2
  <2> QED
    BY <2>1, <2>2
<1> HIDE DEF h
<1>6. /\ Begun(p) /\ p.at = body /\ end \in Nat \ {0} /\ (end .. body) \cap DOMAIN h.code = {}
      /\ Opens(p) = ((Opens(h) \ {h.at}) \cup (end .. body)) \ {end + 1}
      /\ p.ctx[p.cur].loop = loop
  BY <1>5, emitBeginWhileIs
<1> HIDE DEF p
<1>7. Begun(k) /\ k.at = p.at /\ Opens(k) = Opens(p) /\ k.ctx[k.cur].loop = p.ctx[p.cur].loop
  <2>1. CASE iter
    <3>1. Emits(p, Condition(p, "call"))
      BY <1>6, ConditionIs DEF Begun
    <3> QED
      BY <1>6, <2>1, <3>1, BegunEmits
  <2>2. CASE ~iter
    BY <1>6, <2>2
  <2> QED
    BY <2>1, <2>2
<1> HIDE DEF k
<1>8. r.k = "for" /\ r.ctx = k.cur /\ r.term = 0 /\ r.iter = iter /\ Shape(r)
  BY DEF Shape
<1>9. loop.end = end /\ (iter => loop.again = end + 2) /\ body = IF iter THEN end + 3 ELSE end + 2
  OBVIOUS
<1> HIDE DEF r, end, body, loop
<1>10. /\ k.at = body /\ k.ctx[k.cur].loop = loop
       /\ Opens(k) = ((Opens(h) \ {h.at}) \cup (end .. body)) \ {end + 1}
  BY <1>6, <1>7
<1>11. GenOK(g') /\ Parsing(g', stk', "stmt", 0)
  <2>1. LoopHead(h, k, end, iter, body)
    BY <1>6, <1>9, <1>10 DEF LoopHead
  <2>2. LoopOf(r, k, iter)
    BY <1>8 DEF LoopOf
  <2> QED
    BY <1>1, <1>4, <1>5, <1>7, <2>1, <2>2, LoopClauseIs
<1> QED
  BY <1>4, <1>11 DEF StmtInv

LEMMA TryStmtIs ==
  ASSUME StmtInv, TryStmt
  PROVE  StmtInv'
<1> DEFINE b == emitBeginTry(g)
           h == createSubContext(b, g.cur)
           c == h.cur
           x == Len(h.ctx) + 1
           z == NextBlock(g)
           i == WithCtx(h, c, "body", x)
           k == WithCtx(i, c, "catch", z)
           open == [k |-> "try", ctx |-> 0, braces |-> TRUE, term |-> 0, switch |-> z]
           r == [open EXCEPT !.ctx = k.cur]
<1>1. phase = "stmt" /\ ~g.ctx[g.cur].terminal
  BY DEF TryStmt, Reads
<1>2. k = [h EXCEPT !.ctx[h.cur].body = x, !.ctx[h.cur].catch = z]
  <2> HIDE DEF h, x, z
  <2> QED
    BY DEF WithCtx
<1>3. Clause(open, k)
  BY <1>2, Zenon DEF TryStmt
<1>4. g' = createSubContext(k, k.cur) /\ stk' = Append(stk, r) /\ phase' = "stmt" /\ result' = 0
  BY <1>3 DEF Clause
<1>5. Ready(g) /\ GenOK(g) /\ g.cur \in DOMAIN g.ctx
  BY <1>1, ReadsIs DEF Ready
<1>6. /\ z \in Nat \ {0} /\ z \notin DOMAIN g.code
      /\ Becomes(g, b, g.at, Opens(g) \cup {z})
  <2>1. Open(<<>>)
    BY DEF Open, IsSeq, Range
  <2> QED
    BY <1>5, <2>1, AddBlockIs DEF emitBeginTry
<1> HIDE DEF b, z
<1>7. /\ GenOK(b) /\ b.at = g.at /\ Opens(b) = Opens(g) \cup {z} /\ DOMAIN b.ctx = DOMAIN g.ctx
  BY <1>5, <1>6, BecomesFacts
<1>8. Goes(g, b, g.cur, {})
  BY <1>5, <1>6, BecomesGoes
<1>9. Nested(b, h, g.cur)
  BY <1>5, <1>7, createSubContextIs
<1> HIDE DEF h
<1>10. /\ GenOK(h) /\ h.at = g.at /\ Opens(h) = Opens(g) \cup {z}
       /\ c \in DOMAIN h.ctx \ DOMAIN g.ctx
       /\ h.ctx[c].parent = g.cur /\ h.ctx[c].clauses = 0 /\ ~h.ctx[c].nonTerminal
  BY <1>7, <1>9 DEF Nested
<1>11. Goes(g, h, g.cur, {})
  <2>1. Goes(b, h, g.cur, {})
    BY <1>9, NestedGoes
  <2> QED
    BY <1>8, <2>1, GoesTrans
<1>12. x # 0
  BY <1>10, Seqs, SeqFacts
<1> HIDE DEF c, x
<1>13. CtxSet(h, i, c, "body", x)
  <2>1. MaySet(h, c, "body", x)
    BY <1>12 DEF MaySet, CtxFields, Decides
  <2> QED
    BY <1>10, <2>1, CtxSetIs
<1> HIDE DEF i
<1>14. CtxSet(i, k, c, "catch", z)
  <2>1. GenOK(i) /\ c \in DOMAIN i.ctx /\ i.ctx[c].body = x
    BY <1>10, <1>13 DEF CtxSet
  <2>2. MaySet(i, c, "catch", z)
    BY <1>12, <2>1 DEF MaySet, CtxFields, Decides
  <2> QED
    BY <2>1, <2>2, CtxSetIs
<1> HIDE DEF k
<1>15. /\ GenOK(k) /\ k.at = g.at /\ Opens(k) = Opens(g) \cup {z} /\ k.cur = h.cur
       /\ DOMAIN k.ctx = DOMAIN h.ctx
  BY <1>10, <1>13, <1>14 DEF CtxSet
<1>16. k.ctx[c].parent = g.cur /\ k.ctx[c].clauses = 0 /\ ~k.ctx[c].nonTerminal
  <2>1. {"parent", "clauses", "nonTerminal"} \subseteq CtxFields
    BY DEF CtxFields, Decides
  <2>2. i.ctx[c].parent = g.cur /\ i.ctx[c].clauses = 0 /\ ~i.ctx[c].nonTerminal
    BY <1>10, <1>13, <2>1 DEF CtxSet
  <2>3. c \in DOMAIN i.ctx
    BY <1>10, <1>13 DEF CtxSet
  <2> QED
    BY <1>14, <2>1, <2>2, <2>3 DEF CtxSet
<1>17. Goes(g, k, g.cur, {})
  <2>1. Goes(g, i, g.cur, {})
    BY <1>10, <1>11, <1>13, NewCtxGoes
  <2> QED
    BY <1>10, <1>14, <2>1, NewCtxGoes
<1>18. c = k.cur
  BY <1>15 DEF c
<1>19. Begun(k)
  BY <1>5, <1>10, <1>15, <1>16, <1>17, <1>18 DEF Begun, Ready
<1>20. r.k = "try" /\ r.ctx = k.cur /\ r.term = 0 /\ r.switch = z /\ Shape(r)
  BY DEF Shape
<1> HIDE DEF r
<1>21. ConstructOK(k, r) /\ Waiting(k, r) = {z} /\ r.k \notin {"func", "catch"}
  BY <1>6, <1>10, <1>15, <1>16, <1>18, <1>20 DEF ConstructOK, Waiting
<1>22. /\ Opens(k) \ {k.at} = (Opens(g) \ {g.at}) \cup Waiting(k, r)
       /\ Waiting(k, r) \cap DOMAIN g.code = {}
       /\ k.at = g.at /\ k.at \notin Waiting(k, r)
  <2>1. Opens(g) \subseteq DOMAIN g.code /\ g.at \in DOMAIN g.code
    BY <1>5 DEF Opens, GenOK, CodeOK
  <2> QED
    BY <1>6, <1>15, <1>21, <2>1
<1>23. GenOK(g') /\ Parsing(g', stk', "stmt", 0)
  BY <1>1, <1>4, <1>19, <1>20, <1>21, <1>22, ClauseIs
<1> QED
  BY <1>4, <1>23 DEF StmtInv

-----------------------------------------------------------------------------
(* The next clause of a construct.                                         *)

\* What is open when r is the innermost construct.
OpenFor(k, r, B, live) ==
  /\ Waiting(k, r) \cap B = {}
  /\ k.at \notin Waiting(k, r) \cup B
  /\ k.at \in Opens(k) <=> live
  /\ Opens(k) \ {k.at} = Waiting(k, r) \cup B

\* The innermost construct is replaced by r.
Replaced(s, r, t) ==
  /\ IsSeq(t) /\ Len(t) = Len(s) /\ t[Len(s)] = r
  /\ \A j \in DOMAIN s : j # Len(s) => t[j] = s[j]

LEMMA ReplacedIs ==
  ASSUME NEW s, IsSeq(s), s # <<>>, NEW r, NEW t, t = [s EXCEPT ![Len(s)] = r]
  PROVE  Replaced(s, r, t)
<1> DEFINE n == Len(s)
<1>1. n \in DOMAIN s
  BY SeqFacts
<1>2. /\ IsSeq(t) /\ Len(t) = n /\ t[n] = r
      /\ \A j \in DOMAIN s : j # n => t[j] = s[j]
  BY <1>1, ExceptIs, Zenon
<1> QED
  BY <1>2 DEF Replaced

LEMMA ReplaceIs ==
  ASSUME StmtInv, phase \notin {"run", "error"},
         NEW k, Goes(g, k, Construct.ctx, {"clauses", "nonTerminal"}),
         NEW r, ConstructOK(k, r), r.ctx = Construct.ctx, r.k # "func", Construct.k # "func",
         NEW ph, NEW res, OpenFor(k, r, Below(g, stk, Len(stk)), Live(k, ph, res)),
         PhaseOK(k, r, ph, res), MaybeTarget(k, r.term), MaybeTarget(k, res),
         NEW t, Replaced(stk, r, t)
  PROVE  GenOK(k) /\ Parsing(k, t, ph, res)
<1> DEFINE n == Len(stk)
           s == stk[n]
           p == n - 1
           B == Below(g, stk, n)
<1>1. /\ GenOK(g) /\ Framed(g) /\ IsSeq(stk) /\ n \in Nat \ {0} /\ DOMAIN stk = 1 .. n
      /\ Construct = s /\ BelowOK(g, stk, n) /\ TopOK(g, stk, n) /\ ConstructOK(g, s)
  BY ParsingIs
<1>2. Goes(g, k, s.ctx, {"clauses", "nonTerminal"}) /\ r.ctx = s.ctx /\ s.k # "func"
  BY <1>1
<1>3. OpenFor(k, r, B, Live(k, ph, res))
  OBVIOUS
<1>5. /\ IsSeq(t) /\ Len(t) = n /\ t[n] = r
      /\ \A j \in DOMAIN stk : j # n => t[j] = stk[j]
  BY DEF Replaced
<1> HIDE DEF n
<1>6. n > 1
  <2>1. n # 1
    BY <1>1, <1>2 DEF TopOK
  <2> QED
    BY <1>1, <2>1
<1>7. \A i \in 1 .. (n - 1) : i \in 1 .. n /\ i # n
  BY <1>1
<1>8. p \in 1 .. (n - 1) /\ n # 1
  BY <1>1, <1>6
<1>9. \A i \in 1 .. (n - 1) : t[i] = stk[i]
  BY <1>1, <1>5, <1>7
<1>10. /\ s.ctx \in DOMAIN g.ctx /\ NestedOK(g, s, stk[p])
       /\ \A i \in 1 .. (n - 1) : stk[i].ctx # s.ctx /\ stk[i].ctx \in DOMAIN g.ctx
  BY <1>1, <1>6 DEF TopOK, ConstructOK, BelowOK
<1>11. /\ SameTree(g, k)
       /\ \A c \in DOMAIN g.ctx : c # s.ctx => SameClauses(g, k, c)
       /\ \A c \in DOMAIN g.ctx : SameTerminal(g, k, c)
  BY <1>2, GoesTree
<1>12. Keeps(g, k, stk, t, n - 1)
  <2>1. \A i \in 2 .. (n - 1) : g.ctx[stk[i].ctx].parent \in DOMAIN g.ctx
    BY <1>1 DEF BelowOK, NestedOK, Plain
  <2> QED
    BY <1>9, <1>10, <1>11, <2>1 DEF Keeps
<1>13. BelowOK(k, t, n) /\ Below(k, t, n) = B
  BY <1>1, <1>12, BelowKept
<1>14. NestedOK(k, r, t[p])
  <2>1. SameTerminal(g, k, g.ctx[s.ctx].parent)
    BY <1>10, <1>11 DEF NestedOK, Plain
  <2>2. NestedOK(k, s, stk[p])
    BY <1>10, <1>11, <2>1, NestedKept
  <2> QED
    BY <1>2, <1>8, <1>9, <2>2 DEF NestedOK
<1>15. TopOK(k, t, n)
  BY <1>2, <1>5, <1>8, <1>9, <1>10, <1>14 DEF TopOK
<1>16. OpenOK(k, t, n, Live(k, ph, res))
  BY <1>3, <1>5, <1>13 DEF OpenOK, OpenFor
<1>17. Framed(k)
  BY <1>1, <1>2, GoesFramed
<1>18. GenOK(k)
  BY <1>2 DEF Goes
<1>19. t # <<>>
  BY <1>1, <1>5, SeqFacts
<1> QED
  BY <1>5, <1>13, <1>15, <1>16, <1>17, <1>18, <1>19 DEF Parsing

LEMMA ElseClauseIs ==
  ASSUME StmtInv, NEW braces, ElseClause(braces)
  PROVE  StmtInv'
<1> DEFINE n == Len(stk)
           s == stk[n]
           B == Below(g, stk, n)
           e == emitElse(g, s.block, result # 0)
           after == NextBlock(g)
           r == [k |-> "else", block |-> e.block, first |-> result, ctx |-> g.cur,
                 braces |-> braces, term |-> 0]
           k == createSubContext(e.g, g.cur)
           O == IF result # 0 THEN Opens(g) ELSE (Opens(g) \ {g.at}) \cup {after}
<1>1. phase = "else" /\ phase \notin {"run", "error"} /\ phase \in {"end", "else", "catch"}
  BY DEF ElseClause
<1>2. /\ GenOK(g) /\ Construct = s /\ ConstructOK(g, s)
      /\ PhaseOK(g, s, phase, result) /\ MaybeTarget(g, result)
      /\ Waiting(g, s) \cap B = {} /\ g.at \notin Waiting(g, s) \cup B
      /\ g.at \in Opens(g) <=> result = 0
      /\ Opens(g) \ {g.at} = Waiting(g, s) \cup B
      /\ Opens(g) \subseteq DOMAIN g.code
      /\ g.cur \in DOMAIN g.ctx
  BY <1>1, EndedIs
<1>3. g.cur = s.ctx /\ s.k = "then"
  BY <1>1, <1>2 DEF PhaseOK
<1>4. Waiting(g, s) = {s.block}
  BY <1>3 DEF Waiting
<1>5. /\ g' = k /\ stk' = [stk EXCEPT ![Len(stk)] = r] /\ phase' = "stmt" /\ result' = 0
  BY <1>2 DEF ElseClause
<1>6. /\ (result # 0) \in BOOLEAN /\ s.block \in Opens(g)
      /\ g.at \in Opens(g) <=> ~(result # 0)
  BY <1>2, <1>4
<1>7. /\ after # 0 /\ after \notin DOMAIN g.code
      /\ e.block = IF result # 0 THEN 0 ELSE after
      /\ Becomes(g, e.g, s.block, O)
  BY <1>2, <1>6, emitElseIs
<1> HIDE DEF e, after
<1>8. /\ GenOK(e.g) /\ (e.g).at = s.block /\ Opens(e.g) = O /\ DOMAIN (e.g).ctx = DOMAIN g.ctx
  BY <1>2, <1>7, BecomesFacts
<1>9. Nested(e.g, k, g.cur)
  BY <1>2, <1>8, createSubContextIs
<1> HIDE DEF k
<1> DEFINE F == {"clauses", "nonTerminal"}
<1> HIDE DEF F
<1>10. Goes(g, k, g.cur, F)
  <2>1. Goes(g, e.g, g.cur, F)
    BY <1>2, <1>7, BecomesGoes
  <2>2. Goes(e.g, k, g.cur, F)
    BY <1>9, NestedGoes
  <2> QED
    BY <2>1, <2>2, GoesTrans
<1>11. /\ k.at = s.block /\ Opens(k) = O /\ DOMAIN g.ctx \subseteq DOMAIN k.ctx
       /\ k.cur \in DOMAIN k.ctx /\ k.cur \notin DOMAIN g.ctx
       /\ k.ctx[k.cur].parent = g.cur /\ k.ctx[k.cur].loop = NoLoop
       /\ k.ctx[k.cur].body = 0 /\ ~k.ctx[k.cur].terminal
  BY <1>8, <1>9 DEF Nested
<1>12. /\ r.k = "else" /\ r.block = e.block /\ r.first = result /\ r.ctx = g.cur /\ r.term = 0
       /\ Shape(r)
  BY DEF Shape
<1> HIDE DEF r
<1>13. Waiting(k, r) = {e.block} \ {0}
  BY <1>12 DEF Waiting
<1>14. MaybeTarget(k, result) /\ MaybeTarget(k, 0)
  <2>1. SameTree(g, k)
    BY <1>10, GoesTree DEF F
  <2> QED
    BY <1>2, <2>1, TargetKept DEF MaybeTarget
<1>15. ConstructOK(k, r)
  BY <1>2, <1>7, <1>11, <1>12, <1>14 DEF ConstructOK
<1>16. PhaseOK(k, r, "stmt", 0)
  <2>1. Outside \in DOMAIN g.ctx
    BY <1>2 DEF GenOK, ContextsOK
  <2>2. Plain(k, k.cur)
    BY <1>11, <2>1 DEF Plain
  <2> QED
    BY <1>11, <1>12, <2>2 DEF PhaseOK
<1>17. Live(k, "stmt", 0) = TRUE
  BY <1>11 DEF Live
<1>18. OpenFor(k, r, B, TRUE)
  <2>1. CASE result # 0
    <3>1. Waiting(k, r) = {} /\ Opens(k) = {s.block} \cup B /\ k.at = s.block
      BY <1>2, <1>4, <1>7, <1>11, <1>13, <2>1
    <3> QED
      BY <1>2, <1>4, <3>1 DEF OpenFor
  <2>2. CASE result = 0
    <3>1. /\ Waiting(k, r) = {after} /\ Opens(k) = ({s.block} \cup B) \cup {after}
          /\ k.at = s.block
      BY <1>2, <1>4, <1>7, <1>11, <1>13, <2>2
    <3>2. after \notin B /\ after # s.block
      BY <1>2, <1>4, <1>7
    <3> QED
      BY <1>2, <1>4, <3>1, <3>2 DEF OpenFor
  <2> QED
    BY <2>1, <2>2
<1>19. r.ctx = Construct.ctx /\ r.k # "func" /\ Construct.k # "func" /\ MaybeTarget(k, r.term)
  BY <1>2, <1>3, <1>12, <1>14
<1>20. /\ Goes(g, k, Construct.ctx, {"clauses", "nonTerminal"})
       /\ OpenFor(k, r, Below(g, stk, Len(stk)), Live(k, "stmt", 0))
  BY <1>2, <1>3, <1>10, <1>17, <1>18 DEF F
<1>21. GenOK(g') /\ Parsing(g', stk', "stmt", 0)
  <2>1. IsSeq(stk) /\ stk # <<>>
    BY <1>1, ParsingIs
  <2>2. Replaced(stk, r, stk')
    BY <1>5, <2>1, ReplacedIs
  <2> QED
    BY <1>1, <1>5, <2>2, <1>14, <1>15, <1>16, <1>19, <1>20, ReplaceIs
<1> QED
  BY <1>5, <1>21 DEF StmtInv

LEMMA EndTryBlockIs ==
  ASSUME StmtInv, EndTryBlock
  PROVE  StmtInv'
<1> DEFINE n == Len(stk)
           s == stk[n]
           c == s.ctx
           B == Below(g, stk, n)
           h == Popped
           k == WithCtx(h, c, "catch", 0)
           r == [k |-> "catch", switch |-> s.switch, after |-> 0, all |-> result,
                 ctx |-> c, braces |-> TRUE, term |-> 0]
<1>1. phase = "end" /\ phase \notin {"run", "error"} /\ phase \in {"end", "else", "catch"}
  BY DEF EndTryBlock, Ended
<1>2. /\ GenOK(g) /\ Construct = s /\ ConstructOK(g, s) /\ MaybeTarget(g, result)
      /\ Waiting(g, s) \cap B = {} /\ g.at \notin Waiting(g, s) \cup B
      /\ g.at \in Opens(g) <=> result = 0
      /\ Opens(g) \ {g.at} = Waiting(g, s) \cup B
  BY <1>1, EndedIs
<1>3. s.k = "try"
  BY <1>2 DEF EndTryBlock, Ended
<1>4. /\ GenOK(h) /\ h.cur = c /\ h.at = g.at /\ h.ctx = g.ctx
      /\ Opens(h) = Opens(g) /\ \A d, F : Goes(g, h, d, F)
  BY <1>1, PoppedIs
<1>5. /\ g' = k /\ stk' = [stk EXCEPT ![Len(stk)] = r] /\ phase' = "catch" /\ result' = result
  <2>1. g' = [h EXCEPT !.ctx[c].catch = 0]
    BY <1>2 DEF EndTryBlock
  <2> HIDE DEF h, c
  <2>2. g' = k
    BY <2>1 DEF WithCtx
  <2> QED
    BY <1>2, <2>2 DEF EndTryBlock, c
<1>6. /\ s.switch # 0 /\ g.ctx[c].clauses = 0 /\ ~g.ctx[c].nonTerminal /\ c \in DOMAIN g.ctx
  BY <1>2, <1>3 DEF ConstructOK
<1>7. Waiting(g, s) = {s.switch}
  BY <1>3 DEF Waiting
<1> HIDE DEF h
<1>8. CtxSet(h, k, c, "catch", 0)
  <2>1. MaySet(h, c, "catch", 0)
    BY DEF MaySet, CtxFields, Decides
  <2> QED
    BY <1>4, <1>6, <2>1, CtxSetIs
<1> HIDE DEF k
<1> DEFINE F == {"clauses", "nonTerminal"}
<1> HIDE DEF F
<1>9. Goes(g, k, c, F)
  <2>1. Goes(g, h, c, F)
    BY <1>4, Zenon
  <2>2. "catch" \notin Marks
    BY DEF Marks
  <2>3. Goes(h, k, c, F)
    BY <1>8, <2>2, CtxSetGoes
  <2> QED
    BY <2>1, <2>3, GoesTrans
<1>10. /\ k.at = g.at /\ Opens(k) = Opens(g) /\ k.cur = c /\ DOMAIN k.ctx = DOMAIN g.ctx
  BY <1>4, <1>8 DEF CtxSet
<1>11. k.ctx[c].clauses = 0 /\ ~k.ctx[c].nonTerminal
  <2>1. {"clauses", "nonTerminal"} \subseteq CtxFields
    BY DEF CtxFields, Decides
  <2> QED
    BY <1>4, <1>6, <1>8, <2>1 DEF CtxSet
<1>12. /\ r.k = "catch" /\ r.switch = s.switch /\ r.after = 0 /\ r.all = result /\ r.ctx = c
       /\ r.term = 0 /\ Shape(r)
  BY DEF Shape
<1> HIDE DEF r
<1>13. MaybeTarget(k, result) /\ MaybeTarget(k, 0)
  <2>1. SameTree(g, k)
    BY <1>9, GoesTree DEF F
  <2> QED
    BY <1>2, <2>1, TargetKept DEF MaybeTarget
<1>14. ConstructOK(k, r)
  BY <1>6, <1>10, <1>11, <1>12, <1>13 DEF ConstructOK
<1>15. PhaseOK(k, r, "catch", result)
  BY <1>10, <1>11, <1>12 DEF PhaseOK
<1>16. OpenFor(k, r, B, Live(k, "catch", result))
  <2>1. Waiting(k, r) = Waiting(g, s)
    BY <1>7, <1>12 DEF Waiting
  <2>2. Live(k, "catch", result) <=> result = 0
    BY DEF Live
  <2> QED
    BY <1>2, <1>10, <2>1, <2>2 DEF OpenFor
<1>17. r.ctx = Construct.ctx /\ r.k # "func" /\ Construct.k # "func" /\ MaybeTarget(k, r.term)
  BY <1>2, <1>3, <1>12, <1>13
<1>18. Goes(g, k, Construct.ctx, {"clauses", "nonTerminal"})
  BY <1>2, <1>9 DEF F
<1>19. GenOK(g') /\ Parsing(g', stk', "catch", result)
  <2>1. IsSeq(stk) /\ stk # <<>>
    BY <1>1, ParsingIs
  <2>2. Replaced(stk, r, stk')
    BY <1>5, <2>1, ReplacedIs
  <2> QED
    BY <1>1, <1>5, <2>2, <1>13, <1>14, <1>15, <1>16, <1>17, <1>18, ReplaceIs
<1> QED
  BY <1>5, <1>19 DEF StmtInv

LEMMA EndCatchIs ==
  ASSUME StmtInv, EndCatch
  PROVE  StmtInv'
<1> DEFINE n == Len(stk)
           s == stk[n]
           B == Below(g, stk, n)
           k == Popped
           all == IF result = 0 THEN 0
                  ELSE IF s.all # 0 /\ Encloses(g, s.all, result) THEN result
                  ELSE s.all
           r == [s EXCEPT !.all = all]
<1>1. phase = "end" /\ phase \notin {"run", "error"} /\ phase \in {"end", "else", "catch"}
  BY DEF EndCatch, Ended
<1>2. /\ GenOK(g) /\ Construct = s /\ ConstructOK(g, s) /\ MaybeTarget(g, result)
      /\ PhaseOK(g, s, phase, result)
      /\ Waiting(g, s) \cap B = {} /\ g.at \notin Waiting(g, s) \cup B
      /\ g.at \in Opens(g) <=> result = 0
      /\ Opens(g) \ {g.at} = Waiting(g, s) \cup B
  BY <1>1, EndedIs
<1>3. s.k = "catch"
  BY <1>2 DEF EndCatch, Ended
<1>4. /\ GenOK(k) /\ k.cur = s.ctx /\ k.at = g.at /\ k.ctx = g.ctx
      /\ Opens(k) = Opens(g) /\ \A d, F : Goes(g, k, d, F)
  BY <1>1, PoppedIs
<1>5. /\ g' = k /\ stk' = [stk EXCEPT ![Len(stk)] = r] /\ phase' = "catch" /\ result' = result
  BY <1>2 DEF EndCatch
<1>6. Through(g, s) /\ MaybeTarget(g, s.all) /\ MaybeTarget(g, s.term)
  BY <1>1, <1>2, <1>3, ParsingIs DEF PhaseOK, ConstructOK
<1>7. MaybeTarget(g, all) /\ (all = 0 <=> g.ctx[s.ctx].nonTerminal \/ result = 0)
  BY <1>2, <1>6 DEF Through, MaybeTarget
<1> HIDE DEF k, all
<1>8. /\ r.k = "catch" /\ r.switch = s.switch /\ r.after = s.after /\ r.all = all
      /\ r.ctx = s.ctx /\ r.term = s.term /\ DOMAIN r = DOMAIN s
  BY <1>2, <1>3 DEF ConstructOK, Shape
<1> HIDE DEF r
<1>9. \A x : MaybeTarget(k, x) <=> MaybeTarget(g, x)
  BY <1>4 DEF MaybeTarget, Target
<1>10. Shape(r)
  BY <1>2, <1>3, <1>8 DEF ConstructOK, Shape
<1>11. ConstructOK(k, r)
  BY <1>2, <1>3, <1>4, <1>7, <1>8, <1>9, <1>10 DEF ConstructOK
<1>12. PhaseOK(k, r, "catch", result)
  BY <1>4, <1>7, <1>8 DEF PhaseOK
<1>13. OpenFor(k, r, B, Live(k, "catch", result))
  <2>1. Waiting(k, r) = Waiting(g, s)
    BY <1>3, <1>8 DEF Waiting
  <2>2. Live(k, "catch", result) <=> result = 0
    BY DEF Live
  <2> QED
    BY <1>2, <1>4, <2>1, <2>2 DEF OpenFor
<1>14. /\ r.ctx = Construct.ctx /\ r.k # "func" /\ Construct.k # "func"
       /\ MaybeTarget(k, r.term) /\ MaybeTarget(k, result)
  BY <1>2, <1>3, <1>6, <1>8, <1>9
<1>15. Goes(g, k, Construct.ctx, {"clauses", "nonTerminal"})
  BY <1>4, Zenon
<1>16. GenOK(g') /\ Parsing(g', stk', "catch", result)
  <2>1. IsSeq(stk) /\ stk # <<>>
    BY <1>1, ParsingIs
  <2>2. Replaced(stk, r, stk')
    BY <1>5, <2>1, ReplacedIs
  <2> QED
    BY <1>1, <1>5, <2>2, <1>11, <1>12, <1>13, <1>14, <1>15, ReplaceIs
<1> QED
  BY <1>5, <1>16 DEF StmtInv

LEMMA CatchClauseIs ==
  ASSUME StmtInv, NEW x, CatchClause(x)
  PROVE  StmtInv'
<1> DEFINE n == Len(stk)
           s == stk[n]
           B == Below(g, stk, n)
           h == emitCatch(g, s.switch, s.after, x, result # 0)
           c == createSubContext(h, g.cur)
           v == emitVarDef(c, "value")
           k == emitExceptionCleanup(v)
           after == IF s.after = 0 THEN NextBlock(g) ELSE s.after
           r == [s EXCEPT !.term = 0, !.after = after]
           O == IF s.after = 0 THEN ((Opens(g) \ {g.at}) \cup {NextBlock(g)}) \ {s.switch}
                ELSE Opens(g) \ {g.at}
<1>1. phase = "catch" /\ phase \notin {"run", "error"} /\ phase \in {"end", "else", "catch"}
  BY DEF CatchClause
<1>2. /\ GenOK(g) /\ Construct = s /\ ConstructOK(g, s) /\ MaybeTarget(g, result)
      /\ n \in Nat \ {0} /\ TopOK(g, stk, n)
      /\ PhaseOK(g, s, phase, result)
      /\ Waiting(g, s) \cap B = {} /\ g.at \notin Waiting(g, s) \cup B
      /\ g.at \in Opens(g) <=> result = 0
      /\ Opens(g) \ {g.at} = Waiting(g, s) \cup B
      /\ Opens(g) \subseteq DOMAIN g.code
      /\ g.cur \in DOMAIN g.ctx
  BY <1>1, EndedIs
<1>3. g.cur = s.ctx /\ s.k = "catch" /\ (s.all = 0 <=> g.ctx[s.ctx].nonTerminal \/ result = 0)
  BY <1>1, <1>2 DEF PhaseOK
<1>4. /\ MaybeTarget(g, s.all) /\ s.switch # 0 /\ g.ctx[s.ctx].clauses \in Nat
      /\ g.ctx[s.ctx].clauses > 0 <=> s.after # 0
      /\ Shape(s)
  BY <1>2, <1>3 DEF ConstructOK
<1>5. Waiting(g, s) = {IF s.after = 0 THEN s.switch ELSE s.after}
  BY <1>3 DEF Waiting
<1>6. g' = k /\ phase' = "stmt" /\ result' = 0
  BY <1>2 DEF CatchClause
<1>7. stk' = [stk EXCEPT ![Len(stk)] = r]
  BY <1>2 DEF CatchClause
<1>8. g.ctx[g.cur].parent \in DOMAIN g.ctx
  <2> HIDE DEF n
  <2>1. n # 1
    BY <1>2, <1>3 DEF TopOK
  <2>2. n > 1
    BY <1>2, <2>1
  <2> QED
    BY <1>2, <1>3, <2>2 DEF TopOK, NestedOK, Plain
<1>9. NextBlock(g) # 0 /\ NextBlock(g) \notin DOMAIN g.code
  <2>1. Open(<<>>)
    BY DEF Open, IsSeq, Range
  <2> QED
    BY <1>2, <2>1, AddBlockIs
<1>10. /\ Goes(g, h, g.cur, {"clauses", "nonTerminal"})
       /\ h.cur = g.cur
       /\ h.at \notin DOMAIN g.code /\ h.at \notin O
       /\ Opens(h) = O \cup {h.at}
       /\ h.ctx[g.cur].clauses = g.ctx[g.cur].clauses + 1
       /\ h.ctx[g.cur].nonTerminal = (g.ctx[g.cur].nonTerminal \/ ~(result # 0))
  <2> DEFINE t == result # 0
  <2>1. CatchReady(g, s.switch, s.after, t)
    BY <1>2, <1>5, <1>8 DEF CatchReady
  <2>2. CatchLeft(g, s.switch, s.after) = O
    BY DEF CatchLeft
  <2> HIDE DEF s, t
  <2>3. Caught(g, emitCatch(g, s.switch, s.after, x, t), CatchLeft(g, s.switch, s.after), t)
    BY <2>1, emitCatchIs
  <2>4. Caught(g, h, O, t)
    BY <2>2, <2>3 DEF t
  <2> HIDE DEF h, O
  <2>5. /\ Goes(g, h, g.cur, {"clauses", "nonTerminal"})
        /\ h.cur = g.cur
        /\ h.at \notin DOMAIN g.code /\ h.at \notin O
        /\ Opens(h) = O \cup {h.at}
        /\ h.ctx[g.cur].clauses = g.ctx[g.cur].clauses + 1
        /\ h.ctx[g.cur].nonTerminal = (g.ctx[g.cur].nonTerminal \/ ~t)
    BY <2>4 DEF Caught
  <2> QED
    BY <2>5 DEF t
<1>11. O = {after} \cup B /\ after \notin B /\ after # 0
  BY <1>2, <1>5, <1>9
<1> HIDE DEF h, after, O
<1>12. GenOK(h) /\ DOMAIN g.ctx \subseteq DOMAIN h.ctx
  BY <1>10 DEF Goes
<1>13. Nested(h, c, g.cur)
  BY <1>2, <1>12, createSubContextIs
<1> HIDE DEF c
<1>14. /\ GenOK(c) /\ c.at = h.at /\ Opens(c) = Opens(h) /\ c.cur \notin DOMAIN h.ctx
       /\ c.cur \in DOMAIN c.ctx /\ Frames(c) # <<>> /\ DOMAIN h.ctx \subseteq DOMAIN c.ctx
       /\ c.ctx[c.cur].parent = g.cur /\ c.ctx[c.cur].loop = NoLoop
       /\ c.ctx[c.cur].body = 0 /\ ~c.ctx[c.cur].terminal
       /\ c.ctx[g.cur] = h.ctx[g.cur]
  BY <1>2, <1>12, <1>13 DEF Nested, Frames
<1>15. Ready(c)
  BY <1>10, <1>14 DEF Ready
<1>16. Emits(c, v)
  BY <1>14, <1>15, emitVarDefIs
<1> HIDE DEF v
<1>17. Ready(v) /\ v.at = c.at /\ Opens(v) = Opens(c) /\ v.cur = c.cur
  BY <1>15, <1>16, EmitsReady, EmitsFacts
<1>18. Goes(v, k, g.cur, {}) /\ k.cur = v.cur /\ k.at = v.at /\ Opens(k) = Opens(v)
  BY <1>17, emitExceptionCleanupIs
<1> HIDE DEF k
<1>19. Goes(c, k, g.cur, {})
  <2>1. Goes(c, v, g.cur, {})
    BY <1>14, <1>16, EmitsGoes
  <2> QED
    BY <1>18, <2>1, GoesTrans
<1> DEFINE F == {"clauses", "nonTerminal"}
<1>20. Goes(g, k, g.cur, F)
  <2>1. Goes(h, c, g.cur, F)
    BY <1>13, NestedGoes
  <2>2. Goes(c, k, g.cur, F)
    BY <1>19, GoesWider
  <2> HIDE DEF F
  <2>3. Goes(g, h, g.cur, F)
    BY <1>10 DEF F
  <2> QED
    BY <2>1, <2>2, <2>3, GoesTrans
<1>21. /\ SameTree(c, k) /\ SameClauses(c, k, g.cur) /\ SameTerminal(c, k, c.cur)
  BY <1>2, <1>12, <1>14, <1>19, GoesTree
<1>22. /\ k.at = h.at /\ Opens(k) = O \cup {h.at} /\ k.cur = c.cur
       /\ k.cur \in DOMAIN k.ctx /\ k.ctx[k.cur].parent = g.cur /\ k.ctx[k.cur].loop = NoLoop
       /\ k.ctx[k.cur].body = 0 /\ ~k.ctx[k.cur].terminal
  BY <1>10, <1>14, <1>17, <1>18, <1>21 DEF SameTree, SameTerminal
<1>23. /\ k.ctx[g.cur].clauses = g.ctx[g.cur].clauses + 1
       /\ k.ctx[g.cur].nonTerminal <=> (g.ctx[g.cur].nonTerminal \/ result = 0)
  BY <1>10, <1>14, <1>21 DEF SameClauses
<1>24. /\ r.k = "catch" /\ r.switch = s.switch /\ r.after = after /\ r.all = s.all
       /\ r.ctx = s.ctx /\ r.term = 0 /\ DOMAIN r = DOMAIN s
  BY <1>3, <1>4 DEF Shape
<1> HIDE DEF r
<1>25. Shape(r)
  BY <1>3, <1>4, <1>24 DEF Shape
<1>26. MaybeTarget(k, s.all) /\ MaybeTarget(k, 0)
  <2>1. SameTree(g, k)
    BY <1>20, GoesTree
  <2> QED
    BY <1>4, <2>1, TargetKept DEF MaybeTarget
<1>27. ConstructOK(k, r)
  <2>1. k.ctx[r.ctx].clauses \in Nat /\ k.ctx[r.ctx].clauses > 0
    BY <1>3, <1>4, <1>23, <1>24
  <2>2. r.ctx \in DOMAIN k.ctx
    BY <1>2, <1>3, <1>20, <1>24 DEF Goes
  <2> QED
    BY <1>4, <1>11, <1>24, <1>25, <1>26, <2>1, <2>2 DEF ConstructOK
<1>28. PhaseOK(k, r, "stmt", 0)
  <2>1. Outside \in DOMAIN h.ctx
    BY <1>12 DEF GenOK, ContextsOK
  <2>2. Plain(k, k.cur)
    BY <1>14, <1>22, <2>1 DEF Plain
  <2>3. Through(k, r)
    BY <1>3, <1>23, <1>24 DEF Through
  <2> QED
    BY <1>3, <1>22, <1>24, <2>2, <2>3 DEF PhaseOK
<1>29. OpenFor(k, r, B, Live(k, "stmt", 0))
  <2>1. Waiting(k, r) = {after}
    BY <1>11, <1>24 DEF Waiting
  <2>2. Live(k, "stmt", 0) = TRUE
    BY <1>22 DEF Live
  <2> QED
    BY <1>10, <1>11, <1>22, <2>1, <2>2 DEF OpenFor
<1>30. /\ r.ctx = Construct.ctx /\ r.k # "func" /\ Construct.k # "func"
       /\ MaybeTarget(k, r.term) /\ MaybeTarget(k, 0)
  BY <1>2, <1>3, <1>24, <1>26
<1>31. Goes(g, k, Construct.ctx, {"clauses", "nonTerminal"})
  BY <1>2, <1>3, <1>20
<1>32. GenOK(g') /\ Parsing(g', stk', "stmt", 0)
  <2>1. IsSeq(stk) /\ stk # <<>>
    BY <1>1, ParsingIs
  <2>2. Replaced(stk, r, stk')
    BY <1>7, <2>1, ReplacedIs
  <2> QED
    BY <1>1, <1>6, <2>2, <1>27, <1>28, <1>29, <1>30, <1>31, ReplaceIs
<1> QED
  BY <1>6, <1>32 DEF StmtInv

-----------------------------------------------------------------------------
(* The end of the function, and its execution.                             *)

LEMMA EndFuncIs ==
  ASSUME StmtInv, TopInv, EndFunc
  PROVE  StmtInv'
<1> DEFINE n == Len(stk)
           s == stk[n]
           h == WithCtx(g, Toplevel, "frames", <<>>)
           e == emitReturn(h, FALSE)
           returned == IF result # 0 THEN g ELSE e
<1>1. phase = "end" /\ phase \in {"end", "else", "catch"}
  BY DEF EndFunc, Ended
<1>2. /\ GenOK(g) /\ Construct = s /\ n \in Nat \ {0} /\ TopOK(g, stk, n)
      /\ g.at \in Opens(g) <=> result = 0
      /\ Opens(g) \ {g.at} = Waiting(g, s) \cup Below(g, stk, n)
  BY <1>1, EndedIs
<1>3. s.k = "func"
  BY <1>2 DEF EndFunc, Ended
<1>4. Opens(g) \subseteq {g.at}
  <2>1. n = 1
    <3> HIDE DEF n
    <3> QED
      BY <1>2, <1>3 DEF TopOK
  <2>2. Waiting(g, s) = {}
    BY <1>3 DEF Waiting
  <2>3. Below(g, stk, n) = {}
    <3> HIDE DEF n
    <3> QED
      BY <2>1 DEF Below
  <2> QED
    BY <1>2, <2>2, <2>3
<1>5. /\ g' = CASE top = "module" -> finishModule(g)
                [] top = "void"   -> emitEndFunc(returned)
                [] top = "value"  -> emitEndFunc(g)
      /\ phase' = IF top = "value" /\ result = 0 THEN "error" ELSE "run"
  <2>1. [g EXCEPT !.ctx[Toplevel].frames = <<>>] = h
    BY DEF WithCtx
  <2> QED
    BY <2>1, Zenon DEF EndFunc
<1>6. result = 0 => GenOK(e) /\ Opens(e) = {}
  <2> SUFFICES ASSUME result = 0 PROVE GenOK(e) /\ Opens(e) = {}
    OBVIOUS
  <2>1. Toplevel \in DOMAIN g.ctx
    BY <1>2 DEF GenOK, ContextsOK
  <2>2. MaySet(g, Toplevel, "frames", <<>>)
    BY DEF MaySet, CtxFields, Decides
  <2>3. CtxSet(g, h, Toplevel, "frames", <<>>)
    BY <1>2, <2>1, <2>2, CtxSetIs
  <2> HIDE DEF h
  <2>4. GenOK(h) /\ h.at = g.at /\ Opens(h) = Opens(g)
    BY <2>3 DEF CtxSet
  <2>5. Ready(h)
    BY <1>2, <2>4 DEF Ready
  <2>6. Becomes(h, e, h.at, Opens(h) \ {h.at})
    BY <2>5, emitReturnIs
  <2> HIDE DEF e
  <2>7. GenOK(e) /\ Opens(e) = Opens(h) \ {h.at}
    BY <2>4, <2>6, BecomesFacts
  <2> QED
    BY <1>4, <2>4, <2>7
<1>7. result # 0 => Opens(g) = {}
  BY <1>2, <1>4
<1> HIDE DEF e
<1>8. GenOK(returned) /\ Opens(returned) = {}
  BY <1>2, <1>6, <1>7
<1> HIDE DEF returned
<1>9. CASE top = "module"
  <2>1. GenOK(finishModule(g)) /\ Opens(finishModule(g)) = {}
    BY <1>2, <1>4, finishModuleIs
  <2> QED
    BY <1>5, <1>9, <2>1 DEF StmtInv
<1>10. CASE top = "void"
  <2>1. GenOK(emitEndFunc(returned)) /\ Opens(emitEndFunc(returned)) = {}
    BY <1>8, emitEndFuncIs
  <2> QED
    BY <1>5, <1>10, <2>1 DEF StmtInv
<1>11. CASE top = "value"
  <2>1. GenOK(emitEndFunc(g)) /\ Opens(emitEndFunc(g)) \subseteq Opens(g)
    BY <1>2, emitEndFuncIs
  <2> QED
    BY <1>5, <1>7, <1>11, <2>1 DEF StmtInv
<1>12. top \in {"module", "void", "value"}
  BY DEF TopInv
<1> QED
  BY <1>9, <1>10, <1>11, <1>12

LEMMA ExecuteIs ==
  ASSUME StmtInv, Execute \/ Halted \/ UNCHANGED vars
  PROVE  StmtInv'
<1>1. UNCHANGED <<g, stk, phase, result, top>>
  BY DEF Execute, Halted, vars, parser, Advance, CallThrows, Throws, LandingPad, Switch,
         Branch, Leaves, Running
<1> QED
  BY <1>1 DEF StmtInv

LEMMA InitIs ==
  ASSUME Init
  PROVE  StmtInv /\ TopInv
<1> DEFINE out == [NewContext(0, <<>>, 1) EXCEPT !.frames = <<>>]
           toplevel == NewContext(Outside, <<Toplevel>>, 1)
           s == [k |-> "func", braces |-> TRUE, ctx |-> Outside, term |-> 0]
<1>1. /\ {"ctx", "fr", "cl", "code", "at", "cur", "del"} \subseteq DOMAIN g
      /\ g.ctx = <<out, toplevel>> /\ g.fr = <<NewFrame(Toplevel)>> /\ g.cl = <<>>
      /\ g.code = <<<<>>>> /\ g.at = 1 /\ g.cur = Toplevel
  BY DEF Init, BeginFunc
<1>2. /\ stk = <<s>> /\ phase = "stmt" /\ result = 0 /\ top \in {"void", "value", "module"}
  BY StatementsAssumption DEF Init
<1>3. /\ DOMAIN out = CtxFields /\ DOMAIN toplevel = CtxFields
      /\ out.path = <<>> /\ out.frames = <<>> /\ out.nested = <<>> /\ out.loop = NoLoop
      /\ out.catch = 0 /\ out.body = 0 /\ out.terminal = FALSE
      /\ toplevel.path = <<Toplevel>> /\ toplevel.frames = <<1>> /\ toplevel.nested = <<>>
      /\ toplevel.loop = NoLoop /\ toplevel.catch = 0 /\ toplevel.body = 0
      /\ toplevel.terminal = FALSE /\ toplevel.parent = Outside
  BY DEF NewContext, CtxFields, Decides
<1> HIDE DEF out, toplevel
<1>4. /\ IsSeq(g.ctx) /\ DOMAIN g.ctx = {1, 2} /\ g.ctx[1] = out /\ g.ctx[2] = toplevel
      /\ IsSeq(g.fr) /\ DOMAIN g.fr = {1} /\ g.fr[1] = NewFrame(Toplevel)
      /\ IsSeq(g.cl) /\ DOMAIN g.cl = {}
      /\ IsSeq(g.code) /\ DOMAIN g.code = {1} /\ g.code[1] = <<>>
  BY <1>1 DEF IsSeq, Range
<1>5. ContextsOK(g)
  <2>1. ContextOK(g, 1)
    <3>1. <<>> \in Seq(DOMAIN g.ctx) /\ <<>> \in Seq(DOMAIN g.fr)
      OBVIOUS
    <3>2. /\ out.path \in Seq(DOMAIN g.ctx) /\ out.frames \in Seq(DOMAIN g.fr)
          /\ out.nested \in Seq(DOMAIN g.ctx)
      BY <1>3, <3>1, Zenon
    <3> QED
      BY <1>3, <1>4, <3>2, Zenon DEF ContextOK
  <2>2. ContextOK(g, 2)
    <3>1. /\ <<>> \in Seq(DOMAIN g.ctx) /\ <<Toplevel>> \in Seq(DOMAIN g.ctx)
          /\ <<1>> \in Seq(DOMAIN g.fr)
      BY <1>4, OneIs DEF Toplevel
    <3>2. /\ toplevel.path \in Seq(DOMAIN g.ctx) /\ toplevel.frames \in Seq(DOMAIN g.fr)
          /\ toplevel.nested \in Seq(DOMAIN g.ctx)
      BY <1>3, <3>1, Zenon
    <3> QED
      BY <1>3, <1>4, <3>2, Zenon DEF ContextOK
  <2> QED
    BY <1>1, <1>4, <2>1, <2>2 DEF ContextsOK, Outside, Toplevel
<1>6. CleanupsOK(g)
  <2>1. FrameOK(g, 1)
    BY <1>4 DEF FrameOK, NewFrame, Toplevel
  <2> QED
    BY <1>4, <2>1 DEF CleanupsOK
<1>7. Open(<<>>)
  BY DEF Open, IsSeq, Range
<1>8. CodeOK(g) /\ Opens(g) = {1}
  BY <1>1, <1>4, <1>7 DEF CodeOK, Opens
<1>9. GenOK(g)
  BY <1>1, <1>5, <1>6, <1>8 DEF GenOK
<1>10. Framed(g)
  <2>1. <<1>> # <<>>
    OBVIOUS
  <2>2. \A c \in DOMAIN g.ctx \ {Outside} : c = 2
    BY <1>4 DEF Outside
  <2> QED
    BY <1>3, <1>4, <2>1, <2>2, Zenon DEF Framed
<1>12. Shape(s) /\ s.k = "func" /\ s.ctx = Outside /\ s.term = 0
  BY DEF Shape
<1> HIDE DEF s
<1>11. /\ IsSeq(stk) /\ stk # <<>> /\ Len(stk) = 1 /\ stk[1] = s
  <2>1. stk \in Seq({s})
    BY <1>2, OneIs
  <2> QED
    BY <1>2, <2>1, SeqIs
<1>13. 1 .. (1 - 1) = {} /\ 2 .. (1 - 1) = {}
  OBVIOUS
<1>14. BelowOK(g, stk, 1) /\ Below(g, stk, 1) = {}
  BY <1>13 DEF BelowOK, Below
<1>15. TopOK(g, stk, 1)
  <2>1. ConstructOK(g, s)
    BY <1>4, <1>12 DEF ConstructOK, Outside
  <2> QED
    BY <1>11, <1>12, <1>13, <2>1 DEF TopOK
<1>16. Live(g, phase, result) = TRUE
  BY <1>1, <1>2, <1>3, <1>4 DEF Live, Toplevel
<1>17. OpenOK(g, stk, 1, TRUE)
  <2>1. Waiting(g, stk[1]) = {}
    BY <1>11, <1>12 DEF Waiting
  <2> QED
    BY <1>1, <1>8, <1>14, <2>1 DEF OpenOK
<1>18. PhaseOK(g, stk[1], phase, result)
  <2>1. Plain(g, g.cur)
    BY <1>1, <1>3, <1>4 DEF Plain, Outside, Toplevel
  <2> QED
    BY <1>1, <1>2, <1>3, <1>4, <1>11, <1>12, <2>1 DEF PhaseOK, Toplevel
<1>19. MaybeTarget(g, stk[1].term) /\ MaybeTarget(g, result)
  BY <1>2, <1>11, <1>12 DEF MaybeTarget
<1>20. Parsing(g, stk, phase, result)
  BY <1>10, <1>11, <1>14, <1>15, <1>16, <1>17, <1>18, <1>19 DEF Parsing
<1> QED
  BY <1>2, <1>9, <1>20 DEF StmtInv, TopInv

-----------------------------------------------------------------------------
(* Every step.                                                             *)

\* What is compiled never changes.
LEMMA CompiledKept ==
  ASSUME TopInv, [Next]_vars
  PROVE  TopInv'
<1> SUFFICES top' = top
  BY DEF TopInv
<1>1. CASE NullStmt
  BY <1>1, Zenon DEF NullStmt, Return
<1>2. CASE ExprStmt
  BY <1>2, Zenon DEF ExprStmt, Statement, Return
<1>3. CASE TernaryStmt
  BY <1>3, Zenon DEF TernaryStmt, Statement, Return
<1>4. CASE ReturnStmt
  BY <1>4, Zenon DEF ReturnStmt, Statement, Return
<1>5. CASE BreakStmt
  BY <1>5, Zenon DEF BreakStmt, Statement, Return
<1>6. CASE ContinueStmt
  BY <1>6, Zenon DEF ContinueStmt, Statement, Return
<1>7. CASE ThrowStmt
  BY <1>7, Zenon DEF ThrowStmt, Statement, Return
<1>8. CASE CloseBrace
  BY <1>8, Zenon DEF CloseBrace
<1>9. CASE EndThen
  BY <1>9, Zenon DEF EndThen
<1>10. CASE NoElse
  BY <1>10, Zenon DEF NoElse, Return
<1>11. CASE EndElse
  BY <1>11, Zenon DEF EndElse, Return
<1>12. CASE EndWhile
  BY <1>12, Zenon DEF EndWhile, Return
<1>13. CASE EndFor
  BY <1>13, Zenon DEF EndFor, Return
<1>14. CASE TryStmt
  BY <1>14, Zenon DEF TryStmt, Clause
<1>15. CASE EndTryBlock
  BY <1>15, Zenon DEF EndTryBlock
<1>16. CASE EndCatch
  BY <1>16, Zenon DEF EndCatch
<1>17. CASE EndTry
  BY <1>17, Zenon DEF EndTry, Return
<1>18. CASE EndFunc
  BY <1>18, Zenon DEF EndFunc
<1>19. CASE \E kind \in {"call", "value"} : VarDef(kind)
  BY <1>19, Zenon DEF VarDef, Statement, Return
<1>20. CASE \E braces \in BOOLEAN : \E cond \in Conds : IfStmt(cond, braces)
  BY <1>20, Zenon DEF IfStmt, Clause
<1>21. CASE \E braces \in BOOLEAN : \E cond \in Conds : WhileStmt(cond, braces)
  BY <1>21, Zenon DEF WhileStmt, Clause
<1>22. CASE \E braces \in BOOLEAN : \E iter \in BOOLEAN : ForStmt(iter, braces)
  BY <1>22, Zenon DEF ForStmt, Clause
<1>23. CASE \E braces \in BOOLEAN : ElseClause(braces)
  BY <1>23, Zenon DEF ElseClause
<1>24. CASE \E x \in ExTypes : CatchClause(x)
  BY <1>24, Zenon DEF CatchClause
<1>25. CASE Execute
  BY <1>25 DEF Execute, parser, Advance, CallThrows, Throws, LandingPad, Switch,
         Branch, Leaves, Running
<1>26. CASE Halted \/ UNCHANGED vars
  BY <1>26 DEF Halted, vars
<1> QED
  BY <1>1, <1>2, <1>3, <1>4, <1>5, <1>6, <1>7, <1>8, <1>9, <1>10, <1>11, <1>12,
      <1>13, <1>14, <1>15, <1>16, <1>17, <1>18, <1>19, <1>20, <1>21, <1>22, <1>23,
      <1>24, <1>25, <1>26, Zenon DEF Next, Parse

\* A step of the parser or of the machine keeps the invariant.
LEMMA NextIs ==
  ASSUME StmtInv, TopInv, [Next]_vars
  PROVE  StmtInv' /\ TopInv'
<1> TopInv'
  BY CompiledKept
<1> SUFFICES StmtInv'
  OBVIOUS
<1>1. CASE NullStmt
  BY <1>1, NullStmtIs
<1>2. CASE ExprStmt
  BY <1>2, ExprStmtIs
<1>3. CASE TernaryStmt
  BY <1>3, TernaryStmtIs
<1>4. CASE ReturnStmt
  BY <1>4, ReturnStmtIs
<1>5. CASE BreakStmt
  BY <1>5, BreakStmtIs
<1>6. CASE ContinueStmt
  BY <1>6, BreakStmtIs
<1>7. CASE ThrowStmt
  BY <1>7, ThrowStmtIs
<1>8. CASE CloseBrace
  BY <1>8, CloseBraceIs
<1>9. CASE EndThen
  BY <1>9, EndThenIs
<1>10. CASE NoElse
  BY <1>10, NoElseIs
<1>11. CASE EndElse
  BY <1>11, EndElseIs
<1>12. CASE EndWhile
  BY <1>12, EndWhileIs
<1>13. CASE EndFor
  BY <1>13, EndForIs
<1>14. CASE TryStmt
  BY <1>14, TryStmtIs
<1>15. CASE EndTryBlock
  BY <1>15, EndTryBlockIs
<1>16. CASE EndCatch
  BY <1>16, EndCatchIs
<1>17. CASE EndTry
  BY <1>17, EndTryIs
<1>18. CASE EndFunc
  BY <1>18, EndFuncIs
<1>19. CASE \E kind \in {"call", "value"} : VarDef(kind)
  BY <1>19, VarDefIs
<1>20. CASE \E braces \in BOOLEAN : \E cond \in Conds : IfStmt(cond, braces)
  BY <1>20, IfStmtIs
<1>21. CASE \E braces \in BOOLEAN : \E cond \in Conds : WhileStmt(cond, braces)
  BY <1>21, WhileStmtIs
<1>22. CASE \E braces \in BOOLEAN : \E iter \in BOOLEAN : ForStmt(iter, braces)
  BY <1>22, ForStmtIs
<1>23. CASE \E braces \in BOOLEAN : ElseClause(braces)
  BY <1>23, ElseClauseIs
<1>24. CASE \E x \in ExTypes : CatchClause(x)
  BY <1>24, CatchClauseIs
<1>25. CASE Execute \/ Halted \/ UNCHANGED vars
  BY <1>25, ExecuteIs
<1> QED
  BY <1>1, <1>2, <1>3, <1>4, <1>5, <1>6, <1>7, <1>8, <1>9, <1>10, <1>11, <1>12,
      <1>13, <1>14, <1>15, <1>16, <1>17, <1>18, <1>19, <1>20, <1>21, <1>22, <1>23,
      <1>24, <1>25, Zenon DEF Next, Parse

\* In an open block there is no terminator, in a closed one only the last.
LEMMA BlockEnds ==
  ASSUME NEW s, Open(s) \/ Closed(s)
  PROVE  /\ \A i \in 1 .. (Len(s) - 1) : s[i].op \notin Terminators
         /\ Open(s) <=> ~(s # <<>> /\ Last(s).op \in Terminators)
<1>1. IsSeq(s)
  BY DEF Open, Closed
<1>2. Len(s) \in Nat /\ DOMAIN s = 1 .. Len(s) /\ (s = <<>> <=> Len(s) = 0)
  BY <1>1, SeqFacts
<1>3. CASE Open(s)
  <2>1. \A i \in 1 .. Len(s) : s[i].op \notin Terminators
    BY <1>2, <1>3 DEF Open
  <2>2. s # <<>> => Last(s).op \notin Terminators
    BY <1>2, <2>1 DEF Last
  <2> QED
    BY <1>2, <1>3, <2>1, <2>2
<1>4. CASE Closed(s)
  <2>1. /\ s # <<>> /\ Last(s).op \in Terminators
        /\ \A i \in 1 .. (Len(s) - 1) : s[i].op \notin Terminators
    BY <1>4 DEF Closed, Last
  <2>2. Len(s) \in DOMAIN s /\ s[Len(s)].op \in Terminators
    BY <1>2, <1>4 DEF Closed
  <2>3. ~Open(s)
    BY <2>2 DEF Open
  <2> QED
    BY <2>1, <2>3
<1> QED
  BY <1>3, <1>4

LEMMA StmtInvImplies ==
  ASSUME StmtInv
  PROVE  TerminalIsTerminated
<1>1. \A b \in DOMAIN g.code : Open(g.code[b]) \/ Closed(g.code[b])
  BY DEF StmtInv, GenOK, CodeOK
<1>2. g.at \in DOMAIN g.code
  BY DEF StmtInv, GenOK, CodeOK
<1>3. ASSUME phase = "stmt"
      PROVE  g.ctx[g.cur].terminal
               <=> g.code[g.at] # <<>> /\ Last(g.code[g.at]).op \in Terminators
  <2>1. OpenOK(g, stk, Len(stk), Live(g, phase, result))
    BY <1>3 DEF StmtInv, Parsing
  <2>2. g.at \in Opens(g) <=> Live(g, phase, result)
    BY <2>1 DEF OpenOK
  <2>3. Live(g, phase, result) <=> ~g.ctx[g.cur].terminal
    BY <1>3 DEF Live
  <2>4. g.at \in Opens(g) <=> Open(g.code[g.at])
    BY <1>2 DEF Opens
  <2>5. Open(g.code[g.at])
          <=> ~(g.code[g.at] # <<>> /\ Last(g.code[g.at]).op \in Terminators)
    BY <1>1, <1>2, BlockEnds
  <2> QED
    BY <2>2, <2>3, <2>4, <2>5
<1>4. ASSUME NEW b \in DOMAIN g.code
      PROVE  /\ \A i \in 1 .. (Len(g.code[b]) - 1) : g.code[b][i].op \notin Terminators
             /\ phase = "run" => g.code[b] # <<>> /\ Last(g.code[b]).op \in Terminators
  <2>1. /\ \A i \in 1 .. (Len(g.code[b]) - 1) : g.code[b][i].op \notin Terminators
        /\ Open(g.code[b]) <=> ~(g.code[b] # <<>> /\ Last(g.code[b]).op \in Terminators)
    BY <1>1, BlockEnds
  <2>2. phase = "run" => ~Open(g.code[b])
    BY DEF StmtInv, Opens
  <2> QED
    BY <2>1, <2>2
<1> QED
  BY <1>3, <1>4 DEF TerminalIsTerminated

-----------------------------------------------------------------------------

\* In every program, whatever its length and its nesting, the parser's terminal flag
\* and the generated code agree (parseBlock's unreachable code check and the
\* terminators that the builder emits): the insert point is closed exactly when the
\* context is terminal, no block has an instruction after its terminator, and every
\* block of a finished function ends in one.
THEOREM Terminated == Spec => []TerminalIsTerminated
<1>1. Init => StmtInv /\ TopInv
  BY InitIs
<1>2. StmtInv /\ TopInv /\ [Next]_vars => (StmtInv /\ TopInv)'
  BY NextIs
<1>3. StmtInv => TerminalIsTerminated
  BY StmtInvImplies
<1> QED
  BY <1>1, <1>2, <1>3, PTL DEF Spec
=============================================================================
