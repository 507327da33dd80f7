------------------------------ MODULE CodeGen ------------------------------
(***************************************************************************)
(* The part of the LLVM builder that turns structured statements into      *)
(* basic blocks: branches, the cleanup frames of each compilation context, *)
(* the unwind blocks and landing pads derived from them, and the selectors *)
(* of try statements (src/builder/llvm/LLVMBuilder.cc, BCleanupFrame.cc,   *)
(* BBuilderContextData.cc, with src/model/Context.cc).                     *)
(*                                                                         *)
(* The builder is a single-threaded library of methods that mutate the     *)
(* contexts and the function being generated, so it is written as          *)
(* operators from a generator state g to a generator state.  g has         *)
(*   ctx   the contexts; 1 is the one outside the function, 2 is the       *)
(*         toplevel context of the function, a parent precedes its child   *)
(*   fr    the cleanup frames, each with its cleanups, oldest first        *)
(*   cl    the cleanups; a cleanup stands for the variable or temporary    *)
(*         that it releases                                                *)
(*   code  the basic blocks, each a sequence of instructions               *)
(*   at    the insert point                                                *)
(*   cur   the parser's current context                                    *)
(*   del   the first block of the module's cleanup function, 0 if none      *)
(* An invoke ends a basic block in LLVM.  Here it is an instruction whose  *)
(* field ex is its landing pad, and the block goes on where the normal     *)
(* destination would begin.                                                *)
(***************************************************************************)
EXTENDS Naturals, Sequences, SequencesExt, FiniteSets, FiniteSetsExt

CONSTANTS ExTypes,      \* the exception classes
          Ancestors     \* Ancestors[x]: x and the classes x is derived from

ASSUME AncestorsAssumption ==
    /\ Ancestors \in [ExTypes -> SUBSET ExTypes]
    /\ \A x \in ExTypes : x \in Ancestors[x]

IsDerivedFrom(x, y) == y \in Ancestors[x]

Outside  == 1
Toplevel == 2
-----------------------------------------------------------------------------
(* Contexts and cleanup frames (src/model/Context.cc).                     *)

NoLoop == [end |-> 0, again |-> 0, ctx |-> 0]

\* The Context constructor: a context starts with one empty cleanup frame.
NewContext(parent, path, frame) ==
    [parent   |-> parent,
     path     |-> path,         \* the contexts from the function's down to it
     terminal |-> FALSE,        \* a terminal statement has been parsed in it
     loop     |-> NoLoop,       \* its break and continue branchpoint
     catch    |-> 0,            \* the catch switch of its catch branchpoint
     frames   |-> <<frame>>,    \* outermost first
     unwind   |-> 0,            \* the block that resumes the unwind
     body     |-> 0,            \* of a try statement: the context of its block
     catches  |-> <<>>,         \* of a try statement: its CatchData
     clauses  |-> 0,            \*    how many of catches are its own
     nested   |-> <<>>,
     nonTerminal |-> FALSE]

NewFrame(c) == [ctx |-> c, cleanups |-> <<>>, lp |-> 0]

createSubContext(g, parent) ==
    LET new == Len(g.ctx) + 1
    IN  [g EXCEPT !.ctx = Append(@, NewContext(parent,
                                               Append(g.ctx[parent].path, new),
                                               Len(g.fr) + 1)),
                  !.fr  = Append(@, NewFrame(new)),
                  !.cur = new]

\* The contexts from the function's down to c, along their parents.
Path(g, c) == g.ctx[c].path

Encloses(g, outer, c) == outer = Outside \/ Contains(Path(g, c), outer)

\* The contexts below outer, which encloses c, down to c.
InnerContexts(g, c, outer) ==
    SubSeq(Path(g, c), Len(Path(g, outer)) + 1, Len(Path(g, c)))

Scope(g, c) == UNION {Range(g.ctx[x].frames) : x \in Range(Path(g, c))}

\* The nearest context with a break (and continue) branchpoint, 0 if none.
getBreak(g, c) ==
    LET loops == {i \in DOMAIN Path(g, c) : g.ctx[Path(g, c)[i]].loop # NoLoop}
    IN  IF loops = {} THEN 0 ELSE Path(g, c)[Max(loops)]

getCatch(g, c) ==
    LET tries == {i \in DOMAIN Path(g, c) : g.ctx[Path(g, c)[i]].catch # 0}
    IN  IF tries = {} THEN Toplevel ELSE Path(g, c)[Max(tries)]
-----------------------------------------------------------------------------
(* Blocks and instructions.                                                *)

NextBlock(g) == Len(g.code) + 1
AddBlock(g, instructions) == [g EXCEPT !.code = Append(@, instructions)]
AddBlocks(g, k) == [g EXCEPT !.code = @ \o [i \in 1..k |-> <<>>]]
SetInsertPoint(g, b) == [g EXCEPT !.at = b]
Emit(g, instruction) == [g EXCEPT !.code[g.at] = Append(@, instruction)]

Br(b) == [op |-> "br", to |-> {b}]
CondBr(g, t, f) ==
    Emit(g, [op |-> "cond", to |-> {t, f}, scope |-> Scope(g, g.cur)])
Unreachable == [op |-> "unreachable"]
Ret(scope) == [op |-> "ret", scope |-> scope]

Terminators == {"br", "cond", "ret", "resume", "switch", "throw", "unreachable"}
-----------------------------------------------------------------------------
(* Unwinding: landing pads, unwind blocks and their caches.                *)

createLandingPad(g, next, try) ==
    AddBlock(g, <<[op |-> "lp", try |-> try], Br(next)>>)

\* The landing pad of frame f for an unwind path: it is cached with the newest
\* cleanup of the frame, or with the frame when it is empty.
getLandingPad(path, f, try) ==
    LET g      == path.g
        newest == IF g.fr[f].cleanups = <<>> THEN 0 ELSE Last(g.fr[f].cleanups)
        cached == IF newest = 0 THEN g.fr[f].lp ELSE g.cl[newest].lp
        made   == createLandingPad(g, path.next, try)
    IN  IF cached # 0 THEN [g |-> g, lp |-> cached]
        ELSE [g  |-> IF newest = 0
                     THEN [made EXCEPT !.fr[f].lp = NextBlock(g)]
                     ELSE [made EXCEPT !.cl[newest].lp = NextBlock(g)],
              lp |-> NextBlock(g)]

\* The cleanups of a frame that an unwind runs: those behind the one that is
\* being emitted by close(), if there is one.
Pending(g, f) ==
    LET all  == g.fr[f].cleanups
        busy == {i \in DOMAIN all : g.cl[all[i]].busy}
    IN  IF busy = {} THEN all ELSE SubSeq(all, 1, Min(busy) - 1)

\* One step of BCleanupFrame::emitUnwindCleanups: the block of a cleanup is
\* emitted once, before the one of the next newer cleanup.  The release in it
\* is an invoke whose landing pad goes on with the same next block, with the
\* catch data of the try statement around the context.
UnwindCleanup(acc, v) ==
    LET g    == acc.g
        c    == g.fr[g.cl[v].fr].ctx
        try  == getCatch(g, c)
        pad  == IF g.ctx[try].catch # 0 THEN try ELSE 0
        made == createLandingPad(
                    AddBlock(g, <<[op |-> "clean", v |-> v, ctx |-> c,
                                   ex |-> NextBlock(g) + 1],
                                  Br(acc.next)>>),
                    acc.next, pad)
    IN  IF g.cl[v].unwind # 0
        THEN [acc EXCEPT !.next = g.cl[v].unwind]
        ELSE [g    |-> [made EXCEPT !.cl[v].unwind = NextBlock(g)],
              next |-> NextBlock(g)]

UnwindFrame(acc, f) == FoldLeft(UnwindCleanup, acc, Pending(acc.g, f))

\* Variant: only the newest frame of a context is unwound.
UnwindNewest(acc, c) == UnwindFrame(acc, Last(acc.g.ctx[c].frames))

UnwindContext(acc, c) == FoldLeft(UnwindFrame, acc, acc.g.ctx[c].frames)

\* The unwind path from c out to outer (not included) and then to final.
emitUnwindCleanups(g, c, outer, final) ==
    FoldLeft(UnwindContext, [g |-> g, next |-> final], InnerContexts(g, c, outer))

\* BBuilderContextData::getUnwindBlock: the block that resumes the unwind.
withUnwindBlock(g, c) ==
    IF g.ctx[c].unwind # 0 THEN g
    ELSE [AddBlock(g, <<[op |-> "resume", scope |-> {}]>>) EXCEPT
              !.ctx[c].unwind = NextBlock(g)]

\* The unwind path of a context that no try statement is around.
ResumePath(g, c) ==
    emitUnwindCleanups(g, c, Outside, g.ctx[Toplevel].unwind)

\* LLVMBuilder::getUnwindBlock: the landing pad for an invoke in context c.
getUnwindBlock(g, c) ==
    LET try == getCatch(g, c)
    IN  IF g.ctx[try].catch # 0
        THEN getLandingPad(emitUnwindCleanups(g, c, try, g.ctx[try].catch),
                           Last(g.ctx[c].frames), try)
        ELSE getLandingPad(ResumePath(withUnwindBlock(g, Toplevel), c),
                           Last(g.ctx[c].frames), 0)

\* An invoke that unwinds to u.
Invoke(u, instruction) == Emit(u.g, [instruction EXCEPT !.ex = u.lp])

\* emitFuncCall: a call in the current context that may throw.
emitFuncCall(g) ==
    Invoke(getUnwindBlock(g, g.cur),
           [op |-> "call", ctx |-> g.cur, ex |-> 0, scope |-> Scope(g, g.cur)])
-----------------------------------------------------------------------------
(* Cleanup frames.                                                         *)

createCleanupFrame(g) ==
    [g EXCEPT !.ctx[g.cur].frames = Append(@, Len(g.fr) + 1),
              !.fr = Append(@, NewFrame(g.cur))]

addCleanup(g) ==
    LET f == Last(g.ctx[g.cur].frames)
    IN  [g EXCEPT !.cl = Append(@, [fr |-> f, unwind |-> 0, lp |-> 0,
                                    busy |-> FALSE]),
                  !.fr[f].cleanups = Append(@, Len(g.cl) + 1)]

suppressCleanups(g) ==
    g.code[g.at] # <<>> /\ Last(g.code[g.at]) = Unreachable

CloseCleanup(g, v) ==
    LET c == g.fr[g.cl[v].fr].ctx
    IN  [Invoke(getUnwindBlock([g EXCEPT !.cl[v].busy = TRUE], c),
                [op |-> "clean", v |-> v, ctx |-> c, ex |-> 0])
            EXCEPT !.cl[v].busy = FALSE]

\* BCleanupFrame::close: the newest cleanup first.
close(g, f) ==
    IF suppressCleanups(g) THEN g
    ELSE FoldLeft(CloseCleanup, g, Reverse(g.fr[f].cleanups))

closeCleanupFrame(g) ==
    LET f == Last(g.ctx[g.cur].frames)
    IN  close([g EXCEPT !.ctx[g.cur].frames = Front(@)], f)

closeAllCleanups(g, c) == FoldLeft(close, g, Reverse(g.ctx[c].frames))

emitCleanupsTo(g, c, outer) ==
    FoldLeft(closeAllCleanups, g, Reverse(InnerContexts(g, c, outer)))

emitFunctionCleanups(g) == emitCleanupsTo(g, g.cur, Outside)

\* A productive value: it lives from here on, and the newest frame releases it.
HandleTransient(g) ==
    addCleanup(Emit(g, [op |-> "init", v |-> Len(g.cl) + 1,
                        scope |-> Scope(g, g.cur)]))

\* Context::emitVarDef.  "call" initialises the variable from a call; "value"
\* from something that calls nothing.
emitVarDef(g, kind) ==
    LET framed == createCleanupFrame(g)
        value  == IF kind = "call" THEN emitFuncCall(framed) ELSE framed
        stored == Emit(value, [op |-> "init", v |-> Len(g.cl) + 1,
                               scope |-> Scope(g, g.cur)])
    IN  addCleanup(closeCleanupFrame(stored))
-----------------------------------------------------------------------------
(* Branches and loops.  A condition is "plain" or makes a "call".          *)

Condition(g, cond) ==
    LET framed == createCleanupFrame(g)
    IN  closeCleanupFrame(IF cond = "plain" THEN framed ELSE emitFuncCall(framed))

\* emitIf and labeledIf: NextBlock(g) is the true block, the one after it the
\* false block.
emitIf(g, cond) ==
    LET t == NextBlock(g)
        h == Condition(AddBlocks(g, 2), cond)
    IN  SetInsertPoint(CondBr(h, t, t + 1), t)

\* emitElse and emitEndIf take the branchpoint's block and give its new value.
emitElse(g, block, terminal) ==
    LET after == NextBlock(g)
    IN  IF terminal THEN [g |-> SetInsertPoint(g, block), block |-> 0]
        ELSE [g |-> SetInsertPoint(Emit(AddBlock(g, <<>>), Br(after)), block),
              block |-> after]

emitEndIf(g, block, terminal) ==
    LET made  == IF ~terminal /\ block = 0 THEN AddBlock(g, <<>>) ELSE g
        after == IF ~terminal /\ block = 0 THEN NextBlock(g) ELSE block
        ended == IF terminal THEN made ELSE Emit(made, Br(after))
    IN  IF after = 0 THEN ended ELSE SetInsertPoint(ended, after)

\* A ternary expression with two productive values, each in its own frame.
emitTernary(g) ==
    LET t    == NextBlock(g)
        post == t + 2
        begun == CondBr(AddBlocks(g, 3), t, t + 1)
        arm(h, b) == Emit(Condition(SetInsertPoint(h, b), "call"), Br(post))
    IN  SetInsertPoint(arm(arm(begun, t), t + 1), post)

\* emitBeginWhile: the blocks while_end, while_cond, while_post (when there is
\* one) and while_body, in this order.  The loop's branchpoint is set in the
\* current context.
emitBeginWhile(g, cond, gotPost) ==
    LET end  == NextBlock(g)
        test == end + 1
        body == IF gotPost THEN end + 3 ELSE end + 2
        made == AddBlocks(g, body + 1 - end)
        h    == Condition(SetInsertPoint(Emit(made, Br(test)), test), cond)
    IN  [SetInsertPoint(CondBr(h, body, end), body) EXCEPT
            !.ctx[g.cur].loop =
                [end   |-> end,
                 again |-> IF gotPost THEN end + 2 ELSE test,
                 ctx   |-> g.cur]]

emitPostLoop(g, terminal) ==
    LET post == g.ctx[g.cur].loop.again
    IN  SetInsertPoint(IF terminal THEN g ELSE Emit(g, Br(post)), post)

\* The condition block follows while_end.
emitEndWhile(g, terminal) ==
    LET end == g.ctx[g.cur].loop.end
    IN  SetInsertPoint(IF terminal THEN g ELSE Emit(g, Br(end + 1)), end)

\* Variants: a break also cleans up the context of the loop, whose cleanups are
\* closed again after it; a continue cleans up nothing.
emitBreakInclusive(g, loop) ==
    Emit(emitCleanupsTo(g, g.cur, g.ctx[loop.ctx].parent), Br(loop.end))
emitContinueOnly(g, loop) == Emit(g, Br(loop.again))

emitBreak(g, loop) ==
    Emit(emitCleanupsTo(g, g.cur, loop.ctx), Br(loop.end))

emitContinue(g, loop) ==
    Emit(emitCleanupsTo(g, g.cur, loop.ctx), Br(loop.again))

emitReturn(g, gotExpr) ==
    Emit(emitFunctionCleanups(IF gotExpr THEN emitFuncCall(g) ELSE g), Ret({}))
-----------------------------------------------------------------------------
(* Exceptions.                                                             *)

Unreached(g) == SetInsertPoint(AddBlock(g, <<Unreachable>>), NextBlock(g))

\* The call of __CrackThrow, whose normal destination is never reached.
Throw(g, x) ==
    Unreached(Invoke(getUnwindBlock(g, g.cur),
                     [op |-> "throw", x |-> x, ctx |-> g.cur, ex |-> 0,
                      scope |-> Scope(g, g.cur)]))

\* Variant: the context is cleaned up before the throw as well as by the unwind.
emitThrowClosed(g, x) ==
    Throw(closeAllCleanups(Condition(g, "call"), g.cur), x)

\* The value is made by a call; the throw itself unwinds from the frame of the
\* context.
emitThrow(g, x) ==
    Throw(Condition(g, "call"), x)

\* emitBeginTry: the catch switch is an empty block until the first catch.
emitBeginTry(g) == AddBlock(g, <<>>)

CatchDefault(g) ==
    emitUnwindCleanups(g, g.ctx[g.cur].parent, Outside, g.ctx[g.cur].unwind)

CatchSwitch(path, switch) ==
    LET g == path.g
    IN  Emit(SetInsertPoint(g, switch),
             [op |-> "switch", try |-> g.cur, default |-> path.next,
              scope |-> Scope(g, g.ctx[g.cur].parent)])

\* The first catch: after_try, the branch to it and the catch switch, whose
\* default is the unwind path of everything around the try statement.
FirstCatch(g, switch, terminal) ==
    LET after == NextBlock(g)
        ended == IF terminal THEN AddBlock(g, <<>>)
                 ELSE Emit(AddBlock(g, <<>>), Br(after))
    IN  CatchSwitch(CatchDefault(withUnwindBlock(ended, g.cur)), switch)

CatchBlock(g, x, terminal) ==
    LET b == NextBlock(g)
    IN  [SetInsertPoint(AddBlock(g, <<>>), b) EXCEPT
            !.ctx[g.cur].catches = Append(@, [type |-> x, block |-> b]),
            !.ctx[g.cur].clauses = @ + 1,
            !.ctx[g.cur].nonTerminal = @ \/ ~terminal,
            !.code[b] = <<[op |-> "catch", ctx |-> g.cur, block |-> b,
                           scope |-> Scope(g, g.cur)]>>]

\* emitCatch in the context of the try statement; after is 0 for the first.
emitCatch(g, switch, after, x, terminal) ==
    CatchBlock(IF after = 0 THEN FirstCatch(g, switch, terminal)
               ELSE IF terminal THEN g ELSE Emit(g, Br(after)),
               x, terminal)

\* The frame that drops the runtime's exception object is never closed by
\* itself; it goes with the context.
emitExceptionCleanup(g) == HandleTransient(createCleanupFrame(g))

\* fixAllSelectors: a nested try statement gets the branches of its parent
\* that it will not already catch.  catchesToAdd is declared outside the loop,
\* and child.catches grows while it is compared with.
InheritBranch(acc, branch) ==
    LET unmatched == SelectSeq(acc.catches,
                               LAMBDA k : ~IsDerivedFrom(branch.type, k.type))
        add == acc.add \o [i \in DOMAIN unmatched |-> branch]
    IN  [catches |-> acc.catches \o add, add |-> add]

\* Variant: the branches of the parent are tried before the child's own.
InheritFirst(child, parent) == parent \o child

InheritCatches(child, parent) ==
    FoldLeft(InheritBranch, [catches |-> child, add |-> <<>>], parent).catches

FixChild(acc, child) ==
    [acc EXCEPT !.g.ctx[child].catches = InheritCatches(@, acc.catches)]

FixNested(g, try) ==
    FoldLeft(FixChild, [g |-> g, catches |-> g.ctx[try].catches],
             g.ctx[try].nested).g

\* The try contexts fixed together: a parent comes before what is nested in it.
FixBelow(acc, x) ==
    IF x \notin acc.below THEN acc
    ELSE [g |-> FixNested(acc.g, x),
          below |-> acc.below \union Range(acc.g.ctx[x].nested)]

fixAllSelectors(g, try) ==
    FoldLeft(FixBelow, [g |-> g, below |-> {try}], [x \in DOMAIN g.ctx |-> x]).g

\* emitEndTry: a nested try statement leaves its selectors to the enclosing one.
\* An erased block is one that nothing leads to.
emitEndTry(g, after, terminal) ==
    LET h == IF terminal THEN g
             ELSE [Emit(g, Br(after)) EXCEPT !.ctx[g.cur].nonTerminal = TRUE]
        open  == IF h.ctx[g.cur].nonTerminal THEN SetInsertPoint(h, after)
                 ELSE [h EXCEPT !.code[after] = <<Unreachable>>]
        outer == getCatch(g, g.ctx[g.cur].parent)
    IN  IF outer # Toplevel
        THEN [open EXCEPT !.ctx[outer].nested = Append(@, g.cur)]
        ELSE fixAllSelectors(open, g.cur)
-----------------------------------------------------------------------------
(* The start and the end of a function and of a module.                    *)

\* emitBeginFunc, with the context that parseFuncDef pushes.
BeginFunc ==
    LET outside == [NewContext(0, <<>>, 1) EXCEPT !.frames = <<>>]
    IN  [ctx  |-> <<outside, NewContext(Outside, <<Toplevel>>, 1)>>,
         fr   |-> <<NewFrame(Toplevel)>>,
         cl   |-> <<>>,
         code |-> <<<<>>>>,
         at   |-> 1,
         cur  |-> Toplevel,
         del  |-> 0]

\* emitEndFunc: an empty last block is removed.
emitEndFunc(g) ==
    IF g.code[g.at] = <<>> THEN [g EXCEPT !.code[g.at] = <<Unreachable>>] ELSE g

\* finishModule: main returns, then the same cleanups are generated again for
\* the module's cleanup function.
clearCachedCleanups(g) ==
    [g EXCEPT !.cl = [v \in DOMAIN @ |->
                        IF g.fr[g.cl[v].fr].ctx = Toplevel
                        THEN [@[v] EXCEPT !.unwind = 0, !.lp = 0] ELSE @[v]],
              !.fr = [f \in DOMAIN @ |->
                        IF @[f].ctx = Toplevel THEN [@[f] EXCEPT !.lp = 0]
                        ELSE @[f]],
              !.ctx[Toplevel].unwind = 0]

CleanupFunc(g) ==
    LET h == SetInsertPoint(AddBlock(g, <<>>), NextBlock(g))
    IN  [Emit(closeAllCleanups(h, Toplevel), Ret({})) EXCEPT
            !.del = NextBlock(g)]

finishModule(g) ==
    LET ended == g.code[g.at] # <<>> /\ Last(g.code[g.at]).op \in Terminators
        main  == IF ended THEN g ELSE Emit(g, Ret(Scope(g, Toplevel)))
    IN  CleanupFunc(clearCachedCleanups(main))
=============================================================================
