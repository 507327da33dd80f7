---------------------------- MODULE Statements ----------------------------
(***************************************************************************)
(* The statement parser (src/parser/Parser.cc) driving the builder of      *)
(* CodeGen, and the execution of the code it produces.                     *)
(*                                                                         *)
(* A program is chosen token by token: each action is the parser reading   *)
(* one statement or the end of one, and it performs the whole handler.     *)
(* stk holds what the recursive descent has open, innermost last: the      *)
(* construct, the context it was begun in and, for a braced block, the     *)
(* terminal context of its last statement.  A statement that the parser    *)
(* rejects with an error is not generated, except the missing return of a  *)
(* function that must return a value, which ends in phase "error".         *)
(*                                                                         *)
(* When the function is complete its code is run: m is the machine, live   *)
(* the variables and temporaries that have been initialised and not        *)
(* released.  Every condition goes both ways and every call may throw any  *)
(* exception.                                                              *)
(***************************************************************************)
EXTENDS CodeGen

CONSTANTS Kinds,        \* the statements that programs are made of
          Tops,         \* what is compiled: "void" and "value" functions, "module"
          MaxTokens,    \* statements and further catch clauses in a program
          MaxDepth,     \* open constructs
          ReleaseThrows \* whether "oper release" may throw

ASSUME StatementsAssumption ==
    /\ Tops \subseteq {"void", "value", "module"}
    /\ {MaxTokens, MaxDepth} \subseteq Nat
    /\ ReleaseThrows \in BOOLEAN

VARIABLES g,            \* the builder's state
          stk, phase, result, tokens, top,
          m             \* the machine that runs the code

vars == <<g, stk, phase, result, tokens, top, m>>
parser == <<stk, phase, result, tokens, top>>

Idle == [blk |-> 0, pc |-> 0, live |-> {}, exc |-> "none", org |-> 0, sel |-> 0]

Init ==
    /\ g = BeginFunc
    /\ top \in Tops
    /\ stk = <<[k |-> "func", braces |-> TRUE, ctx |-> Outside, term |-> 0]>>
    /\ phase = "stmt"
    /\ result = 0
    /\ tokens = 0
    /\ m = Idle

Construct == Last(stk)
-----------------------------------------------------------------------------
(* Statements.  terminal is the context that the statement leaves to, 0    *)
(* when control can go on after it.                                        *)

\* parseBlock after a statement; a clause of one statement ends with it.
Return(stack, h, terminal) ==
    LET open == Last(stack)
        leaves == terminal # 0 /\ terminal # h.cur
    IN  /\ UNCHANGED <<top, m>>
        /\ IF open.braces
           THEN /\ g' = IF leaves THEN [h EXCEPT !.ctx[h.cur].terminal = TRUE]
                        ELSE h
                /\ stk' = [stack EXCEPT ![Len(stack)].term =
                               IF leaves THEN terminal ELSE 0]
                /\ phase' = "stmt"
                /\ result' = 0
           ELSE /\ g' = h
                /\ stk' = stack
                /\ phase' = "end"
                /\ result' = terminal

\* Anything after a terminal statement is an "unreachable code" error.
Reads(kind) ==
    /\ phase = "stmt"
    /\ kind \in Kinds
    /\ tokens < MaxTokens
    /\ ~g.ctx[g.cur].terminal
    /\ tokens' = tokens + 1

Statement(kind, h, terminal) == Reads(kind) /\ Return(stk, h, terminal)

NullStmt ==
    /\ phase = "stmt" /\ ~Construct.braces
    /\ tokens' = tokens
    /\ Return(stk, g, 0)

VarDef(kind) == /\ Construct.braces
                /\ Statement(kind, emitVarDef(g, kind), 0)

\* parseClause: an expression has a cleanup frame of its own.
ExprStmt ==
    Statement("expr",
        closeCleanupFrame(HandleTransient(emitFuncCall(createCleanupFrame(g)))), 0)

TernaryStmt ==
    Statement("ternary",
        closeCleanupFrame(HandleTransient(emitTernary(createCleanupFrame(g)))), 0)

ReturnStmt ==
    /\ top # "module"
    /\ Statement("return", emitReturn(g, top = "value"), Outside)

BreakStmt ==
    LET loop == g.ctx[getBreak(g, g.cur)].loop
    IN  /\ getBreak(g, g.cur) # 0
        /\ Statement("break", emitBreak(g, loop), loop.ctx)

ContinueStmt ==
    LET loop == g.ctx[getBreak(g, g.cur)].loop
    IN  /\ getBreak(g, g.cur) # 0
        /\ Statement("continue", emitContinue(g, loop), loop.ctx)

ThrowStmt ==
    LET try == getCatch(g, g.cur)
    IN  \E x \in ExTypes :
            Statement("throw", emitThrow(g, x),
                      IF try = Toplevel THEN Outside ELSE try)
-----------------------------------------------------------------------------
(* Clauses.                                                                *)

\* parseIfClause: the clause is parsed in a context of its own.
Clause(open, h) ==
    /\ g' = createSubContext(h, h.cur)
    /\ stk' = Append(stk, [open EXCEPT !.ctx = h.cur])
    /\ phase' = "stmt"
    /\ result' = 0
    /\ UNCHANGED <<top, m>>

Nests == Len(stk) <= MaxDepth

\* The end of the innermost clause: its context is popped.
Ended(k) == phase = "end" /\ Construct.k = k
Popped == [g EXCEPT !.cur = Construct.ctx]
\* The construct itself is popped with the context it was parsed in.
Leave(h) == [h EXCEPT !.cur = h.ctx[h.cur].parent]

\* parseBlock at the closing brace.
CloseBrace ==
    /\ phase = "stmt" /\ Construct.braces
    /\ g' = IF g.ctx[g.cur].terminal \/ (Construct.k = "func" /\ top = "module")
            THEN g ELSE closeAllCleanups(g, g.cur)
    /\ phase' = "end"
    /\ result' = Construct.term
    /\ UNCHANGED <<stk, tokens, top, m>>

\* A condition that defines a variable does so in the context of the statement.
Defines(h, cond) == IF cond = "define" THEN emitVarDef(h, "value") ELSE h

IfStmt(cond, braces) ==
    LET h == Defines(createSubContext(g, g.cur), cond)
    IN  /\ Nests
        /\ Reads(IF cond = "define" THEN "ifdefine" ELSE "if")
        /\ Clause([k |-> "then", ctx |-> 0, braces |-> braces, term |-> 0,
                   block |-> NextBlock(h) + 1],
                  emitIf(h, cond))

\* After the first clause the parser looks for an else.
EndThen ==
    /\ Ended("then")
    /\ g' = Popped
    /\ phase' = "else"
    /\ UNCHANGED <<stk, result, tokens, top, m>>

ElseClause(braces) ==
    LET e == emitElse(g, Construct.block, result # 0)
    IN  /\ phase = "else"
        /\ UNCHANGED tokens
        /\ g' = createSubContext(e.g, g.cur)
        /\ stk' = [stk EXCEPT ![Len(stk)] =
                     [k |-> "else", block |-> e.block, first |-> result,
                      ctx |-> g.cur, braces |-> braces, term |-> 0]]
        /\ phase' = "stmt"
        /\ result' = 0
        /\ UNCHANGED <<top, m>>

NoElse ==
    LET h == emitEndIf(g, Construct.block, result # 0)
    IN  /\ phase = "else"
        /\ UNCHANGED tokens
        /\ Return(Front(stk), Leave(closeAllCleanups(h, h.cur)), 0)

\* Variant: one terminal clause is enough.
EndElseEither ==
    LET h == emitEndIf(Popped, Construct.block, result # 0)
        either == IF result # 0 THEN result ELSE Construct.first
    IN  /\ Ended("else")
        /\ UNCHANGED tokens
        /\ IF either # 0 THEN Return(Front(stk), Leave(h), either)
           ELSE Return(Front(stk), Leave(closeAllCleanups(h, h.cur)), 0)

\* The statement is terminal if both clauses are, to the innermost of the two.
EndElse ==
    LET h == emitEndIf(Popped, Construct.block, result # 0)
        first == Construct.first
    IN  /\ Ended("else")
        /\ UNCHANGED tokens
        /\ IF first # 0 /\ result # 0
           THEN Return(Front(stk), Leave(h),
                       IF Encloses(h, first, result) THEN result ELSE first)
           ELSE Return(Front(stk), Leave(closeAllCleanups(h, h.cur)), 0)

WhileStmt(cond, braces) ==
    /\ Nests
    /\ Reads(IF cond = "define" THEN "whiledefine" ELSE "while")
    /\ Clause([k |-> "while", ctx |-> 0, braces |-> braces, term |-> 0],
              emitBeginWhile(Defines(createSubContext(g, g.cur), cond), cond,
                             FALSE))

EndWhile ==
    /\ Ended("while")
    /\ UNCHANGED tokens
    /\ Return(Front(stk), Leave(emitEndWhile(Popped, result # 0)), 0)

\* The iteration form defines the iterator and the element in the context of
\* the loop and calls before and after the body; the bare form is for (;;).
ForStmt(iter, braces) ==
    LET h == createSubContext(g, g.cur)
        begun == emitBeginWhile(emitVarDef(emitVarDef(h, "call"), "value"),
                                "call", TRUE)
    IN  /\ Nests
        /\ Reads(IF iter THEN "foriter" ELSE "for")
        /\ Clause([k |-> "for", ctx |-> 0, braces |-> braces, term |-> 0,
                   iter |-> iter],
                  IF iter THEN Condition(begun, "call")
                  ELSE emitBeginWhile(h, "plain", FALSE))

EndFor ==
    LET body == IF Construct.iter
                THEN Condition(emitPostLoop(Popped, result # 0), "call")
                ELSE Popped
        h == emitEndWhile(body, result # 0 /\ ~Construct.iter)
    IN  /\ Ended("for")
        /\ UNCHANGED tokens
        /\ Return(Front(stk), Leave(closeAllCleanups(h, h.cur)), 0)

\* parseTryStmt: the context of the statement has the catch branchpoint while
\* its block, in a further context, is parsed.
TryStmt ==
    LET h == createSubContext(emitBeginTry(g), g.cur)
    IN  /\ Nests
        /\ Reads("try")
        /\ Clause([k |-> "try", ctx |-> 0, braces |-> TRUE, term |-> 0,
                   switch |-> NextBlock(g)],
                  [h EXCEPT !.ctx[h.cur].body = Len(h.ctx) + 1,
                            !.ctx[h.cur].catch = NextBlock(g)])

EndTryBlock ==
    /\ Ended("try")
    /\ g' = [Popped EXCEPT !.ctx[Construct.ctx].catch = 0]
    /\ stk' = [stk EXCEPT ![Len(stk)] =
                  [k |-> "catch", switch |-> Construct.switch, after |-> 0,
                   all |-> result, ctx |-> Construct.ctx, braces |-> TRUE,
                   term |-> 0]]
    /\ phase' = "catch"
    /\ UNCHANGED <<result, tokens, top, m>>

\* The exception variable and the exception cleanup are in the context of the
\* catch clause.
CatchClause(x) ==
    LET h == emitCatch(g, Construct.switch, Construct.after, x, result # 0)
        c == createSubContext(h, g.cur)
    IN  /\ phase = "catch"
        /\ IF g.ctx[g.cur].clauses = 0 THEN UNCHANGED tokens
           ELSE tokens < MaxTokens /\ tokens' = tokens + 1
        /\ g' = emitExceptionCleanup(emitVarDef(c, "value"))
        /\ stk' = [stk EXCEPT ![Len(stk)].term = 0,
                              ![Len(stk)].after =
                                  IF @ = 0 THEN NextBlock(g) ELSE @]
        /\ phase' = "stmt"
        /\ result' = 0
        /\ UNCHANGED <<top, m>>

EndCatch ==
    LET all == Construct.all
    IN  /\ Ended("catch")
        /\ g' = Popped
        /\ stk' = [stk EXCEPT ![Len(stk)].all =
                     IF result = 0 THEN 0
                     ELSE IF all # 0 /\ Encloses(g, all, result) THEN result
                     ELSE all]
        /\ phase' = "catch"
        /\ UNCHANGED <<result, tokens, top, m>>

EndTry ==
    /\ phase = "catch"
    /\ g.ctx[g.cur].clauses > 0
    /\ UNCHANGED tokens
    /\ Return(Front(stk), Leave(emitEndTry(g, Construct.after, result # 0)),
              Construct.all)

\* The end of parseFuncDef, or of the module.
EndFunc ==
    LET returned == IF result # 0 THEN g
                    ELSE emitReturn([g EXCEPT !.ctx[Toplevel].frames = <<>>], FALSE)
    IN  /\ Ended("func")
        /\ g' = CASE top = "module" -> finishModule(g)
                  [] top = "void"   -> emitEndFunc(returned)
                  [] top = "value"  -> emitEndFunc(g)
        /\ phase' = IF top = "value" /\ result = 0 THEN "error" ELSE "run"
        /\ m' = [Idle EXCEPT !.blk = 1, !.pc = 1]
        /\ UNCHANGED <<stk, result, tokens, top>>

Conds == {"plain", "define"}

Parse ==
    \/ NullStmt \/ ExprStmt \/ TernaryStmt \/ ReturnStmt \/ BreakStmt
    \/ ContinueStmt \/ ThrowStmt \/ CloseBrace
    \/ \E kind \in {"call", "value"} : VarDef(kind)
    \/ \E braces \in BOOLEAN :
          \/ \E cond \in Conds : IfStmt(cond, braces) \/ WhileStmt(cond, braces)
          \/ \E iter \in BOOLEAN : ForStmt(iter, braces)
          \/ ElseClause(braces)
    \/ EndThen \/ NoElse \/ EndElse \/ EndWhile \/ EndFor
    \/ TryStmt \/ EndTryBlock \/ EndCatch \/ EndTry
    \/ \E x \in ExTypes : CatchClause(x)
    \/ EndFunc
-----------------------------------------------------------------------------
(* Execution.                                                              *)

Instruction == g.code[m.blk][m.pc]

Jump(b) == [m EXCEPT !.blk = b, !.pc = 1]
Step == [m EXCEPT !.pc = @ + 1]

Running(ops) ==
    /\ phase = "run"
    /\ m.blk # 0
    /\ Instruction.op \in ops
    /\ UNCHANGED <<g, parser>>

Advance ==
    /\ Running({"init", "clean", "call", "catch"})
    /\ m' = CASE Instruction.op = "init"  -> [Step EXCEPT !.live = @ \union {Instruction.v}]
              [] Instruction.op = "clean" -> [Step EXCEPT !.live = @ \ {Instruction.v}]
              [] Instruction.op = "catch" -> [Step EXCEPT !.exc = "none", !.sel = 0]
              [] OTHER -> Step

\* An exception leaves through the landing pad of the call; a variable whose
\* release throws has been released.
Raise(x) ==
    m' = [Jump(Instruction.ex) EXCEPT
             !.exc = x, !.org = Instruction.ctx,
             !.live = IF Instruction.op = "clean" THEN @ \ {Instruction.v} ELSE @]

CallThrows ==
    /\ Running({"call"} \union IF ReleaseThrows THEN {"clean"} ELSE {})
    /\ \E x \in ExTypes : Raise(x)

Throws == Running({"throw"}) /\ Raise(Instruction.x)

\* The personality routine: the index of the first clause that matches.
LandingPad ==
    LET catches == IF Instruction.try = 0 THEN <<>> ELSE g.ctx[Instruction.try].catches
    IN  /\ Running({"lp"})
        /\ m' = [Step EXCEPT !.sel =
                    SelectInSeq(catches, LAMBDA k : IsDerivedFrom(m.exc, k.type))]

Switch ==
    LET catches == g.ctx[Instruction.try].catches
    IN  /\ Running({"switch"})
        /\ m' = Jump(IF m.sel \in DOMAIN catches THEN catches[m.sel].block
                     ELSE Instruction.default)

Branch == Running({"br", "cond"}) /\ \E b \in Instruction.to : m' = Jump(b)

\* When the main function of a module has returned, its cleanup function runs.
Leaves ==
    /\ Running({"ret", "resume"})
    /\ m' = IF Instruction.op = "ret" /\ m.blk < g.del THEN Jump(g.del)
            ELSE [m EXCEPT !.blk = 0, !.pc = 0]

Execute == Advance \/ CallThrows \/ Throws \/ LandingPad \/ Switch \/ Branch \/ Leaves

Halted == (phase = "error" \/ (phase = "run" /\ m.blk = 0)) /\ UNCHANGED vars

Next == Parse \/ Execute \/ Halted

Spec == Init /\ [][Next]_vars
-----------------------------------------------------------------------------
(* Properties.                                                             *)

TypeOK ==
    /\ phase \in {"stmt", "end", "else", "catch", "run", "error"}
    /\ tokens \in 0..MaxTokens
    /\ g.at \in DOMAIN g.code
    /\ g.cur \in DOMAIN g.ctx
    /\ m.live \subseteq DOMAIN g.cl

\* The flag that a block has had a terminal statement and the code agree: where
\* the parser would accept a statement the insert point is open, and where it
\* would report unreachable code it is not.  So no block has two terminators, and
\* in the finished function every block has one.
TerminalIsTerminated ==
    /\ phase = "stmt" =>
         (g.ctx[g.cur].terminal
             <=> g.code[g.at] # <<>> /\ Last(g.code[g.at]).op \in Terminators)
    /\ \A b \in DOMAIN g.code :
         /\ \A i \in 1..(Len(g.code[b]) - 1) : g.code[b][i].op \notin Terminators
         /\ phase = "run" => g.code[b] # <<>> /\ Last(g.code[b]).op \in Terminators

Executes == phase = "run" /\ m.blk # 0

\* No path through the code releases something that is not there to release:
\* a variable that was never initialised, or one that was released before.
ReleasedOnce ==
    Executes /\ Instruction.op = "clean" => Instruction.v \in m.live

\* No path leaves a variable behind: what is live at an instruction belongs to a
\* frame that was open where the instruction was generated, a loop does not
\* initialise a variable that is still live, and nothing is live at the end.
NothingLeaks ==
    /\ Executes /\ Instruction.op \in {"init", "call", "cond", "ret", "resume",
                                       "switch", "catch", "throw"}
          => \A v \in m.live : g.cl[v].fr \in Instruction.scope
    /\ Executes /\ Instruction.op = "init" => Instruction.v \notin m.live
    /\ phase = "run" /\ m.blk = 0 => m.live = {}

\* The clause the source says: of the try statements whose block encloses the
\* throwing context, the innermost that has a matching clause, and its first.
Handler(c, x) ==
    LET path  == Path(g, c)
        tries == {i \in DOMAIN path :
                    /\ Contains(path, g.ctx[path[i]].body)
                    /\ \E j \in 1..g.ctx[path[i]].clauses :
                          IsDerivedFrom(x, g.ctx[path[i]].catches[j].type)}
        k == g.ctx[path[Max(tries)]]
    IN  IF tries = {} THEN 0
        ELSE k.catches[SelectInSeq(k.catches,
                           LAMBDA b : IsDerivedFrom(x, b.type))].block

\* The flattened selectors and switches dispatch like the nested source: an
\* exception arrives at the clause of its handler, and it leaves the function
\* only if there is none.
CaughtByInnermost ==
    Executes =>
        /\ Instruction.op = "catch" => Instruction.block = Handler(m.org, m.exc)
        /\ Instruction.op = "resume" => Handler(m.org, m.exc) = 0
=============================================================================
