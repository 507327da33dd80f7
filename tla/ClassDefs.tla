----------------------------- MODULE ClassDefs -----------------------------
(***************************************************************************)
(* Class definitions: the parser (src/parser/Parser.cc) and the builder    *)
(* (src/builder/llvm) assigning vtable slots, filling the vtables and      *)
(* storing them in new instances.                                          *)
(*                                                                         *)
(* A program is chosen token by token: a class begins, a method is         *)
(* declared or defined, a class ends.  What the parser rejects with an     *)
(* error is not generated.  Classes nest, and a nested class may derive    *)
(* from a class that is still open; its vtables are then made when that    *)
(* class ends.  All methods have the same signature, so that a name stands *)
(* for an overload; the special methods are "oper class" and "oper del".   *)
(***************************************************************************)
EXTENDS Naturals, FiniteSets, SequencesExt

CONSTANTS Names,       \* the names of the methods that programs define; a
                       \* program does not define the special methods
          Forms,       \* the forms of base class lists, see Form
          MaxClasses,  \* classes of a program
          MaxTokens    \* base classes, declarations and definitions of a program

ASSUME ClassDefsAssumption ==
    /\ Names \intersect {"oper class", "oper del"} = {}
    /\ {MaxClasses, MaxTokens} \subseteq Nat

VARIABLES m,      \* the definitions: [types, funcs, failed]
          open,   \* the classes being defined, innermost last
          tokens

vars == <<m, open, tokens>>

VTableBase == 1
FreeBase == 2
Object == 3
-----------------------------------------------------------------------------
(* Types and functions.  A function has the slot and the receiver type of  *)
(* its first declaration; decl is that declaration, for the properties.    *)

Ancestors(h, t) ==
    LET up[x \in DOMAIN h.types] ==
            {x} \union UNION {up[p] : p \in Range(h.types[x].parents)}
    IN  up[t]

Own(h, t) == {f \in DOMAIN h.funcs : h.funcs[f].owner = t}

\* The function that a name means in type t: the first of its own overload,
\* then those of its parents in order; 0 if there is none.
lookUp(h, t, n) ==
    LET find[x \in DOMAIN h.types] ==
            LET own  == {f \in Own(h, x) : h.funcs[f].name = n}
                ps   == h.types[x].parents
                hits == {i \in DOMAIN ps : find[ps[i]] # 0}
            IN  IF own # {} THEN Min(own)
                ELSE IF hits = {} THEN 0 ELSE find[ps[Min(hits)]]
    IN  find[t]

\* The index of the first parent with a vtable, 0 if there is none.
FirstVTableParent(h, t) ==
    SelectInSeq(h.types[t].parents, LAMBDA p : h.types[p].hasVTable)

\* The ancestor whose vtable holds the functions of t, which has one: the ancestor
\* derived directly from VTableBase.
findFirstVTable(h, t) ==
    LET first[x \in {y \in DOMAIN h.types : h.types[y].hasVTable}] ==
            LET p == h.types[x].parents[FirstVTableParent(h, x)]
            IN  IF x = VTableBase \/ p = VTableBase THEN x ELSE first[p]
    IN  first[t]

\* An override has the slot and the receiver type of what it overrides.
wrapOverride(h, func, existing) ==
    [func EXCEPT !.slot = h.funcs[existing].slot,
                 !.receiver = h.funcs[existing].receiver,
                 !.decl = h.funcs[existing].decl]

\* initializeMethodInfo: any other virtual function has the next slot of its
\* class.
addMethod(h, t, n, virtual, kind, existing) ==
    LET func == [name |-> n, owner |-> t, virtual |-> virtual, kind |-> kind,
                 slot |-> h.types[t].next, receiver |-> t,
                 decl |-> Len(h.funcs) + 1]
    IN  [h EXCEPT !.funcs = Append(@, IF virtual /\ existing # 0
                                      THEN wrapOverride(h, func, existing)
                                      ELSE func),
                  !.types[t].next =
                      IF virtual /\ existing = 0 THEN @ + 1 ELSE @]

createOperClass(h, t) ==
    addMethod(h, t, "oper class", TRUE, "defined", lookUp(h, t, "oper class"))

\* Variant: the destructor of the base class is not looked up.
DestructorAlone(h, t) ==
    addMethod(h, t, "oper del", h.types[t].hasVTable, "defined", 0)

\* A virtual destructor does not override one that is not virtual.
createDefaultDestructor(h, t) ==
    LET del == lookUp(h, t, "oper del")
        override == IF del # 0 /\ h.types[t].hasVTable /\ ~h.funcs[del].virtual
                    THEN 0 ELSE del
    IN  addMethod(h, t, "oper del", h.types[t].hasVTable, "defined", override)

\* Variant: the slots continue those of the last base class with a vtable.
NextSlotOfLast(h, bases) ==
    LET last == SelectLastInSeq(bases, LAMBDA b : h.types[b].hasVTable)
    IN  IF last = 0 THEN 0 ELSE h.types[bases[last]].next

\* The slots of a class continue those of its first base class with a vtable.
NextSlot(h, bases) ==
    LET first == SelectInSeq(bases, LAMBDA b : h.types[b].hasVTable)
    IN  IF first = 0 THEN 0 ELSE h.types[bases[first]].next

\* emitBeginClass and the part of parseClassDef before the body.
emitBeginClass(h, bases, abstract) ==
    LET t == Len(h.types) + 1
        begun == [h EXCEPT !.types = Append(@,
                    [parents   |-> bases,
                     hasVTable |-> \E b \in Range(bases) : h.types[b].hasVTable,
                     abstract  |-> abstract,
                     complete  |-> FALSE,
                     first     |-> NextSlot(h, bases),
                     next      |-> NextSlot(h, bases),
                     children  |-> <<>>,
                     flags     |-> "none",
                     vtables   |-> <<>>])]
    IN  IF begun.types[t].hasVTable THEN createOperClass(begun, t) ELSE begun
-----------------------------------------------------------------------------
(* Vtables.                                                                *)

\* The types whose functions go into the vtables of t, bases first.
VTableTypes(h, t) ==
    LET order[x \in DOMAIN h.types] ==
            LET ps == h.types[x].parents
                of(b) == IF b # VTableBase /\ h.types[b].hasVTable
                         THEN order[b] ELSE <<>>
            IN  Append(FlattenSeq([i \in DOMAIN ps |-> of(ps[i])]), x)
    IN  order[t]

\* VTableBuilder::add: a function of VTableBase is in all vtables, any other in
\* the one of its receiver type.
addToVTables(h, tables, f) ==
    LET func == h.funcs[f]
        root == findFirstVTable(h, func.receiver)
    IN  [r \in DOMAIN tables |->
            IF root \in {r, VTableBase}
            THEN [s \in DOMAIN tables[r] \union {func.slot} |->
                    IF s = func.slot THEN f ELSE tables[r][s]]
            ELSE tables[r]]

\* The virtual functions of x, oldest first.
extendVTables(h, tables, x) ==
    FoldLeft(LAMBDA ts, f : IF h.funcs[f].owner = x /\ h.funcs[f].virtual
                            THEN addToVTables(h, ts, f) ELSE ts,
             tables, [f \in DOMAIN h.funcs |-> f])

createAllVTables(h, t) ==
    LET types == VTableTypes(h, t)
        roots == {x \in Range(types) : Contains(h.types[x].parents, VTableBase)}
    IN  FoldLeft(LAMBDA tables, x : extendVTables(h, tables, x),
                 [r \in roots |-> <<>>], types)

\* Variant: the functions of a nested class keep the slots they were given.
KeepVTableSlots(h, t, offset) == h

fixVTableSlots(h, t, offset) ==
    LET move(func) == [func EXCEPT !.slot = @ + offset]
    IN  [h EXCEPT !.funcs = [f \in DOMAIN h.funcs |->
            IF /\ h.funcs[f].owner = t
               /\ h.funcs[f].virtual
               /\ h.funcs[f].slot >= h.types[t].first
            THEN move(h.funcs[f]) ELSE h.funcs[f]]]

\* The slots of t begin where those of its first base end now; a gap between
\* them is an internal error.
fixSlots(h, t) ==
    LET first == h.types[t].first
        last  == h.types[h.types[t].parents[1]].next
    IN  IF last < first THEN [h EXCEPT !.failed = TRUE]
        ELSE fixVTableSlots(h, t, last - first)

\* VTableBuilder::emit asserts that there is no null entry.
emitVTables(h, t, tables) ==
    [h EXCEPT !.types[t].vtables = tables,
              !.failed = @ \/ \E r \in DOMAIN tables :
                  DOMAIN tables[r] # 0 .. (Cardinality(DOMAIN tables[r]) - 1)]

fixVTables(h, t) == emitVTables(h, t, createAllVTables(h, t))

fixType(h, t) ==
    [IF h.types[t].hasVTable THEN fixVTables(fixSlots(h, t), t) ELSE h
        EXCEPT !.types[t].complete = TRUE]

\* fixIncompletes: a type and then the nested classes that wait for it.
fixIncompletes(h, t) ==
    LET down[x \in DOMAIN h.types] ==
            LET kids == h.types[x].children
            IN  <<x>> \o FlattenSeq([i \in DOMAIN kids |-> down[kids[i]]])
    IN  FoldLeft(fixType, h, down[t])

\* A class with an incomplete base waits for it; two are an assertion failure.
emitEndClass(h, t) ==
    LET waits == {b \in Range(h.types[t].parents) : ~h.types[b].complete}
    IN  CASE Cardinality(waits) = 0 -> fixIncompletes(h, t)
          [] Cardinality(waits) = 1 ->
                [h EXCEPT !.types[CHOOSE b \in waits : TRUE].children = Append(@, t)]
          [] OTHER -> [h EXCEPT !.failed = TRUE]
-----------------------------------------------------------------------------
(* The special base classes, from the builder and from crack.lang.         *)

Builtins ==
    LET plain == [parents |-> <<>>, hasVTable |-> FALSE, abstract |-> FALSE,
                  complete |-> TRUE, first |-> 0, next |-> 0,
                  children |-> <<>>, flags |-> "none", vtables |-> <<>>]
        root  == createOperClass(
                     [types |-> <<[plain EXCEPT !.hasVTable = TRUE], plain>>,
                      funcs |-> <<>>, failed |-> FALSE], VTableBase)
        free  == createDefaultDestructor(root, FreeBase)
        begun == emitBeginClass(free, <<VTableBase>>, FALSE)
    IN  emitEndClass(createDefaultDestructor(begun, Object), Object)

Init ==
    /\ m = Builtins
    /\ open = <<>>
    /\ tokens = 0
-----------------------------------------------------------------------------
(* The parser.                                                             *)

Cur == Last(open)

Reads(k) ==
    /\ ~m.failed
    /\ tokens + k <= MaxTokens
    /\ tokens' = tokens + k

\* What a base class list amounts to.  A nested class derives from a class that
\* is not complete; the simple case is that it is the only base, and itself
\* derived from complete classes with a destructor, of which each has at most
\* one base with a vtable.
Form(bases) ==
    LET waits == {b \in Range(bases) : ~m.types[b].complete}
        simple(b) == /\ Contains(open, b)
                     /\ \A p \in Range(m.types[b].parents) : m.types[p].complete
        forked(b) == \E a \in Ancestors(m, b) : \E p, q \in Range(m.types[a].parents) :
                        p # q /\ m.types[p].hasVTable /\ m.types[q].hasVTable
        del(b) == lookUp(m, b, "oper del")
        rooted(b) == del(b) = 0 \/ ~m.funcs[del(b)].virtual
        vtable(i) == m.types[bases[i]].hasVTable
        moved(b) ==
            /\ m.types[b].hasVTable /\ m.types[b].parents # <<>>
            /\ m.types[b].first < m.types[m.types[b].parents[1]].next
        derived == {i \in 2 .. Len(bases) : vtable(i)}
    IN  IF Cardinality(waits) > 1 THEN "nested in both"
        ELSE IF waits # {} THEN
             IF Len(bases) > 1 THEN "nested with another"
             ELSE IF ~simple(bases[1]) THEN "nested further"
             ELSE IF forked(bases[1]) THEN "nested in several"
             ELSE IF rooted(bases[1]) THEN "nested in root" ELSE "nested"
        ELSE IF \E b \in Range(bases) : moved(b) THEN "moved"
        ELSE IF {i \in DOMAIN bases : vtable(i)} = {} THEN "plain"
        ELSE IF Len(bases) <= 1 THEN "single"
        ELSE IF bases[1] = VTableBase /\ derived # {} THEN "root and another"
        ELSE IF ~vtable(1) /\ derived # {} THEN "no vtable first" ELSE "several"

\* addToAncestors: no class but VTableBase is inherited twice, and VTableBase
\* and Object come first.
Inheritable(bases) ==
    LET anc(i) == Ancestors(m, bases[i]) \ {VTableBase}
        before(i) == UNION {anc(j) : j \in 1 .. (i - 1)}
    IN  \A i \in DOMAIN bases :
            /\ anc(i) \intersect before(i) = {}
            /\ bases[i] = VTableBase \/ Object \in anc(i) => before(i) = {}

\* parseClassDef up to the body.  A class without bases is derived from Object;
\* an abstract one has a vtable.  The annotation before the class takes the
\* flags for the next function back.
BeginClass(bases, abstract) ==
    LET given == IF bases = <<>> THEN <<Object>> ELSE bases
        flagged == IF abstract /\ open # <<>>
                   THEN [m EXCEPT !.types[Cur].flags = "none"] ELSE m
    IN  /\ Reads(Len(given))
        /\ Len(m.types) < Object + MaxClasses
        /\ Form(given) \in Forms
        /\ Inheritable(given)
        /\ abstract => \E b \in Range(given) : m.types[b].hasVTable
        /\ m' = emitBeginClass(flagged, given, abstract)
        /\ open' = Append(open, Len(m.types) + 1)

\* checkForOverride: what the name means must be overridable, except for a
\* destructor.
Overridable(f) == m.funcs[f].virtual \/ m.funcs[f].kind = "forward"
Hides(n) ==
    LET f == lookUp(m, Cur, n)
    IN  f # 0 /\ ~Overridable(f) /\ n # "oper del"

\* The function that a definition overrides or completes; a forward declaration
\* of another class is ignored.
Override(n) ==
    LET f == lookUp(m, Cur, n)
    IN  IF f = 0 THEN 0
        ELSE IF \/ ~Overridable(f)
                \/ m.funcs[f].kind = "forward" /\ m.funcs[f].owner # Cur
             THEN 0 ELSE f

\* The flags of the next function: those of its annotation, or those left over.
NextFlags(ann) == IF ann = "none" THEN m.types[Cur].flags ELSE ann
IsVirtual(ann) == m.types[Cur].hasVTable /\ NextFlags(ann) # "final"
SetFlags(h, flags) == [h EXCEPT !.types[Cur].flags = flags]

\* parseFuncDef with a body.
FuncDef(n, ann) ==
    LET f == Override(n)
    IN  /\ Reads(1) /\ open # <<>>
        /\ ~Hides(n)
        /\ m' = SetFlags(IF f # 0 /\ m.funcs[f].kind = "forward"
                         THEN [m EXCEPT !.funcs[f].kind = "defined"]
                         ELSE addMethod(m, Cur, n, IsVirtual(ann), "defined", f),
                         "none")
        /\ UNCHANGED open

\* Variant: abstract functions may follow nested derived classes.
DeclareAbstractLate(n) ==
    /\ m.types[Cur].abstract
    /\ m' = SetFlags(addMethod(m, Cur, n, TRUE, "abstract", 0), "none")

\* parseFuncDef with a semicolon: an abstract function, which needs an abstract
\* class without nested derived classes so far,
DeclareAbstract(n) ==
    /\ m.types[Cur].abstract
    /\ m.types[Cur].children = <<>>
    /\ m' = SetFlags(addMethod(m, Cur, n, TRUE, "abstract", 0), "none")

\* or a forward declaration.  That of an inherited function gets a warning and
\* leaves the flags.
FuncDecl(n, ann) ==
    LET f == Override(n)
    IN  /\ Reads(1) /\ open # <<>>
        /\ ~Hides(n)
        /\ UNCHANGED open
        /\ \/ /\ f # 0 /\ m.funcs[f].kind # "forward"
              /\ m' = SetFlags(m, NextFlags(ann))
           \/ /\ f = 0 /\ NextFlags(ann) = "abstract"
              /\ DeclareAbstract(n)
           \/ /\ f = 0 /\ NextFlags(ann) # "abstract"
              /\ m' = SetFlags(addMethod(m, Cur, n, IsVirtual(ann), "forward", 0),
                               "none")

\* An implementation of an abstract function has its receiver type: one with
\* the same name may belong to another base class.
isAbstract(t, f) ==
    LET func == m.funcs[f]
        nearest == m.funcs[lookUp(m, t, func.name)]
    IN  /\ func.kind = "abstract"
        /\ nearest.kind = "abstract" \/ nearest.receiver # func.receiver

gotAbstractFuncs(t) ==
    \E a \in Ancestors(m, t) : \E f \in Own(m, a) : isAbstract(t, f)

checkForUnresolvedForwards(t) ==
    \A f \in Own(m, t) : m.funcs[f].kind # "forward"

\* The class may end if it is abstract or has no abstract functions; it gets a
\* destructor if it has none of its own.
MayEnd(t) == m.types[t].abstract \/ ~gotAbstractFuncs(t)
rectify(h, t) ==
    LET del == lookUp(h, t, "oper del")
    IN  IF del = 0 \/ h.funcs[del].owner # t
        THEN createDefaultDestructor(h, t) ELSE h

\* The rest of parseClassDef.
EndClass ==
    /\ ~m.failed /\ open # <<>>
    /\ checkForUnresolvedForwards(Cur)
    /\ MayEnd(Cur)
    /\ m' = emitEndClass(rectify(m, Cur), Cur)
    /\ open' = Front(open)
    /\ UNCHANGED tokens

BaseLists == UNION {[1 .. k -> DOMAIN m.types] : k \in 0 .. 2}

Next ==
    \/ \E bases \in BaseLists, abstract \in BOOLEAN : BeginClass(bases, abstract)
    \/ \E n \in Names, ann \in {"none", "final", "abstract"} :
          FuncDef(n, ann) \/ FuncDecl(n, ann)
    \/ EndClass

Spec == Init /\ [][Next]_vars
-----------------------------------------------------------------------------
(* Instances and calls.                                                    *)

\* The objects inside an instance of t: their paths, by the indices of the
\* parents, and their types.
Subobjects(t) ==
    LET in[x \in DOMAIN m.types] ==
            LET ps == m.types[x].parents
            IN  {[path |-> <<>>, type |-> x]} \union
                UNION {{[path |-> <<i>> \o o.path, type |-> o.type] :
                            o \in in[ps[i]]} : i \in DOMAIN ps}
    IN  in[t]

\* getVTableReference: where an instance of t has the vtable pointer.
VTablePointer(t) ==
    LET at[x \in DOMAIN m.types] ==
            LET i == FirstVTableParent(m, x)
                p == m.types[x].parents[i]
            IN  IF p = VTableBase THEN <<>> ELSE <<i>> \o at[p]
    IN  at[t]

\* emitVTableInit: the stores of vtables in a new instance of t, in order.  The
\* index is counted from the first parent also when that one is skipped; the
\* field of VTableBase is the pointer of the class derived from it.
emitVTableInit(t) ==
    LET tables == DOMAIN m.types[t].vtables
        stores[x \in DOMAIN m.types] ==
            LET ps   == m.types[x].parents
                skip == IF x \in tables THEN 1 ELSE 0
                field(i) == IF ps[i] = VTableBase THEN <<>> ELSE <<i>>
                of(i) ==
                    LET b == ps[i + skip]
                        inner == IF b \in tables THEN <<[at |-> <<>>, root |-> b]>>
                                 ELSE IF m.types[b].hasVTable THEN stores[b]
                                 ELSE <<>>
                    IN  [k \in DOMAIN inner |->
                            [inner[k] EXCEPT !.at = field(i) \o @]]
                own == IF x \in tables THEN <<[at |-> <<>>, root |-> x]>> ELSE <<>>
            IN  own \o FlattenSeq([i \in 1 .. (Len(ps) - skip) |-> of(i)])
    IN  stores[t]

\* The vtable that a path has after these stores, 0 if there is none.
StoredVTable(stores, path) ==
    LET i == SelectLastInSeq(stores, LAMBDA store : store.at = path)
    IN  IF i = 0 THEN 0 ELSE stores[i].root

\* innerEmitCall: function f called on object o of a new instance of t, 0 when
\* there is no vtable or no entry.
Called(t, stores, o, f) ==
    LET func == m.funcs[f]
        receiver == IF func.receiver = VTableBase
                    THEN [path |-> <<>>, type |-> o.type]
                    ELSE CHOOSE r \in Subobjects(o.type) : r.type = func.receiver
        root == StoredVTable(stores, o.path \o receiver.path
                                            \o VTablePointer(receiver.type))
        vtables == m.types[t].vtables
    IN  IF root # 0 /\ func.slot \in DOMAIN vtables[root]
        THEN vtables[root][func.slot] ELSE 0
-----------------------------------------------------------------------------
(* Properties.                                                             *)

\* The module runs when it has been compiled, and may create instances of its
\* classes then.
Instantiable(t) ==
    /\ open = <<>>
    /\ m.types[t].complete /\ ~m.types[t].abstract /\ m.types[t].hasVTable
    /\ t > Object

\* The override of f that the classes of t say: the one of the most derived
\* class, and in it the last.
FinalOverride(t, f) ==
    LET cands == {g \in DOMAIN m.funcs :
                    /\ m.funcs[g].virtual
                    /\ m.funcs[g].decl = m.funcs[f].decl
                    /\ m.funcs[g].owner \in Ancestors(m, t)}
    IN  CHOOSE g \in cands : \A x \in cands :
            /\ m.funcs[x].owner \in Ancestors(m, m.funcs[g].owner)
            /\ m.funcs[x].owner = m.funcs[g].owner => x <= g

\* A virtual function called through any base of an instance reaches its final
\* override, wherever the classes are nested and whatever was added to a class
\* after another had been derived from it.
VirtualCallsReachOverride ==
    ~m.failed =>
        \A t \in DOMAIN m.types : Instantiable(t) =>
            \A stores \in {emitVTableInit(t)}, o \in Subobjects(t) :
                \A f \in Own(m, o.type) :
                    m.funcs[f].virtual /\ o.type # VTableBase
                        => Called(t, stores, o, f) = FinalOverride(t, f)

\* No vtable of a class that can be instantiated has an abstract function or
\* one that was only declared.
NoAbstractEntry ==
    \A t \in DOMAIN m.types : Instantiable(t) =>
        \A r \in DOMAIN m.types[t].vtables :
            \A f \in Range(m.types[t].vtables[r]) : m.funcs[f].kind = "defined"

\* An instance that is destroyed through its class or the first base of it, or
\* the first base of that, is destroyed by the destructor of its own class.
DestructorReached ==
    \A t \in DOMAIN m.types : Instantiable(t) =>
        \A stores \in {emitVTableInit(t)}, o \in Subobjects(t) :
            \A f \in Own(m, o.type) :
                /\ m.funcs[f].virtual /\ m.funcs[f].name = "oper del"
                /\ Range(o.path) \subseteq {1}
                => m.funcs[Called(t, stores, o, f)].owner = t

\* No legal program makes the checks and assertions of the builder fail.
NoInternalError == ~m.failed
=============================================================================
