---------------------------- MODULE ModuleLoader ----------------------------
(***************************************************************************)
(* Construct::getModule() of model/Construct.cc and the recursion through  *)
(* it: a module that is compiled loads the modules it imports              *)
(* (Context::emitImport), and a module that is read from the persistent    *)
(* cache loads the modules it was built against (ModuleDef::deserialize)   *)
(* before it is entered into the in-memory cache.  One process runs at a   *)
(* time, and sources change between runs; what concurrent processes do to  *)
(* the files of one entry is the subject of ModuleCache.                   *)
(*                                                                         *)
(* A source text is abstracted to what the loader can tell apart: the      *)
(* modules whose symbols it imports, its interface (what the meta digest   *)
(* covers) and the module its class derives from, if any.  The order in    *)
(* which the imports of a module are met is left open.                     *)
(***************************************************************************)
EXTENDS Naturals, Sequences, FiniteSets

CONSTANTS
  Modules,     \* canonical names
  Texts,       \* source texts: records [imports, iface, base]
  NoModule,    \* no base class in another module; not in the in-memory cache
  NoEntry,     \* not in the persistent cache
  MaxEdits     \* bound: changes of a source in a behaviour

Ifaces == {t.iface : t \in Texts}

\* The meta digests of some modules.
Digests == UNION {[mods -> Ifaces] : mods \in SUBSET Modules}

\* A module object: the text it was built from, the meta digests of the
\* modules it was built against, and its layout, which is its own interface
\* followed by the layouts of its base classes.
ModuleObject == [text : Texts, against : Digests, layout : Seq(Ifaces), finished : BOOLEAN]

\* What the persistent cache holds of a module.
CacheEntry == [text : Texts, deps : Digests, layout : Seq(Ifaces)]

\* A call of getModule(): it is loading the dependencies of a cache entry or
\* parsing the source, and has the modules todo still to look at.
Frame == [mod : Modules, phase : {"deps", "parse"}, todo : SUBSET Modules]

ASSUME LoaderAssumption ==
  /\ IsFiniteSet(Modules)
  /\ NoModule \notin Modules \cup ModuleObject
  /\ NoEntry \notin CacheEntry
  /\ \A t \in Texts : /\ t.imports \subseteq Modules
                      /\ t.base \in t.imports \cup {NoModule}
  /\ MaxEdits \in Nat

VARIABLES
  src,      \* the source file of each module
  cache,    \* the persistent cache: what each module was last built from
  mem,      \* Construct::moduleCache
  stack,    \* the calls of getModule() that are under way, innermost last
  loaded,   \* Construct::loadedModules
  wanted,   \* the modules the script imports
  state,    \* "idle", "running", "done" or "error"
  edits     \* the number of changes so far

vars == <<src, cache, mem, stack, loaded, wanted, state, edits>>

Object(text, against, layout, finished) ==
  [text |-> text, against |-> against, layout |-> layout, finished |-> finished]

Unfinished(m) == Object(src[m], <<>>, <<>>, FALSE)

InMemory(m) == mem[m] # NoModule
Finished(m) == InMemory(m) /\ mem[m].finished

\* The layout of a class whose text is t, from the objects in memory.
Layout(t) == <<t.iface>> \o (IF t.base = NoModule THEN <<>> ELSE mem[t.base].layout)

-----------------------------------------------------------------------------
(* Pushing and popping calls of getModule().                               *)

Top == stack[Len(stack)]
Below == SubSeq(stack, 1, Len(stack) - 1)
WithTop(frame) == Append(Below, frame)

\* The entry of the cache is usable as far as its source digest goes.
Current(m) == cache[m] # NoEntry /\ cache[m].text = src[m]

ParseFrame(m) == [mod |-> m, phase |-> "parse", todo |-> src[m].imports]

\* getModule() of a module that is not in memory: read the header of its cache
\* entry, or else create it, enter it in moduleCache and parse it.
GetModule(m) ==
  IF Current(m)
    THEN /\ stack' = Append(stack, [mod |-> m, phase |-> "deps",
                                    todo |-> DOMAIN cache[m].deps])
         /\ UNCHANGED mem
    ELSE /\ stack' = Append(stack, ParseFrame(m))
         /\ mem' = [mem EXCEPT ![m] = Unfinished(m)]

\* The end of getModule(): finished is set and loadedModules grows.
ReturnModule(object) ==
  /\ mem' = [mem EXCEPT ![Top.mod] = object]
  /\ loaded' = Append(loaded, Top.mod)
  /\ stack' = Below

\* An exception: it passes through every caller and ends the run.
Throw ==
  /\ state' = "error"
  /\ stack' = <<>>
  /\ UNCHANGED <<src, cache, mem, loaded, wanted, edits>>

-----------------------------------------------------------------------------
(* The script.                                                             *)

Edit(m, t) ==
  /\ state = "idle"
  /\ edits < MaxEdits
  /\ t # src[m]
  /\ src' = [src EXCEPT ![m] = t]
  /\ edits' = edits + 1
  /\ UNCHANGED <<cache, mem, stack, loaded, wanted, state>>

RunScript(names) ==
  /\ state = "idle"
  /\ names # {}
  /\ wanted' = names
  /\ state' = "running"
  /\ UNCHANGED <<src, cache, mem, stack, loaded, edits>>

ScriptImport(d) ==
  /\ state = "running"
  /\ stack = <<>>
  /\ d \in wanted
  /\ ~InMemory(d)
  /\ GetModule(d)
  /\ UNCHANGED <<src, cache, loaded, wanted, state, edits>>

ScriptLoaded ==
  /\ state = "running"
  /\ stack = <<>>
  /\ \A d \in wanted : InMemory(d)
  /\ state' = "done"
  /\ UNCHANGED <<src, cache, mem, stack, loaded, wanted, edits>>

\* The process ends, and with it everything in memory.
Exit ==
  /\ state \in {"done", "error"}
  /\ mem' = [m \in Modules |-> NoModule]
  /\ loaded' = <<>>
  /\ wanted' = {}
  /\ state' = "idle"
  /\ UNCHANGED <<src, cache, stack, edits>>

-----------------------------------------------------------------------------
(* ModuleDef::deserialize(): the dependencies in the header.               *)

Reading(d) ==
  /\ state = "running"
  /\ stack # <<>>
  /\ Top.phase = "deps"
  /\ d \in Top.todo

DropTodo(d) ==
  /\ stack' = WithTop([Top EXCEPT !.todo = @ \ {d}])
  /\ UNCHANGED mem

DepLoad(d) ==
  /\ Reading(d)
  /\ ~InMemory(d)
  /\ GetModule(d)
  /\ UNCHANGED <<src, cache, loaded, wanted, state, edits>>

\* Mutant: the loop does not go on to the next dependency.
DepUnfinished_Stays(d) ==
  /\ Reading(d)
  /\ InMemory(d) /\ ~mem[d].finished
  /\ UNCHANGED vars

\* A dependency that is still being built is not compared.
DepUnfinished(d) ==
  /\ Reading(d)
  /\ InMemory(d) /\ ~mem[d].finished
  /\ DropTodo(d)
  /\ UNCHANGED <<src, cache, loaded, wanted, state, edits>>

\* Mutant: the meta digest is not compared.
DepSame_Untested(d) ==
  /\ Reading(d)
  /\ Finished(d)
  /\ DropTodo(d)
  /\ UNCHANGED <<src, cache, loaded, wanted, state, edits>>

DepSame(d) ==
  /\ Reading(d)
  /\ Finished(d)
  /\ mem[d].text.iface = cache[Top.mod].deps[d]
  /\ DropTodo(d)
  /\ UNCHANGED <<src, cache, loaded, wanted, state, edits>>

\* The meta digest differs: the remaining dependencies are not looked at,
\* deserialize() returns null and the source is compiled.
DepChanged(d) ==
  /\ Reading(d)
  /\ Finished(d)
  /\ mem[d].text.iface # cache[Top.mod].deps[d]
  /\ stack' = WithTop(ParseFrame(Top.mod))
  /\ mem' = [mem EXCEPT ![Top.mod] = Unfinished(Top.mod)]
  /\ UNCHANGED <<src, cache, loaded, wanted, state, edits>>

AllRead ==
  /\ state = "running"
  /\ stack # <<>>
  /\ Top.phase = "deps"
  /\ Top.todo = {}

\* Mutant: a reference into a module that is not finished is not reported.
MaterializeModule_Unchecked ==
  /\ AllRead
  /\ LET e == cache[Top.mod]
     IN ReturnModule(Object(e.text, e.deps, e.layout, TRUE))
  /\ UNCHANGED <<src, cache, wanted, state, edits>>

\* Mutant: a module that was read from the cache is not marked finished.
MaterializeModule_Unmarked ==
  /\ AllRead
  /\ \A d \in DOMAIN cache[Top.mod].deps : mem[d].finished
  /\ LET e == cache[Top.mod]
     IN ReturnModule(Object(e.text, e.deps, e.layout, FALSE))
  /\ UNCHANGED <<src, cache, wanted, state, edits>>

\* The definitions are read; every one that refers to another module finds it
\* finished.
MaterializeModule ==
  /\ AllRead
  /\ \A d \in DOMAIN cache[Top.mod].deps : mem[d].finished
  /\ LET e == cache[Top.mod]
     IN ReturnModule(Object(e.text, e.deps, e.layout, TRUE))
  /\ UNCHANGED <<src, cache, wanted, state, edits>>

\* resolvePath(): a reference into a module that is still being built.
RecursiveReference ==
  /\ AllRead
  /\ \E d \in DOMAIN cache[Top.mod].deps : ~mem[d].finished
  /\ Throw

-----------------------------------------------------------------------------
(* parseModule() and Context::emitImport().                                *)

Parsing(d) ==
  /\ state = "running"
  /\ stack # <<>>
  /\ Top.phase = "parse"
  /\ d \in Top.todo

ImportLoad(d) ==
  /\ Parsing(d)
  /\ ~InMemory(d)
  /\ GetModule(d)
  /\ UNCHANGED <<src, cache, loaded, wanted, state, edits>>

ImportLoaded(d) ==
  /\ Parsing(d)
  /\ Finished(d)
  /\ DropTodo(d)
  /\ UNCHANGED <<src, cache, loaded, wanted, state, edits>>

\* Mutant: every module in memory is taken to be finished.
ImportRecursive_Allowed(d) ==
  /\ Parsing(d)
  /\ InMemory(d) /\ ~mem[d].finished
  /\ DropTodo(d)
  /\ UNCHANGED <<src, cache, loaded, wanted, state, edits>>

ImportRecursive(d) ==
  /\ Parsing(d)
  /\ InMemory(d) /\ ~mem[d].finished
  /\ Throw

Parsed ==
  /\ state = "running"
  /\ stack # <<>>
  /\ Top.phase = "parse"
  /\ Top.todo = {}

\* Mutant: the source is recorded, not the meta digest.
MetaDigests_Source(t) == [d \in t.imports |-> mem[d].text]

\* The digests of the modules the current one depends on.
MetaDigests(t) == [d \in t.imports |-> mem[d].text.iface]

\* The module is closed and written to the persistent cache with the meta
\* digests of its dependencies.
FinishParse ==
  /\ Parsed
  /\ LET t == src[Top.mod]
     IN /\ cache' = [cache EXCEPT ![Top.mod] = [text |-> t, deps |-> MetaDigests(t),
                                                layout |-> Layout(t)]]
        /\ ReturnModule(Object(t, MetaDigests(t), Layout(t), TRUE))
  /\ UNCHANGED <<src, wanted, state, edits>>

-----------------------------------------------------------------------------

LoadStep ==
  \/ \E d \in Modules : \/ ScriptImport(d)
                        \/ DepLoad(d) \/ DepUnfinished(d) \/ DepSame(d) \/ DepChanged(d)
                        \/ ImportLoad(d) \/ ImportLoaded(d) \/ ImportRecursive(d)
  \/ MaterializeModule \/ RecursiveReference \/ FinishParse
  \/ ScriptLoaded

Next ==
  \/ \E m \in Modules, t \in Texts : Edit(m, t)
  \/ \E names \in SUBSET Modules : RunScript(names)
  \/ LoadStep
  \/ Exit

Init ==
  /\ src \in [Modules -> Texts]
  /\ cache = [m \in Modules |-> NoEntry]
  /\ mem = [m \in Modules |-> NoModule]
  /\ stack = <<>>
  /\ loaded = <<>>
  /\ wanted = {}
  /\ state = "idle"
  /\ edits = 0

Spec == Init /\ [][Next]_vars

\* The compiler keeps running until the script is loaded or an error ends it.
FairSpec == Spec /\ WF_vars(LoadStep)

-----------------------------------------------------------------------------
(* Properties.                                                             *)

\* Every variable keeps its type, and a cache entry has the meta digests of
\* exactly the modules its text imports.
TypeOK ==
  /\ src \in [Modules -> Texts]
  /\ cache \in [Modules -> CacheEntry \cup {NoEntry}]
  /\ \A m \in Modules : cache[m] # NoEntry => DOMAIN cache[m].deps = cache[m].text.imports
  /\ mem \in [Modules -> ModuleObject \cup {NoModule}]
  /\ stack \in Seq(Frame)
  /\ loaded \in Seq(Modules)
  /\ wanted \subseteq Modules
  /\ state \in {"idle", "running", "done", "error"}
  /\ edits \in 0..MaxEdits

\* A graph has a cycle when some set of nodes has an edge into itself from
\* each of its members.
HasCycle(nodes, edges(_)) ==
  \E c \in SUBSET nodes : c # {} /\ \A m \in c : edges(m) \cap c # {}

Imports(m) == src[m].imports

\* However a cycle of imports is spread over cached and recompiled modules, it
\* is reported, and nothing else is: a run that succeeds loaded no cycle, and
\* a run ends with "recursively imported" only if there is one.
CyclesReported ==
  /\ state = "done" => ~HasCycle({loaded[i] : i \in DOMAIN loaded}, Imports)
  /\ state = "error" => HasCycle(Modules, Imports)

\* No module is built or read twice in a process, although a module under
\* deserialization is not in moduleCache yet, and every module comes after
\* the ones it imports.
LoadOrder ==
  \A j \in DOMAIN loaded :
    /\ \A i \in 1..(j - 1) : loaded[i] # loaded[j]
    /\ Imports(loaded[j]) \subseteq {loaded[i] : i \in 1..(j - 1)}

\* A finished module was built from the source as it is now, against the
\* interfaces that the modules in memory now have.
Fresh ==
  \A m \in Modules : Finished(m) =>
    /\ mem[m].text = src[m]
    /\ \A d \in src[m].imports : mem[m].against[d] = mem[d].text.iface

\* "It must contain everything we need to determine whether the use of the
\* cache is acceptable for this module": a module was compiled against the
\* layouts that its base classes have now.
FreshLayout ==
  \A m \in Modules : Finished(m) => mem[m].layout = Layout(mem[m].text)

\* What makes the recursion end: the cache entries that match their sources
\* never depend on each other in a circle, so a chain of nested getModule()
\* calls that only read headers comes to an end.
CacheWellFounded ==
  ~HasCycle({m \in Modules : Current(m)}, LAMBDA m : DOMAIN cache[m].deps)

\* A run of the compiler ends.
EveryRunEnds == state = "running" ~> state \in {"done", "error"}
=============================================================================
