------------------------- MODULE ModuleLoaderProofs -------------------------
(***************************************************************************)
(* Machine-checked proofs about the module loader, for every set of        *)
(* modules and texts and any number of edits and runs.                     *)
(***************************************************************************)
EXTENDS ModuleLoader, SequenceTheorems, TLAPS

------------------------------------------------------------------------------
(* Calls of getModule() on the stack.                                       *)

LEMMA BelowProperties ==
  ASSUME stack \in Seq(Frame), stack # <<>>
  PROVE  /\ Top \in Frame
         /\ Len(stack) \in Nat \ {0}
         /\ Top = stack[Len(stack)]
         /\ Below \in Seq(Frame)
         /\ Len(Below) = Len(stack) - 1
         /\ \A i \in 1..(Len(stack) - 1) : Below[i] = stack[i]
<1>1. Len(stack) \in Nat \ {0}
  BY EmptySeq
<1>2. Top \in Frame
  BY <1>1 DEF Top
<1> DEFINE n == Len(stack) - 1
<1>3. n \in Int /\ 1 \in Int /\ \A i \in 1..n : stack[i] \in Frame
  BY <1>1
<1>4. /\ Below \in Seq(Frame)
      /\ Len(Below) = IF 1 <= n THEN n - 1 + 1 ELSE 0
      /\ \A i \in 1..(n - 1 + 1) : Below[i] = stack[1 + i - 1]
  <2> HIDE DEF n
  <2>1. Below = SubSeq(stack, 1, n)
    BY DEF Below, n
  <2> QED
    BY <1>3, <2>1, SubSeqProperties
<1>5. Len(Below) = Len(stack) - 1
  <2>1. n \in Nat
    BY <1>1
  <2>2. Len(Below) = n
    <3> HIDE DEF n
    <3> QED
      BY <2>1, <1>4
  <2> QED
    BY <2>2
<1>6. \A i \in 1..(Len(stack) - 1) : Below[i] = stack[i]
  BY <1>1, <1>4
<1> QED
  BY <1>1, <1>2, <1>4, <1>5, <1>6 DEF Top

LEMMA WithTopProperties ==
  ASSUME stack \in Seq(Frame), stack # <<>>, NEW f \in Frame
  PROVE  /\ WithTop(f) \in Seq(Frame)
         /\ Len(WithTop(f)) = Len(stack)
         /\ WithTop(f)[Len(stack)] = f
         /\ \A i \in 1..(Len(stack) - 1) : WithTop(f)[i] = stack[i]
  BY BelowProperties DEF WithTop

------------------------------------------------------------------------------
(* The objects in memory.                                                   *)

\* The modules that are in memory and finished.
Fin == {m \in Modules : Finished(m)}

\* The module of call i.
On(i) == stack[i].mod

LEMMA FinIsFinished == Fin \subseteq Modules /\ \A m \in Modules : m \in Fin <=> Finished(m)
  BY DEF Fin

LEMMA EnterUnfinished ==
  ASSUME TypeOK, NEW m \in Modules, m \notin Fin,
         mem' = [mem EXCEPT ![m] = Unfinished(m)]
  PROVE  /\ mem' \in [Modules -> ModuleObject \cup {NoModule}]
         /\ Fin' = Fin
         /\ InMemory(m)' /\ mem'[m].text = src[m]
         /\ \A x \in Modules \ {m} : mem'[x] = mem[x]
<1>1. Unfinished(m) \in ModuleObject
  <2>1. <<>> \in [{} -> Ifaces]
    OBVIOUS
  <2>2. <<>> \in Digests
    BY <2>1, Zenon DEF Digests
  <2>3. src[m] \in Texts /\ <<>> \in Seq(Ifaces)
    BY DEF TypeOK
  <2> QED
    BY <2>2, <2>3 DEF Unfinished, Object, ModuleObject
<1>2. mem'[m] = Unfinished(m) /\ \A x \in Modules \ {m} : mem'[x] = mem[x]
  BY DEF TypeOK
<1>3. InMemory(m)'
  BY <1>1, <1>2, LoaderAssumption DEF InMemory
<1>4. ~Finished(m)' /\ mem'[m].text = src[m]
  BY <1>2 DEF Finished, Unfinished, Object
<1>5. Fin' = Fin
  BY <1>2, <1>4 DEF Fin, Finished, InMemory
<1> QED
  BY <1>1, <1>2, <1>3, <1>4, <1>5 DEF TypeOK

LEMMA EnterFinished ==
  ASSUME TypeOK, NEW m \in Modules, NEW o \in ModuleObject, o.finished,
         mem' = [mem EXCEPT ![m] = o]
  PROVE  /\ mem' \in [Modules -> ModuleObject \cup {NoModule}]
         /\ Fin' = Fin \cup {m}
         /\ InMemory(m)' /\ mem'[m] = o
         /\ \A x \in Modules \ {m} : mem'[x] = mem[x]
<1>1. mem'[m] = o /\ \A x \in Modules \ {m} : mem'[x] = mem[x]
  BY DEF TypeOK
<1>2. InMemory(m)'
  BY <1>1, LoaderAssumption DEF InMemory
<1>3. Fin' = Fin \cup {m}
  BY <1>1, <1>2 DEF Fin, Finished, InMemory
<1> QED
  BY <1>1, <1>2, <1>3 DEF TypeOK

------------------------------------------------------------------------------
(* The inductive invariant.                                                 *)

\* Nothing is under way outside a run, and nothing is in memory before one.
Quiet ==
  /\ state # "running" => stack = <<>>
  /\ state = "idle" => loaded = <<>> /\ \A m \in Modules : ~InMemory(m)

\* What is in memory was built from the sources as they are.
TextNow == \A m \in Modules : InMemory(m) => mem[m].text = src[m]

\* The modules a finished one imports are finished, it was built against their
\* interfaces, and its entry in the persistent cache is the current one.
Closed ==
  \A m \in Fin : /\ src[m].imports \subseteq Fin
                 /\ \A d \in src[m].imports : mem[m].against[d] = src[d].iface
                 /\ Current(m)

\* loadedModules is the list of the finished modules.
LoadedIsFin == \A m \in Modules : m \in Fin <=> \E i \in 1..Len(loaded) : loaded[i] = m

\* The entries of the persistent cache, current or not, do not depend on each
\* other in a circle.
CacheAcyclic ==
  \A c \in SUBSET {m \in Modules : cache[m] # NoEntry} :
    c # {} => \E m \in c : DOMAIN cache[m].deps \cap c = {}

MemoryInv == TextNow /\ Closed /\ LoadedIsFin /\ LoadOrder /\ CacheAcyclic

\* A module that is being loaded is not finished.  It may be on the stack more
\* than once, as it is entered in moduleCache only when it is parsed.
OnUnfinished == \A i \in 1..Len(stack) : On(i) \notin Fin

\* Every call loads a module that its caller imports and has still to look at.
Chain ==
  /\ \A i \in 1..Len(stack) : stack[i].todo \subseteq src[On(i)].imports
  /\ \A i \in 1..(Len(stack) - 1) : On(i + 1) \in stack[i].todo

\* The imports the parser has passed are finished.
ParseFrames ==
  \A i \in 1..Len(stack) : stack[i].phase = "parse" =>
    /\ InMemory(On(i))
    /\ src[On(i)].imports \ stack[i].todo \subseteq Fin

\* The dependencies that deserialize() has passed are finished and have the
\* meta digest of the header, or are being built by one of its callers.
DepsFrames ==
  \A i \in 1..Len(stack) : stack[i].phase = "deps" =>
    /\ Current(On(i))
    /\ \A d \in src[On(i)].imports \ stack[i].todo :
         \/ d \in Fin /\ src[d].iface = cache[On(i)].deps[d]
         \/ InMemory(d) /\ \E j \in 1..(i - 1) : On(j) = d

\* What is in memory and not finished is being built.
Building ==
  state = "running" =>
    \A m \in Modules : InMemory(m) /\ m \notin Fin =>
      \E i \in 1..Len(stack) : On(i) = m /\ stack[i].phase = "parse"

StackInv == OnUnfinished /\ Chain /\ ParseFrames /\ DepsFrames /\ Building

ErrorIsCycle == state = "error" => HasCycle(Modules, Imports)

LoaderInv == TypeOK /\ Quiet /\ MemoryInv /\ StackInv /\ ErrorIsCycle

\* A current entry has the meta digests of the modules that the source imports.
LEMMA CurrentDeps ==
  ASSUME TypeOK, NEW m \in Modules, Current(m)
  PROVE  DOMAIN cache[m].deps = src[m].imports /\ src[m].imports \subseteq Modules
  BY LoaderAssumption DEF TypeOK, Current

LEMMA FrameTypes ==
  ASSUME TypeOK
  PROVE  \A i \in 1..Len(stack) : /\ On(i) \in Modules
                                  /\ stack[i].phase \in {"deps", "parse"}
                                  /\ stack[i].todo \subseteq Modules
                                  /\ src[On(i)].imports \subseteq Modules
<1>1. \A i \in 1..Len(stack) : stack[i] \in Frame
  BY DEF TypeOK
<1>2. \A m \in Modules : src[m] \in Texts
  BY DEF TypeOK
<1> QED
  BY <1>1, <1>2, LoaderAssumption DEF Frame, On

------------------------------------------------------------------------------
(* getModule() is called.                                                   *)

LEMMA PushInv ==
  ASSUME LoaderInv, state = "running", NEW m \in Modules, ~InMemory(m),
         stack # <<>> => m \in Top.todo,
         GetModule(m), UNCHANGED <<src, cache, loaded, wanted, state, edits>>
  PROVE  LoaderInv'
<1> USE DEF LoaderInv
<1>1. PICK f \in Frame :
        /\ stack' = Append(stack, f)
        /\ f.mod = m /\ f.todo = src[m].imports
        /\ \/ f.phase = "deps" /\ Current(m) /\ mem' = mem
           \/ f.phase = "parse" /\ mem' = [mem EXCEPT ![m] = Unfinished(m)]
  <2>1. src[m].imports \subseteq Modules
    BY LoaderAssumption DEF TypeOK
  <2>2. CASE Current(m)
    <3>1. [mod |-> m, phase |-> "deps", todo |-> src[m].imports] \in Frame
      BY <2>1 DEF Frame
    <3>2. /\ stack' = Append(stack, [mod |-> m, phase |-> "deps", todo |-> src[m].imports])
          /\ mem' = mem
      BY <2>2, CurrentDeps DEF GetModule
    <3> QED
      BY <2>2, <3>1, <3>2
  <2>3. CASE ~Current(m)
    <3>1. ParseFrame(m) \in Frame
      BY <2>1 DEF Frame, ParseFrame
    <3>2. /\ stack' = Append(stack, ParseFrame(m))
          /\ mem' = [mem EXCEPT ![m] = Unfinished(m)]
      BY <2>3 DEF GetModule
    <3> QED
      BY <3>1, <3>2 DEF ParseFrame
  <2> QED
    BY <2>2, <2>3
<1>2. m \notin Fin
  BY DEF Fin, Finished
<1>3. /\ mem' \in [Modules -> ModuleObject \cup {NoModule}]
      /\ Fin' = Fin
      /\ \A x \in Modules \ {m} : mem'[x] = mem[x]
      /\ f.phase = "parse" => InMemory(m)'
      /\ InMemory(m)' => mem'[m].text = src[m] /\ f.phase = "parse"
  <2>1. CASE f.phase = "deps" /\ mem' = mem
    <3>1. Fin' = Fin /\ ~InMemory(m)'
      BY <2>1 DEF Fin, Finished, InMemory
    <3> QED
      BY <2>1, <3>1 DEF TypeOK
  <2>2. CASE f.phase = "parse" /\ mem' = [mem EXCEPT ![m] = Unfinished(m)]
    BY <2>2, <1>2, EnterUnfinished
  <2> QED
    BY <1>1, <2>1, <2>2
<1>4. /\ Len(stack) \in Nat /\ Len(stack') = Len(stack) + 1
      /\ stack'[Len(stack) + 1] = f
      /\ \A i \in 1..Len(stack) : stack'[i] = stack[i]
      /\ stack' \in Seq(Frame)
  BY <1>1 DEF TypeOK
<1>5. \A x \in Modules : InMemory(x) => InMemory(x)'
  BY <1>3 DEF InMemory
<1>6. TypeOK'
  BY <1>3, <1>4 DEF TypeOK
<1>7. MemoryInv'
  <2>1. TextNow'
    BY <1>3 DEF MemoryInv, TextNow, InMemory
  <2>2. Closed'
    BY <1>2, <1>3 DEF MemoryInv, Closed, Current, Fin
  <2>3. LoadedIsFin'
    BY <1>3 DEF MemoryInv, LoadedIsFin
  <2>4. LoadOrder' /\ CacheAcyclic'
    BY DEF MemoryInv, LoadOrder, Imports, CacheAcyclic
  <2> QED
    BY <2>1, <2>2, <2>3, <2>4 DEF MemoryInv
<1>8. \A i \in 1..Len(stack') :
        \/ i \in 1..Len(stack) /\ stack'[i] = stack[i]
        \/ i = Len(stack) + 1 /\ stack'[i] = f
  BY <1>4
<1>9. \A i \in 1..Len(stack) : On(i)' = On(i)
  BY <1>4 DEF On
<1>10. StackInv'
  <2>1. OnUnfinished'
    BY <1>1, <1>2, <1>3, <1>8 DEF StackInv, OnUnfinished, On
  <2>2. Chain'
    <3>1. ASSUME NEW i \in 1..Len(stack')
          PROVE  stack'[i].todo \subseteq src[stack'[i].mod].imports
      BY <1>1, <1>8 DEF StackInv, Chain, On
    <3>2. ASSUME NEW i \in 1..(Len(stack') - 1)
          PROVE  stack'[i + 1].mod \in stack'[i].todo
      <4>1. CASE i = Len(stack)
        BY <4>1, <1>1, <1>4 DEF Top
      <4>2. CASE i # Len(stack)
        BY <4>2, <1>4 DEF StackInv, Chain, On
      <4> QED
        BY <4>1, <4>2
    <3> QED
      BY <3>1, <3>2 DEF Chain, On
  <2>3. ParseFrames'
    <3> SUFFICES ASSUME NEW i \in 1..Len(stack'), stack'[i].phase = "parse"
                 PROVE  /\ mem'[stack'[i].mod] # NoModule
                        /\ src[stack'[i].mod].imports \ stack'[i].todo \subseteq Fin
      BY <1>3 DEF ParseFrames, On, InMemory
    <3>1. CASE i = Len(stack) + 1
      BY <3>1, <1>1, <1>3, <1>4 DEF InMemory
    <3>2. CASE i \in 1..Len(stack) /\ stack'[i] = stack[i]
      <4>1. On(i) \in Modules
        BY <3>2, FrameTypes
      <4> QED
        BY <3>2, <4>1, <1>5 DEF StackInv, ParseFrames, On, InMemory
    <3> QED
      BY <1>8, <3>1, <3>2
  <2>4. DepsFrames'
    <3> SUFFICES ASSUME NEW i \in 1..Len(stack'), stack'[i].phase = "deps"
                 PROVE  /\ Current(stack'[i].mod)
                        /\ \A d \in src[stack'[i].mod].imports \ stack'[i].todo :
                             \/ d \in Fin /\ src[d].iface = cache[stack'[i].mod].deps[d]
                             \/ InMemory(d)' /\ \E j \in 1..(i - 1) : stack'[j].mod = d
      BY <1>3 DEF DepsFrames, On, Current
    <3>1. CASE i = Len(stack) + 1
      BY <3>1, <1>1, <1>3, <1>4 DEF Current
    <3>2. CASE i \in 1..Len(stack) /\ stack'[i] = stack[i]
      <4>1. stack[i].mod \in Modules /\ src[stack[i].mod].imports \subseteq Modules
        BY <3>2, FrameTypes DEF On
      <4>2. Current(stack[i].mod)
        BY <3>2 DEF StackInv, DepsFrames, On
      <4>3. ASSUME NEW d \in src[stack[i].mod].imports \ stack[i].todo
            PROVE  \/ d \in Fin /\ src[d].iface = cache[stack[i].mod].deps[d]
                   \/ InMemory(d)' /\ \E j \in 1..(i - 1) : stack'[j].mod = d
        <5>1. \/ d \in Fin /\ src[d].iface = cache[stack[i].mod].deps[d]
              \/ InMemory(d) /\ \E j \in 1..(i - 1) : stack[j].mod = d
          BY <3>2 DEF StackInv, DepsFrames, On
        <5>2. \A j \in 1..(i - 1) : stack'[j] = stack[j]
          BY <3>2, <1>4
        <5> QED
          BY <5>1, <5>2, <4>1, <1>5
      <4> QED
        BY <3>2, <4>2, <4>3
    <3> QED
      BY <1>8, <3>1, <3>2
  <2>5. Building'
    <3> SUFFICES ASSUME NEW x \in Modules, InMemory(x)', x \notin Fin
                 PROVE  \E i \in 1..Len(stack') : stack'[i].mod = x /\ stack'[i].phase = "parse"
      BY <1>3 DEF Building, On
    <3>1. CASE x = m
      BY <3>1, <1>1, <1>3, <1>4
    <3>2. CASE x # m
      <4>1. InMemory(x)
        BY <3>2, <1>3 DEF InMemory
      <4>2. PICK i \in 1..Len(stack) : stack[i].mod = x /\ stack[i].phase = "parse"
        BY <4>1 DEF StackInv, Building, On
      <4> QED
        BY <4>2, <1>4
    <3> QED
      BY <3>1, <3>2
  <2> QED
    BY <2>1, <2>2, <2>3, <2>4, <2>5 DEF StackInv
<1> QED
  BY <1>6, <1>7, <1>10 DEF Quiet, ErrorIsCycle

------------------------------------------------------------------------------
(* The innermost call goes on.                                              *)

\* The frame on top is replaced, and the module may be entered in memory.
LEMMA TopInv ==
  ASSUME LoaderInv, state = "running", stack # <<>>, NEW f \in Frame,
         UNCHANGED <<src, cache, loaded, wanted, state, edits>>,
         stack' = WithTop(f),
         f.mod = Top.mod,
         f.todo \subseteq src[f.mod].imports,
         f.phase = "parse" => /\ mem'[f.mod] # NoModule
                              /\ src[f.mod].imports \ f.todo \subseteq Fin,
         f.phase = "deps" =>
           /\ Top.phase = "deps" /\ mem' = mem
           /\ \A d \in src[f.mod].imports \ f.todo :
                \/ d \in Fin /\ src[d].iface = cache[f.mod].deps[d]
                \/ InMemory(d) /\ \E j \in 1..(Len(stack) - 1) : On(j) = d,
         \/ mem' = mem
         \/ mem' = [mem EXCEPT ![Top.mod] = Unfinished(Top.mod)]
  PROVE  LoaderInv'
<1> USE DEF LoaderInv
<1> DEFINE n == Len(stack)
<1>0. stack \in Seq(Frame)
  BY DEF TypeOK
<1>1. PICK m \in Modules : m = Top.mod
  BY <1>0, BelowProperties DEF Frame
<1>2. n \in Nat \ {0} /\ On(n) = m
  BY <1>0, <1>1, BelowProperties DEF On
<1>3. m \notin Fin
  BY <1>2 DEF StackInv, OnUnfinished
<1>4. /\ mem' \in [Modules -> ModuleObject \cup {NoModule}]
      /\ Fin' = Fin
      /\ \A x \in Modules \ {m} : mem'[x] = mem[x]
      /\ InMemory(m) => InMemory(m)'
      /\ InMemory(m)' => mem'[m].text = src[m]
  <2>1. CASE mem' = mem
    <3>1. Fin' = Fin /\ (InMemory(m)' <=> InMemory(m))
      BY <2>1 DEF Fin, Finished, InMemory
    <3> QED
      BY <2>1, <3>1 DEF TypeOK, MemoryInv, TextNow
  <2>2. CASE mem' = [mem EXCEPT ![m] = Unfinished(m)]
    BY <2>2, <1>3, EnterUnfinished
  <2> QED
    BY <1>1, <2>1, <2>2
<1>5. /\ stack' \in Seq(Frame) /\ Len(stack') = n
      /\ stack'[n] = f
      /\ \A i \in 1..(n - 1) : stack'[i] = stack[i]
  BY <1>0, WithTopProperties
<1>6. \A i \in 1..n : stack'[i].mod = On(i) /\ On(i) \in Modules
  BY <1>0, <1>1, <1>2, <1>5, FrameTypes DEF On
<1>7. \A x \in Modules : InMemory(x) => InMemory(x)'
  BY <1>4 DEF InMemory
<1>8. TypeOK'
  BY <1>4, <1>5 DEF TypeOK
<1>9. MemoryInv'
  <2>1. TextNow'
    BY <1>4 DEF MemoryInv, TextNow, InMemory
  <2>2. Closed'
    BY <1>3, <1>4 DEF MemoryInv, Closed, Current, Fin
  <2>3. LoadedIsFin'
    BY <1>4 DEF MemoryInv, LoadedIsFin
  <2>4. LoadOrder' /\ CacheAcyclic'
    BY DEF MemoryInv, LoadOrder, Imports, CacheAcyclic
  <2> QED
    BY <2>1, <2>2, <2>3, <2>4 DEF MemoryInv
<1> HIDE DEF n
<1>10. StackInv'
  <2>0. \A i \in 1..n : i = n \/ (i \in 1..(n - 1) /\ stack'[i] = stack[i])
    BY <1>2, <1>5
  <2>1. OnUnfinished'
    BY <1>4, <1>5, <1>6 DEF StackInv, OnUnfinished, On, n
  <2>2. Chain'
    <3>1. ASSUME NEW i \in 1..n
          PROVE  stack'[i].todo \subseteq src[stack'[i].mod].imports
      BY <1>5, <1>6, <2>0 DEF StackInv, Chain, On, n
    <3>2. ASSUME NEW i \in 1..(n - 1)
          PROVE  stack'[i + 1].mod \in stack'[i].todo
      <4>1. i + 1 \in 1..n /\ stack'[i] = stack[i]
        BY <1>2, <1>5
      <4> QED
        BY <4>1, <1>6 DEF StackInv, Chain, n
    <3> QED
      BY <3>1, <3>2, <1>5 DEF Chain, On
  <2>3. ParseFrames'
    <3> SUFFICES ASSUME NEW i \in 1..n, stack'[i].phase = "parse"
                 PROVE  /\ mem'[On(i)] # NoModule
                        /\ src[On(i)].imports \ stack'[i].todo \subseteq Fin
      BY <1>4, <1>5, <1>6 DEF ParseFrames, On, InMemory
    <3>1. CASE i = n
      BY <3>1, <1>1, <1>2, <1>5
    <3>2. CASE i \in 1..(n - 1) /\ stack'[i] = stack[i]
      BY <3>2, <1>6, <1>7 DEF StackInv, ParseFrames, InMemory, n
    <3> QED
      BY <2>0, <3>1, <3>2
  <2>4. DepsFrames'
    <3> SUFFICES ASSUME NEW i \in 1..n, stack'[i].phase = "deps"
                 PROVE  /\ Current(On(i))
                        /\ \A d \in src[On(i)].imports \ stack'[i].todo :
                             \/ d \in Fin /\ src[d].iface = cache[On(i)].deps[d]
                             \/ mem'[d] # NoModule /\ \E j \in 1..(i - 1) : On(j) = d
      <4>1. \A j \in 1..(n - 1) : stack'[j].mod = On(j)
        BY <1>2, <1>6
      <4> QED
        BY <1>2, <1>4, <1>5, <1>6, <4>1 DEF DepsFrames, On, Current, InMemory
    <3>1. CASE i = n
      BY <3>1, <1>1, <1>2, <1>5 DEF StackInv, DepsFrames, On, InMemory, n, Top
    <3>2. CASE i \in 1..(n - 1) /\ stack'[i] = stack[i]
      <4>1. Current(On(i)) /\ src[On(i)].imports \subseteq Modules
        BY <3>2, FrameTypes DEF StackInv, DepsFrames, n
      <4>2. ASSUME NEW d \in src[On(i)].imports \ stack[i].todo
            PROVE  \/ d \in Fin /\ src[d].iface = cache[On(i)].deps[d]
                   \/ mem'[d] # NoModule /\ \E j \in 1..(i - 1) : On(j) = d
        BY <3>2, <4>1, <1>7 DEF StackInv, DepsFrames, InMemory, n
      <4> QED
        BY <3>2, <4>1, <4>2
    <3> QED
      BY <2>0, <3>1, <3>2
  <2>5. Building'
    <3> SUFFICES ASSUME NEW x \in Modules, InMemory(x)', x \notin Fin
                 PROVE  \E i \in 1..n : stack'[i].mod = x /\ stack'[i].phase = "parse"
      BY <1>4, <1>5 DEF Building, On
    <3>1. CASE InMemory(x)
      <4>1. PICK i \in 1..n : stack[i].mod = x /\ stack[i].phase = "parse"
        BY <3>1 DEF StackInv, Building, On, n
      <4>2. CASE i = n
        <5>1. f.phase = "parse"
          BY <4>1, <4>2 DEF Frame, Top, n
        <5> QED
          BY <4>1, <4>2, <5>1, <1>5, <1>6 DEF On
      <4>3. CASE stack'[i] = stack[i]
        BY <4>1, <4>3
      <4> QED
        BY <2>0, <4>2, <4>3
    <3>2. CASE ~InMemory(x)
      <4>1. x = m
        BY <3>2, <1>4 DEF InMemory
      <4>2. f.phase = "parse"
        BY <3>2 DEF InMemory, Frame
      <4> QED
        BY <4>1, <4>2, <1>2, <1>5, <1>6
    <3> QED
      BY <3>1, <3>2
  <2> QED
    BY <2>1, <2>2, <2>3, <2>4, <2>5 DEF StackInv
<1> QED
  BY <1>8, <1>9, <1>10 DEF Quiet, ErrorIsCycle

LEMMA DropInv ==
  ASSUME LoaderInv, state = "running", stack # <<>>, NEW d \in Top.todo, DropTodo(d),
         UNCHANGED <<src, cache, loaded, wanted, state, edits>>,
         Top.phase = "parse" => d \in Fin,
         Top.phase = "deps" => \/ d \in Fin /\ src[d].iface = cache[Top.mod].deps[d]
                               \/ InMemory(d) /\ d \notin Fin
  PROVE  LoaderInv'
<1> USE DEF LoaderInv
<1> DEFINE f == [Top EXCEPT !.todo = @ \ {d}]
<1>0. stack \in Seq(Frame)
  BY DEF TypeOK
<1>1. Top \in Frame /\ Len(stack) \in Nat \ {0} /\ Top = stack[Len(stack)]
  BY <1>0, BelowProperties
<1>2. f \in Frame /\ f.mod = Top.mod /\ f.phase = Top.phase /\ f.todo = Top.todo \ {d}
  BY <1>1 DEF Frame
<1>3. stack' = WithTop(f) /\ mem' = mem
  BY DEF DropTodo
<1>4. d \in Modules /\ Top.todo \subseteq src[Top.mod].imports
  BY <1>1 DEF StackInv, Chain, On, Frame
<1> HIDE DEF f
<1>4a. PICK n \in 1..Len(stack) : n = Len(stack) /\ stack[n] = Top
  BY <1>1
<1>5. f.phase = "parse" => /\ mem'[f.mod] # NoModule
                           /\ src[f.mod].imports \ f.todo \subseteq Fin
  <2> SUFFICES ASSUME Top.phase = "parse"
               PROVE  /\ mem[Top.mod] # NoModule
                      /\ src[Top.mod].imports \ (Top.todo \ {d}) \subseteq Fin
    BY <1>2, <1>3
  <2>1. InMemory(Top.mod) /\ src[Top.mod].imports \ Top.todo \subseteq Fin
    BY <1>4a DEF StackInv, ParseFrames, On
  <2> QED
    BY <2>1 DEF InMemory
<1>6. ASSUME f.phase = "deps", NEW x \in src[f.mod].imports \ f.todo
      PROVE  \/ x \in Fin /\ src[x].iface = cache[f.mod].deps[x]
             \/ InMemory(x) /\ \E j \in 1..(Len(stack) - 1) : On(j) = x
  <2>1. CASE x # d
    <3>1. Top.phase = "deps" /\ x \in src[Top.mod].imports \ Top.todo
      BY <1>2, <1>6, <2>1
    <3>2. \/ x \in Fin /\ src[x].iface = cache[Top.mod].deps[x]
          \/ InMemory(x) /\ \E j \in 1..(n - 1) : On(j) = x
      BY <1>4a, <3>1 DEF StackInv, DepsFrames, On
    <3> QED
      BY <1>4a, <1>2, <3>2
  <2>2. CASE x = d /\ InMemory(d) /\ d \notin Fin
    <3>1. PICK j \in 1..Len(stack) : On(j) = d /\ stack[j].phase = "parse"
      BY <1>4, <2>2 DEF StackInv, Building
    <3>2. j # Len(stack)
      BY <1>1, <1>2, <1>6, <3>1
    <3> QED
      BY <1>1, <2>2, <3>1, <3>2
  <2> QED
    BY <1>2, <1>6, <2>1, <2>2
<1> QED
  BY <1>2, <1>3, <1>4, <1>5, <1>6, TopInv

\* The entry turns out not to be usable, and the source is parsed.
LEMMA ReparseInv ==
  ASSUME LoaderInv, state = "running", stack # <<>>,
         UNCHANGED <<src, cache, loaded, wanted, state, edits>>,
         stack' = WithTop(ParseFrame(Top.mod)),
         mem' = [mem EXCEPT ![Top.mod] = Unfinished(Top.mod)]
  PROVE  LoaderInv'
<1> USE DEF LoaderInv
<1> DEFINE f == ParseFrame(Top.mod)
<1>0. stack \in Seq(Frame)
  BY DEF TypeOK
<1>1. Top \in Frame /\ Len(stack) \in Nat \ {0} /\ Top = stack[Len(stack)]
  BY <1>0, BelowProperties
<1>2. PICK m \in Modules : m = Top.mod
  BY <1>1 DEF Frame
<1>3. src[m].imports \subseteq Modules
  BY LoaderAssumption DEF TypeOK
<1>4. f \in Frame /\ f.mod = m /\ f.todo = src[m].imports /\ f.phase = "parse"
  BY <1>2, <1>3 DEF ParseFrame, Frame
<1>5. m \notin Fin
  BY <1>1, <1>2 DEF StackInv, OnUnfinished, On
<1>6. mem' = [mem EXCEPT ![m] = Unfinished(m)]
  BY <1>2
<1>7. mem'[m] # NoModule
  BY <1>5, <1>6, EnterUnfinished DEF InMemory
<1>8. stack' = WithTop(f)
  OBVIOUS
<1> HIDE DEF f
<1> QED
  BY <1>2, <1>4, <1>7, <1>8, TopInv

------------------------------------------------------------------------------
(* The innermost call returns.                                              *)

\* Putting an entry whose dependencies are finished in the cache makes no circle:
\* a circle through it would go on among the finished modules.
LEMMA EntryAcyclic ==
  ASSUME TypeOK, Closed, CacheAcyclic, NEW m \in Modules, m \notin Fin,
         \A x \in Modules \ {m} : cache'[x] = cache[x],
         DOMAIN cache'[m].deps \subseteq Fin
  PROVE  CacheAcyclic'
<1> SUFFICES ASSUME NEW c \in SUBSET {x \in Modules : cache'[x] # NoEntry}, c # {},
                    \A x \in c : DOMAIN cache'[x].deps \cap c # {}
             PROVE  FALSE
  BY DEF CacheAcyclic
<1>1. CASE m \notin c
  <2>1. c \in SUBSET {x \in Modules : cache[x] # NoEntry}
    BY <1>1
  <2>2. \A x \in c : cache'[x] = cache[x]
    BY <1>1
  <2> QED
    BY <2>1, <2>2 DEF CacheAcyclic
<1>2. CASE m \in c
  <2> DEFINE b == c \cap Fin
  <2>1. b # {}
    BY <1>2
  <2>2. \A x \in Fin : Current(x) /\ DOMAIN cache[x].deps \subseteq Fin
    BY CurrentDeps, FinIsFinished DEF Closed
  <2>3. b \in SUBSET {x \in Modules : cache[x] # NoEntry}
    BY <2>2, FinIsFinished DEF Current
  <2>4. ASSUME NEW x \in b PROVE DOMAIN cache[x].deps \cap b # {}
    <3>1. cache'[x] = cache[x]
      BY FinIsFinished
    <3> QED
      BY <2>2, <3>1
  <2> HIDE DEF b
  <2> QED
    BY <2>1, <2>3, <2>4 DEF CacheAcyclic
<1> QED
  BY <1>1, <1>2

LEMMA ReturnInv ==
  ASSUME LoaderInv, state = "running", stack # <<>>,
         NEW m \in Modules, m = Top.mod,
         src[m].imports \subseteq Fin,
         NEW against \in Digests, NEW layout \in Seq(Ifaces),
         \A d \in src[m].imports : against[d] = src[d].iface,
         ReturnModule(Object(src[m], against, layout, TRUE)),
         cache' \in [Modules -> CacheEntry \cup {NoEntry}],
         \A x \in Modules \ {m} : cache'[x] = cache[x],
         cache'[m] # NoEntry, cache'[m].text = src[m],
         DOMAIN cache'[m].deps = src[m].imports,
         UNCHANGED <<src, wanted, state, edits>>
  PROVE  LoaderInv'
<1> USE DEF LoaderInv
<1> DEFINE n == Len(stack)
<1>0. stack \in Seq(Frame) /\ loaded \in Seq(Modules)
  BY DEF TypeOK
<1>1. n \in Nat \ {0} /\ On(n) = m
  BY <1>0, BelowProperties DEF On
<1>2. m \notin Fin
  BY <1>1 DEF StackInv, OnUnfinished
<1>3. /\ stack' = Below
      /\ mem' = [mem EXCEPT ![m] = Object(src[m], against, layout, TRUE)]
      /\ loaded' = Append(loaded, m)
  BY DEF ReturnModule
<1>4. /\ stack' \in Seq(Frame) /\ Len(stack') = n - 1
      /\ \A i \in 1..(n - 1) : stack'[i] = stack[i]
  BY <1>0, <1>3, BelowProperties
<1>5. /\ mem' \in [Modules -> ModuleObject \cup {NoModule}]
      /\ Fin' = Fin \cup {m}
      /\ InMemory(m)' /\ mem'[m].text = src[m] /\ mem'[m].against = against
      /\ \A x \in Modules \ {m} : mem'[x] = mem[x]
  <2> DEFINE o == Object(src[m], against, layout, TRUE)
  <2>1. o \in ModuleObject
    BY DEF TypeOK, Object, ModuleObject
  <2>2. o.finished /\ o.text = src[m] /\ o.against = against
    BY DEF Object
  <2>3. mem' = [mem EXCEPT ![m] = o]
    BY <1>3
  <2> HIDE DEF o
  <2> QED
    BY <2>1, <2>2, <2>3, EnterFinished
<1>6. \A x \in Modules : InMemory(x) => InMemory(x)'
  BY <1>5 DEF InMemory
\* The module is on the stack once: what a second call of it loads is an import
\* of the module, and so is finished.
<1>7. \A i \in 1..(n - 1) : On(i) # m /\ On(i) \in Modules
  <2> SUFFICES ASSUME NEW i \in 1..(n - 1), On(i) = m PROVE FALSE
    BY <1>0, <1>1, FrameTypes
  <2>1. i \in 1..n /\ i + 1 \in 1..n
    BY <1>1
  <2>2. On(i + 1) \in src[m].imports
    BY <2>1 DEF StackInv, Chain
  <2> QED
    BY <2>1, <2>2 DEF StackInv, OnUnfinished
<1>8. TypeOK'
  <2>1. \A x \in Modules : cache'[x] # NoEntry =>
                             DOMAIN cache'[x].deps = cache'[x].text.imports
    BY DEF TypeOK
  <2>2. loaded' \in Seq(Modules)
    BY <1>0, <1>3
  <2> QED
    BY <1>4, <1>5, <2>1, <2>2 DEF TypeOK
<1>9. TextNow' /\ Closed'
  <2>1. TextNow'
    BY <1>5 DEF MemoryInv, TextNow, InMemory
  <2>2. ASSUME NEW x \in Fin'
        PROVE  /\ src[x].imports \subseteq Fin'
               /\ \A d \in src[x].imports : mem'[x].against[d] = src[d].iface
               /\ cache'[x] # NoEntry /\ cache'[x].text = src[x]
    <3>1. CASE x = m
      BY <3>1, <1>5
    <3>2. CASE x # m
      <4>1. x \in Fin /\ x \in Modules
        BY <3>2, <1>5, FinIsFinished
      <4> QED
        BY <3>2, <4>1, <1>5 DEF MemoryInv, Closed, Current
    <3> QED
      BY <3>1, <3>2
  <2> QED
    BY <2>1, <2>2 DEF Closed, Current
<1>10. /\ Len(loaded) \in Nat /\ Len(loaded') = Len(loaded) + 1
       /\ loaded'[Len(loaded) + 1] = m
       /\ \A i \in 1..Len(loaded) : loaded'[i] = loaded[i]
       /\ DOMAIN loaded = 1..Len(loaded) /\ DOMAIN loaded' = 1..(Len(loaded) + 1)
  BY <1>0, <1>3
<1>11. LoadedIsFin'
  <2> SUFFICES ASSUME NEW x \in Modules
               PROVE  x \in Fin \cup {m} <=> \E i \in 1..(Len(loaded) + 1) : loaded'[i] = x
    BY <1>5, <1>10 DEF LoadedIsFin
  <2>1. x \in Fin <=> \E i \in 1..Len(loaded) : loaded[i] = x
    BY DEF MemoryInv, LoadedIsFin
  <2>2. \A i \in 1..(Len(loaded) + 1) :
          \/ i = Len(loaded) + 1 /\ loaded'[i] = m
          \/ i \in 1..Len(loaded) /\ loaded'[i] = loaded[i]
    BY <1>10
  <2>3. Len(loaded) + 1 \in 1..(Len(loaded) + 1)
        /\ 1..Len(loaded) \subseteq 1..(Len(loaded) + 1)
    BY <1>10
  <2> QED
    BY <2>1, <2>2, <2>3, <1>10
<1>12. LoadOrder'
  <2> SUFFICES ASSUME NEW j \in 1..(Len(loaded) + 1)
               PROVE  /\ \A i \in 1..(j - 1) : loaded'[i] # loaded'[j]
                      /\ src[loaded'[j]].imports \subseteq {loaded'[i] : i \in 1..(j - 1)}
    BY <1>10 DEF LoadOrder, Imports
  <2>1. CASE j = Len(loaded) + 1
    <3>1. loaded'[j] = m /\ j - 1 = Len(loaded)
      BY <2>1, <1>10
    <3>2. \A i \in 1..Len(loaded) : loaded[i] # m
      BY <1>2 DEF MemoryInv, LoadedIsFin
    <3>3. ASSUME NEW d \in src[m].imports
          PROVE  d \in {loaded'[i] : i \in 1..Len(loaded)}
      <4>1. d \in Fin /\ d \in Modules
        BY FinIsFinished
      <4>2. PICK i \in 1..Len(loaded) : loaded[i] = d
        BY <4>1 DEF MemoryInv, LoadedIsFin
      <4> QED
        BY <4>2, <1>10
    <3> QED
      BY <3>1, <3>2, <3>3, <1>10
  <2>2. CASE j # Len(loaded) + 1
    <3>1. j \in DOMAIN loaded /\ loaded'[j] = loaded[j]
      BY <2>2, <1>10
    <3>2. \A i \in 1..(j - 1) : loaded'[i] = loaded[i]
      BY <2>2, <1>10
    <3>3. {loaded'[i] : i \in 1..(j - 1)} = {loaded[i] : i \in 1..(j - 1)}
      BY <3>2
    <3> QED
      BY <3>1, <3>2, <3>3 DEF MemoryInv, LoadOrder, Imports
  <2> QED
    BY <2>1, <2>2
<1>13. CacheAcyclic'
  BY <1>2, EntryAcyclic DEF MemoryInv
<1> HIDE DEF n
<1>14. StackInv'
  <2>0. 1..(n - 1) \subseteq 1..n /\ n = Len(stack)
    BY <1>1 DEF n
  <2>1. OnUnfinished'
    BY <2>0, <1>4, <1>5, <1>7 DEF StackInv, OnUnfinished, On
  <2>2. Chain'
    <3>1. \A i \in 1..(n - 1) : stack'[i].todo \subseteq src[stack'[i].mod].imports
      BY <2>0, <1>4 DEF StackInv, Chain, On
    <3>2. ASSUME NEW i \in 1..(n - 2) PROVE stack'[i + 1].mod \in stack'[i].todo
      <4>1. i \in 1..(n - 1) /\ i + 1 \in 1..(n - 1)
        BY <1>1
      <4> QED
        BY <2>0, <4>1, <1>4 DEF StackInv, Chain, On
    <3>3. (n - 1) - 1 = n - 2
      BY <1>1
    <3> QED
      BY <3>1, <3>2, <3>3, <1>4 DEF Chain, On
  <2>3. ParseFrames'
    <3> SUFFICES ASSUME NEW i \in 1..(n - 1), stack[i].phase = "parse"
                 PROVE  /\ mem'[On(i)] # NoModule
                        /\ src[On(i)].imports \ stack[i].todo \subseteq Fin'
      BY <1>4 DEF ParseFrames, On, InMemory
    <3> QED
      BY <2>0, <1>5, <1>6, <1>7 DEF StackInv, ParseFrames, InMemory
  <2>4. DepsFrames'
    <3> SUFFICES ASSUME NEW i \in 1..(n - 1), stack[i].phase = "deps"
                 PROVE  /\ cache'[On(i)] # NoEntry /\ cache'[On(i)].text = src[On(i)]
                        /\ \A d \in src[On(i)].imports \ stack[i].todo :
                             \/ d \in Fin' /\ src[d].iface = cache'[On(i)].deps[d]
                             \/ mem'[d] # NoModule /\ \E j \in 1..(i - 1) : On(j) = d
      <4>1. \A j \in 1..(n - 1) : stack'[j].mod = On(j)
        BY <1>4 DEF On
      <4>2. \A k \in 1..(n - 1) : 1..(k - 1) \subseteq 1..(n - 1)
        BY <1>1
      <4> QED
        BY <1>4, <4>1, <4>2 DEF DepsFrames, On, Current, InMemory
    <3>1. cache'[On(i)] = cache[On(i)] /\ src[On(i)].imports \subseteq Modules
      BY <2>0, <1>7, FrameTypes
    <3>2. Current(On(i))
      BY <2>0 DEF StackInv, DepsFrames
    <3>3. ASSUME NEW d \in src[On(i)].imports \ stack[i].todo
          PROVE  \/ d \in Fin' /\ src[d].iface = cache'[On(i)].deps[d]
                 \/ mem'[d] # NoModule /\ \E j \in 1..(i - 1) : On(j) = d
      <4>1. \/ d \in Fin /\ src[d].iface = cache[On(i)].deps[d]
            \/ InMemory(d) /\ \E j \in 1..(i - 1) : On(j) = d
        BY <2>0 DEF StackInv, DepsFrames
      <4> QED
        BY <3>1, <4>1, <1>5, <1>6 DEF InMemory
    <3> QED
      BY <3>1, <3>2, <3>3 DEF Current
  <2>5. Building'
    <3> SUFFICES ASSUME NEW x \in Modules, InMemory(x)', x \notin Fin'
                 PROVE  \E i \in 1..(n - 1) : stack'[i].mod = x /\ stack'[i].phase = "parse"
      BY <1>4 DEF Building, On
    <3>1. x # m /\ x \notin Fin /\ InMemory(x)
      BY <1>5 DEF InMemory
    <3>2. PICK i \in 1..n : On(i) = x /\ stack[i].phase = "parse"
      BY <2>0, <3>1 DEF StackInv, Building
    <3>3. i # n
      BY <1>1, <3>1, <3>2
    <3>4. i \in 1..(n - 1)
      BY <1>1, <3>3
    <3> QED
      BY <3>2, <3>4, <1>4 DEF On
  <2> QED
    BY <2>1, <2>2, <2>3, <2>4, <2>5 DEF StackInv
<1>15. MemoryInv'
  BY <1>9, <1>11, <1>12, <1>13 DEF MemoryInv
<1> QED
  BY <1>8, <1>14, <1>15 DEF Quiet, ErrorIsCycle

------------------------------------------------------------------------------
(* An exception ends the run.                                               *)

\* The module in question is imported by the innermost call and is being loaded
\* by a call that led to it: the modules in between form a cycle.
LEMMA ThrowInv ==
  ASSUME LoaderInv, state = "running", stack # <<>>,
         NEW d \in src[Top.mod].imports, NEW k \in 1..Len(stack), On(k) = d, Throw
  PROVE  LoaderInv'
<1> USE DEF LoaderInv
<1> DEFINE n == Len(stack)
           c == {On(i) : i \in k..n}
<1>0. stack \in Seq(Frame)
  BY DEF TypeOK
<1>1. n \in Nat \ {0} /\ On(n) = Top.mod
  BY <1>0, BelowProperties DEF On
<1>2. \A i \in k..n : i \in 1..n /\ On(i) \in Modules
  BY <1>1, FrameTypes
<1>3. c \in SUBSET Modules /\ c # {}
  BY <1>1, <1>2
<1>4. ASSUME NEW m \in c PROVE src[m].imports \cap c # {}
  <2>1. PICK i \in k..n : m = On(i)
    OBVIOUS
  <2>2. CASE i = n
    <3>1. d \in src[m].imports /\ d \in c
      BY <1>1, <2>1, <2>2
    <3> QED
      BY <3>1
  <2>3. CASE i # n
    <3>1. i \in 1..n /\ i \in 1..(n - 1) /\ i + 1 \in k..n
      BY <1>1, <2>3
    <3>2. On(i + 1) \in src[m].imports /\ On(i + 1) \in c
      BY <2>1, <3>1 DEF StackInv, Chain
    <3> QED
      BY <3>2
  <2> QED
    BY <2>2, <2>3
<1>5. \E b \in SUBSET Modules : b # {} /\ \A m \in b : src[m].imports \cap b # {}
  <2> HIDE DEF c
  <2> QED
    BY <1>3, <1>4
<1>6. /\ state' = "error" /\ stack' = <<>>
      /\ UNCHANGED <<src, cache, mem, loaded, wanted, edits>>
  BY DEF Throw
<1>7. ErrorIsCycle'
  BY <1>5, <1>6 DEF ErrorIsCycle, HasCycle, Imports
<1>8. TypeOK' /\ Quiet'
  BY <1>6 DEF TypeOK, Quiet
<1>9. Fin' = Fin
  BY <1>6 DEF Fin, Finished, InMemory
<1>10. MemoryInv'
  BY <1>6, <1>9
  DEF MemoryInv, TextNow, InMemory, Closed, Current, LoadedIsFin, LoadOrder, Imports,
      CacheAcyclic
<1>11. StackInv'
  <2>1. Len(stack') = 0
    BY <1>6
  <2> QED
    BY <1>6, <2>1 DEF StackInv, OnUnfinished, Chain, ParseFrames, DepsFrames, Building
<1> QED
  BY <1>7, <1>8, <1>10, <1>11

------------------------------------------------------------------------------
(* The actions.                                                             *)

LEMMA InitLoaderInv == Init => LoaderInv
<1> SUFFICES ASSUME Init PROVE LoaderInv
  OBVIOUS
<1>1. TypeOK
  BY LoaderAssumption DEF Init, TypeOK
<1>2. \A m \in Modules : ~InMemory(m) /\ cache[m] = NoEntry
  BY DEF Init, InMemory
<1>3. Fin = {}
  BY <1>2 DEF Fin, Finished
<1>4. Len(stack) = 0 /\ Len(loaded) = 0 /\ DOMAIN loaded = {} /\ state = "idle"
  BY DEF Init
<1>5. Quiet /\ ErrorIsCycle
  BY <1>2 DEF Init, Quiet, ErrorIsCycle
<1>6. MemoryInv
  BY <1>2, <1>3, <1>4
  DEF MemoryInv, TextNow, Closed, LoadedIsFin, LoadOrder, CacheAcyclic
<1>7. StackInv
  BY <1>4 DEF StackInv, OnUnfinished, Chain, ParseFrames, DepsFrames, Building
<1> QED
  BY <1>1, <1>5, <1>6, <1>7 DEF LoaderInv

\* Steps outside the calls of getModule().
LEMMA OutsideInv ==
  ASSUME LoaderInv, stack = <<>>, stack' = <<>>, TypeOK', cache' = cache,
         state' # "error",
         \/ Fin = {} /\ Fin' = {} /\ loaded' = <<>> /\ \A m \in Modules : ~InMemory(m)'
         \/ UNCHANGED <<src, mem, loaded>> /\ state = "running" /\ state' = "done"
  PROVE  LoaderInv'
<1> USE DEF LoaderInv
<1>1. Len(stack') = 0
  OBVIOUS
<1>2. CASE Fin = {} /\ Fin' = {} /\ loaded' = <<>> /\ \A m \in Modules : ~InMemory(m)'
  <2>1. Len(loaded') = 0 /\ DOMAIN loaded' = {}
    BY <1>2
  <2>2. MemoryInv'
    BY <1>2, <2>1
    DEF MemoryInv, TextNow, Closed, LoadedIsFin, LoadOrder, CacheAcyclic
  <2>3. StackInv'
    BY <1>1, <1>2 DEF StackInv, OnUnfinished, Chain, ParseFrames, DepsFrames, Building
  <2> QED
    BY <1>2, <2>2, <2>3 DEF Quiet, ErrorIsCycle
<1>3. CASE UNCHANGED <<src, mem, loaded>> /\ state = "running" /\ state' = "done"
  <2>1. Fin' = Fin
    BY <1>3 DEF Fin, Finished, InMemory
  <2>2. MemoryInv'
    BY <1>3, <2>1
    DEF MemoryInv, TextNow, InMemory, Closed, Current, LoadedIsFin, LoadOrder, Imports,
        CacheAcyclic
  <2>3. StackInv'
    BY <1>1, <1>3 DEF StackInv, OnUnfinished, Chain, ParseFrames, DepsFrames, Building
  <2> QED
    BY <1>3, <2>2, <2>3 DEF Quiet, ErrorIsCycle
<1> QED
  BY <1>2, <1>3

LEMMA EditInv ==
  ASSUME LoaderInv, NEW m \in Modules, NEW t \in Texts, Edit(m, t)
  PROVE  LoaderInv'
<1> USE DEF LoaderInv
<1>1. TypeOK'
  BY LoaderAssumption DEF Edit, TypeOK
<1>2. stack = <<>> /\ stack' = <<>> /\ cache' = cache /\ loaded' = <<>> /\ state' # "error"
  BY DEF Edit, Quiet
<1>3. \A x \in Modules : ~InMemory(x) /\ ~InMemory(x)'
  BY DEF Edit, Quiet, InMemory
<1>4. Fin = {} /\ Fin' = {}
  BY <1>3 DEF Fin, Finished
<1> QED
  BY <1>1, <1>2, <1>3, <1>4, OutsideInv

LEMMA RunScriptInv ==
  ASSUME LoaderInv, NEW names \in SUBSET Modules, RunScript(names)
  PROVE  LoaderInv'
<1> USE DEF LoaderInv
<1>1. TypeOK'
  BY DEF RunScript, TypeOK
<1>2. stack = <<>> /\ stack' = <<>> /\ cache' = cache /\ loaded' = <<>> /\ state' # "error"
  BY DEF RunScript, Quiet
<1>3. \A x \in Modules : ~InMemory(x) /\ ~InMemory(x)'
  BY DEF RunScript, Quiet, InMemory
<1>4. Fin = {} /\ Fin' = {}
  BY <1>3 DEF Fin, Finished
<1> QED
  BY <1>1, <1>2, <1>3, <1>4, OutsideInv

LEMMA ExitInv ==
  ASSUME LoaderInv, Exit
  PROVE  LoaderInv'
<1> USE DEF LoaderInv
<1>1. TypeOK'
  BY DEF Exit, TypeOK
<1>2. stack' = <<>> /\ Len(stack') = 0 /\ cache' = cache /\ state' = "idle"
  BY DEF Exit, Quiet
<1>3. loaded' = <<>> /\ Len(loaded') = 0 /\ DOMAIN loaded' = {}
  BY DEF Exit
<1>4. \A x \in Modules : ~InMemory(x)'
  BY DEF Exit, InMemory
<1>5. Fin' = {}
  BY <1>4 DEF Fin, Finished
<1>6. MemoryInv'
  BY <1>2, <1>3, <1>4, <1>5
  DEF MemoryInv, TextNow, Closed, LoadedIsFin, LoadOrder, CacheAcyclic
<1>7. StackInv'
  BY <1>2 DEF StackInv, OnUnfinished, Chain, ParseFrames, DepsFrames, Building
<1> QED
  BY <1>1, <1>2, <1>3, <1>4, <1>6, <1>7 DEF Quiet, ErrorIsCycle

LEMMA ScriptLoadedInv ==
  ASSUME LoaderInv, ScriptLoaded
  PROVE  LoaderInv'
<1> USE DEF LoaderInv
<1>1. TypeOK'
  BY DEF ScriptLoaded, TypeOK
<1> QED
  BY <1>1, OutsideInv DEF ScriptLoaded

LEMMA LoadInv ==
  ASSUME LoaderInv, NEW d \in Modules, ScriptImport(d) \/ DepLoad(d) \/ ImportLoad(d)
  PROVE  LoaderInv'
<1>1. /\ state = "running" /\ ~InMemory(d) /\ GetModule(d)
      /\ stack # <<>> => d \in Top.todo
      /\ UNCHANGED <<src, cache, loaded, wanted, state, edits>>
  BY Zenon DEF ScriptImport, DepLoad, ImportLoad, Reading, Parsing
<1> QED
  BY <1>1, PushInv

LEMMA PassInv ==
  ASSUME LoaderInv, NEW d \in Modules, DepUnfinished(d) \/ DepSame(d) \/ ImportLoaded(d)
  PROVE  LoaderInv'
<1>1. /\ state = "running" /\ stack # <<>> /\ d \in Top.todo /\ DropTodo(d)
      /\ UNCHANGED <<src, cache, loaded, wanted, state, edits>>
  BY Zenon DEF DepUnfinished, DepSame, ImportLoaded, Reading, Parsing
<1>2. CASE DepUnfinished(d)
  <2>1. Top.phase = "deps" /\ InMemory(d) /\ d \notin Fin
    BY <1>2 DEF DepUnfinished, Reading, Fin, Finished
  <2> QED
    BY <1>1, <2>1, DropInv
<1>3. CASE DepSame(d)
  <2>1. Top.phase = "deps" /\ d \in Fin /\ InMemory(d)
    BY <1>3 DEF DepSame, Reading, Fin, Finished
  <2>2. src[d].iface = cache[Top.mod].deps[d]
    BY <1>3, <2>1 DEF DepSame, LoaderInv, MemoryInv, TextNow
  <2> QED
    BY <1>1, <2>1, <2>2, DropInv
<1>4. CASE ImportLoaded(d)
  <2>1. Top.phase = "parse" /\ d \in Fin
    BY <1>4 DEF ImportLoaded, Parsing, Fin
  <2> QED
    BY <1>1, <2>1, DropInv
<1> QED
  BY <1>2, <1>3, <1>4

LEMMA DepChangedInv ==
  ASSUME LoaderInv, NEW d \in Modules, DepChanged(d)
  PROVE  LoaderInv'
  BY ReparseInv DEF DepChanged, Reading

LEMMA ImportRecursiveInv ==
  ASSUME LoaderInv, NEW d \in Modules, ImportRecursive(d)
  PROVE  LoaderInv'
<1> USE DEF LoaderInv
<1>1. /\ state = "running" /\ stack # <<>> /\ d \in Top.todo /\ InMemory(d) /\ Throw
      /\ d \notin Fin
  BY DEF ImportRecursive, Parsing, Fin, Finished
<1>2. PICK k \in 1..Len(stack) : On(k) = d
  BY <1>1 DEF StackInv, Building
<1>3. PICK n \in 1..Len(stack) : stack[n] = Top
  BY <1>1, BelowProperties DEF TypeOK
<1>4. d \in src[Top.mod].imports
  BY <1>1, <1>3 DEF StackInv, Chain, On
<1> QED
  BY <1>1, <1>2, <1>4, ThrowInv

\* When all dependencies are read, every one is finished and unchanged or is
\* being built.
LEMMA AllReadDeps ==
  ASSUME LoaderInv, AllRead
  PROVE  /\ state = "running" /\ stack # <<>>
         /\ Top.mod \in Modules /\ Current(Top.mod)
         /\ DOMAIN cache[Top.mod].deps = src[Top.mod].imports
         /\ src[Top.mod].imports \subseteq Modules
         /\ \A d \in src[Top.mod].imports :
              \/ d \in Fin /\ src[d].iface = cache[Top.mod].deps[d]
              \/ InMemory(d) /\ d \notin Fin /\ \E k \in 1..Len(stack) : On(k) = d
<1> USE DEF LoaderInv
<1>1. state = "running" /\ stack # <<>> /\ Top.phase = "deps" /\ Top.todo = {}
  BY DEF AllRead
<1>2. PICK n \in 1..Len(stack) : n = Len(stack) /\ stack[n] = Top
  BY <1>1, BelowProperties DEF TypeOK
<1>3. On(n) = Top.mod /\ On(n) \in Modules
  BY <1>2, FrameTypes DEF On
<1>4. Current(On(n))
  BY <1>1, <1>2 DEF StackInv, DepsFrames
<1>5. DOMAIN cache[On(n)].deps = src[On(n)].imports /\ src[On(n)].imports \subseteq Modules
  BY <1>3, <1>4, CurrentDeps
<1>6. ASSUME NEW d \in src[On(n)].imports
      PROVE  \/ d \in Fin /\ src[d].iface = cache[On(n)].deps[d]
             \/ InMemory(d) /\ d \notin Fin /\ \E k \in 1..Len(stack) : On(k) = d
  <2>1. \/ d \in Fin /\ src[d].iface = cache[On(n)].deps[d]
        \/ InMemory(d) /\ \E j \in 1..(n - 1) : On(j) = d
    BY <1>1, <1>2 DEF StackInv, DepsFrames
  <2>2. 1..(n - 1) \subseteq 1..Len(stack)
    BY <1>2
  <2> QED
    BY <2>1, <2>2 DEF StackInv, OnUnfinished
<1> QED
  BY <1>1, <1>3, <1>4, <1>5, <1>6

LEMMA MaterializeInv ==
  ASSUME LoaderInv, MaterializeModule
  PROVE  LoaderInv'
<1> USE DEF LoaderInv
<1>1. AllRead /\ \A d \in DOMAIN cache[Top.mod].deps : mem[d].finished
  BY DEF MaterializeModule
<1>2. PICK m \in Modules : m = Top.mod
  BY <1>1, AllReadDeps
<1>3. ASSUME NEW d \in src[m].imports
      PROVE  d \in Fin /\ cache[m].deps[d] = src[d].iface
  <2>1. d \in Modules /\ mem[d].finished
    BY <1>1, <1>2, AllReadDeps
  <2>2. InMemory(d) => d \in Fin
    BY <2>1 DEF Fin, Finished
  <2> QED
    BY <1>1, <1>2, <2>2, AllReadDeps
<1>4. /\ cache[m] # NoEntry /\ cache[m].text = src[m] /\ cache[m] \in CacheEntry
      /\ DOMAIN cache[m].deps = src[m].imports
  BY <1>1, <1>2, AllReadDeps DEF Current, TypeOK
<1>5. cache[m].deps \in Digests /\ cache[m].layout \in Seq(Ifaces)
  BY <1>4 DEF CacheEntry
<1>6. /\ ReturnModule(Object(src[m], cache[m].deps, cache[m].layout, TRUE))
      /\ UNCHANGED <<src, cache, wanted, state, edits>>
  BY <1>2, <1>4 DEF MaterializeModule
<1>7. cache' \in [Modules -> CacheEntry \cup {NoEntry}]
  BY <1>6 DEF TypeOK
<1>8. state = "running" /\ stack # <<>>
  BY <1>1 DEF AllRead
<1> QED
  BY <1>2, <1>3, <1>4, <1>5, <1>6, <1>7, <1>8, ReturnInv

LEMMA RecursiveReferenceInv ==
  ASSUME LoaderInv, RecursiveReference
  PROVE  LoaderInv'
<1>1. AllRead /\ Throw
  BY DEF RecursiveReference
<1>2. PICK d \in DOMAIN cache[Top.mod].deps : ~mem[d].finished
  BY DEF RecursiveReference
<1>3. d \in src[Top.mod].imports /\ d \notin Fin
  BY <1>1, <1>2, AllReadDeps DEF Fin, Finished
<1>4. PICK k \in 1..Len(stack) : On(k) = d
  BY <1>1, <1>3, AllReadDeps
<1> QED
  BY <1>1, <1>3, <1>4, AllReadDeps, ThrowInv

LEMMA FinishParseInv ==
  ASSUME LoaderInv, FinishParse
  PROVE  LoaderInv'
<1> USE DEF LoaderInv
<1>1. state = "running" /\ stack # <<>> /\ Top.phase = "parse" /\ Top.todo = {}
  BY DEF FinishParse, Parsed
<1>2. PICK n \in 1..Len(stack) : n = Len(stack) /\ stack[n] = Top
  BY <1>1, BelowProperties DEF TypeOK
<1>3. PICK m \in Modules : m = Top.mod /\ m = On(n)
  BY <1>2, FrameTypes DEF On
<1> DEFINE t == src[m]
           entry == [text |-> t, deps |-> MetaDigests(t), layout |-> Layout(t)]
<1>4. t \in Texts /\ t.imports \subseteq Modules /\ t.base \in t.imports \cup {NoModule}
  BY LoaderAssumption DEF TypeOK
<1>5. t.imports \subseteq Fin
  BY <1>1, <1>2, <1>3 DEF StackInv, ParseFrames
<1>6. \A d \in t.imports : mem[d] \in ModuleObject /\ mem[d].text = src[d] /\ src[d] \in Texts
  <2> SUFFICES ASSUME NEW d \in t.imports
               PROVE  mem[d] \in ModuleObject /\ mem[d].text = src[d] /\ src[d] \in Texts
    OBVIOUS
  <2>1. d \in Modules /\ InMemory(d)
    BY <1>4, <1>5 DEF Fin, Finished
  <2> QED
    BY <2>1 DEF MemoryInv, TextNow, TypeOK, InMemory
<1>7. /\ MetaDigests(t) \in [t.imports -> Ifaces]
      /\ \A d \in t.imports : MetaDigests(t)[d] = src[d].iface
  BY <1>6 DEF MetaDigests, Ifaces
<1>8. MetaDigests(t) \in Digests
  BY <1>4, <1>7 DEF Digests
<1>9. Layout(t) \in Seq(Ifaces)
  <2>1. <<t.iface>> \in Seq(Ifaces)
    BY <1>4 DEF Ifaces
  <2>2. t.base # NoModule => mem[t.base].layout \in Seq(Ifaces)
    BY <1>4, <1>6 DEF ModuleObject
  <2> QED
    BY <2>1, <2>2 DEF Layout
<1>10. entry \in CacheEntry
  BY <1>4, <1>8, <1>9 DEF CacheEntry
<1>11. /\ cache' = [cache EXCEPT ![m] = entry]
       /\ ReturnModule(Object(t, MetaDigests(t), Layout(t), TRUE))
       /\ UNCHANGED <<src, wanted, state, edits>>
  BY <1>3 DEF FinishParse
<1>12. DOMAIN MetaDigests(t) = t.imports
  BY <1>7
<1> HIDE DEF entry
<1>13. /\ cache' \in [Modules -> CacheEntry \cup {NoEntry}]
       /\ cache'[m] = entry
       /\ \A x \in Modules \ {m} : cache'[x] = cache[x]
  BY <1>10, <1>11 DEF TypeOK
<1>14. /\ cache'[m] # NoEntry /\ cache'[m].text = src[m]
       /\ DOMAIN cache'[m].deps = src[m].imports
  BY <1>10, <1>12, <1>13, LoaderAssumption DEF entry
<1> QED
  BY <1>1, <1>3, <1>5, <1>7, <1>8, <1>9, <1>11, <1>13, <1>14, ReturnInv

LEMMA StepLoaderInv == LoaderInv /\ [Next]_vars => LoaderInv'
<1> SUFFICES ASSUME LoaderInv, [Next]_vars PROVE LoaderInv'
  OBVIOUS
<1>1. CASE UNCHANGED vars
  <2> USE <1>1 DEF vars, LoaderInv
  <2>1. TypeOK' /\ Quiet' /\ ErrorIsCycle'
    BY DEF TypeOK, Quiet, InMemory, ErrorIsCycle, HasCycle, Imports
  <2>2. Fin' = Fin
    BY DEF Fin, Finished, InMemory
  <2>3. MemoryInv'
    BY <2>2
    DEF MemoryInv, TextNow, InMemory, Closed, Current, LoadedIsFin, LoadOrder, Imports,
        CacheAcyclic
  <2>4. StackInv'
    BY <2>2
    DEF StackInv, OnUnfinished, Chain, ParseFrames, DepsFrames, Building, InMemory, Current,
        On
  <2> QED
    BY <2>1, <2>3, <2>4
<1> QED
  BY <1>1, EditInv, RunScriptInv, ExitInv, ScriptLoadedInv, LoadInv, PassInv, DepChangedInv,
     ImportRecursiveInv, MaterializeInv, RecursiveReferenceInv, FinishParseInv
  DEF Next, LoadStep

------------------------------------------------------------------------------
(* The theorems.                                                            *)

LEMMA LoaderInvariant == Spec => []LoaderInv
  BY InitLoaderInv, StepLoaderInv, PTL DEF Spec

\* THEOREM.  Every variable keeps its type, and an entry of the persistent cache
\* always has the meta digests of exactly the modules its text imports.
THEOREM LoaderTyped == Spec => []TypeOK
<1>1. LoaderInv => TypeOK
  BY DEF LoaderInv
<1> QED
  BY <1>1, LoaderInvariant, PTL

\* THEOREM.  However edits and runs follow each other, a module that getModule()
\* has finished, from the cache or from its source, was built from the source as
\* it is now and against the interfaces that the modules it imports have now.
THEOREM LoadedIsFresh == Spec => []Fresh
<1>1. ASSUME LoaderInv PROVE Fresh
  <2> SUFFICES ASSUME NEW m \in Modules, Finished(m)
               PROVE  /\ mem[m].text = src[m]
                      /\ \A d \in src[m].imports : mem[m].against[d] = mem[d].text.iface
    BY DEF Fresh
  <2>1. m \in Fin /\ InMemory(m)
    BY DEF Fin, Finished
  <2>2. \A d \in src[m].imports : d \in Modules /\ InMemory(d)
    BY <1>1, <2>1 DEF LoaderInv, MemoryInv, Closed, Fin, Finished
  <2> QED
    BY <1>1, <2>1, <2>2 DEF LoaderInv, MemoryInv, TextNow, Closed
<1> QED
  BY <1>1, LoaderInvariant, PTL

\* THEOREM.  No module is loaded twice in a process, although a module that is
\* being deserialized is not in moduleCache yet and may be requested again, and
\* every module comes after the ones it imports.
THEOREM LoadedInOrder == Spec => []LoadOrder
<1>1. LoaderInv => LoadOrder
  BY DEF LoaderInv, MemoryInv
<1> QED
  BY <1>1, LoaderInvariant, PTL

\* THEOREM.  A cycle of imports is reported however it is spread over modules from
\* the cache and modules from their sources, and only a cycle is reported.
THEOREM CyclesAreReported == Spec => []CyclesReported
<1>1. ASSUME LoaderInv PROVE CyclesReported
  <2> USE <1>1 DEF LoaderInv
  <2>1. ASSUME state = "done", HasCycle({loaded[i] : i \in DOMAIN loaded}, Imports)
        PROVE  FALSE
    <3>1. DOMAIN loaded = 1..Len(loaded) /\ loaded \in Seq(Modules)
      BY DEF TypeOK
    <3>2. PICK c \in SUBSET {loaded[i] : i \in DOMAIN loaded} :
            c # {} /\ \A m \in c : src[m].imports \cap c # {}
      BY <2>1 DEF HasCycle, Imports
    <3>3. \A m \in c : m \in Fin /\ m \in Modules
      BY <3>1 DEF MemoryInv, LoadedIsFin
    <3>4. \A m \in c : Current(m) /\ DOMAIN cache[m].deps = src[m].imports
      BY <3>3, CurrentDeps DEF MemoryInv, Closed
    <3>5. c \in SUBSET {m \in Modules : cache[m] # NoEntry}
      BY <3>3, <3>4 DEF Current
    <3> QED
      BY <3>2, <3>4, <3>5 DEF MemoryInv, CacheAcyclic
  <2> QED
    BY <2>1 DEF CyclesReported, ErrorIsCycle
<1> QED
  BY <1>1, LoaderInvariant, PTL

\* THEOREM.  The entries of the persistent cache that match their sources never
\* depend on each other in a circle, whatever order sources were edited, edited
\* back and rebuilt in: a chain of nested getModule() calls that only read headers
\* does not meet the same module again.
THEOREM CacheStaysWellFounded == Spec => []CacheWellFounded
<1>1. ASSUME LoaderInv PROVE CacheWellFounded
  <2> SUFFICES ASSUME NEW c \in SUBSET {m \in Modules : Current(m)},
                      c # {}, \A m \in c : DOMAIN cache[m].deps \cap c # {}
               PROVE  FALSE
    BY DEF CacheWellFounded, HasCycle
  <2>1. c \in SUBSET {m \in Modules : cache[m] # NoEntry}
    BY DEF Current
  <2> QED
    BY <1>1, <2>1 DEF LoaderInv, MemoryInv, CacheAcyclic
<1> QED
  BY <1>1, LoaderInvariant, PTL

==============================================================================
