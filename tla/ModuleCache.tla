---------------------------- MODULE ModuleCache ----------------------------
(***************************************************************************)
(* The persistent cache of one compiled module, shared by every crack      *)
(* process of a user: the meta-data file (<name>.crkmeta) and the builder  *)
(* file (<name>.bc) in the cache directory.  A process loads the module    *)
(* from the two files when the meta-data holds the digest of the source,   *)
(* and otherwise compiles the source and publishes new files:              *)
(*   model/Context.cc      materializeModule, cacheModule                  *)
(*   model/ModuleDef.cc    deserialize                                     *)
(*   model/Construct.cc    getModule, parseModule                          *)
(*   builder/llvm          Cacher::getCacheFile, LLVMBuilder::cacheModule  *)
(*   util/CacheFiles.cc    move                                            *)
(*                                                                         *)
(* Every system call that touches a shared file is a step of its own.  A   *)
(* file is an inode, so a file that is unlinked while a process has it     *)
(* open stays readable, and link() gives one inode two names.  A source    *)
(* text is a version; compiling version v yields meta-data and bitcode of  *)
(* version v.  The imports of the module are abstracted to a free choice:  *)
(* their digests still match or they do not.                               *)
(***************************************************************************)
EXTENDS Naturals, FiniteSets

CONSTANTS
  Procs,        \* the processes; one member is one host name and pid
  Versions,     \* the texts of the source file
  Inodes,       \* the files there may be; enough when 2 + 3 * MaxRunning
  NoFile,       \* no such directory entry; no open file
  NoVersion,    \* nothing read yet
  MaxRunning,   \* how many processes may run at the same time
  Edits,        \* when the source is replaced: "idle", "loading" or "any"
  Crashes,      \* a process may be killed
  PidReuse,     \* a process may get the pid of one that has ended
  DiskFull,     \* a write of the meta-data may be cut short
  Unopenable    \* the qualified files whose creation may fail

ASSUME CacheAssumption ==
  /\ IsFiniteSet(Procs)
  /\ NoFile \notin Inodes
  /\ NoVersion \notin Versions
  /\ MaxRunning \in Nat
  /\ {Crashes, PidReuse, DiskFull} \subseteq BOOLEAN
  /\ Unopenable \subseteq {"crkmeta", "bc"}

VARIABLES
  source,   \* the version now in the source file
  final,    \* the inodes at the names other processes read
  temp,     \* the inodes at the names qualified by a process's host and pid
  file,     \* what each inode holds
  pc,       \* where each process is in getModule()
  fd,       \* the meta-data file each process has open
  bitcode,  \* what getCacheFile() read into memory
  text,     \* the source version each process has open for parsing
  digest,   \* ModuleDef::sourceDigest
  code,     \* the meta-data and bitcode a process ends up running
  seen      \* history: the versions the source had since the process started

vars == <<source, final, temp, file, pc, fd, bitcode, text, digest, code, seen>>

Kinds == {"crkmeta", "bc"}

\* How much of a file was written: nothing, the header with the digest and
\* the dependencies, or all of it.
Sizes == {"empty", "header", "full"}

Contents == [digest : Versions, version : Versions, size : Sizes]

\* The steps of a process that is running, in the order of the code.
Reading == {"stat", "open", "header", "builder", "deps", "materialize", "corrupt"}

Compiling == {"source", "digest", "parse"}

Writing == {"metaWrite", "bcCreate", "bcWrite"}

Publishing == {"metaUnlink", "metaLink", "metaDrop", "bcUnlink", "bcLink", "bcDrop"}

Running == Reading \cup Compiling \cup Writing \cup Publishing \cup {"metaCreate", "spin"}

Ended == {"done", "failed", "killed"}

IsRunning(p) == pc[p] \in Running

Used == {final[k] : k \in Kinds} \cup {fd[p] : p \in Procs}
          \cup {temp[p][k] : p \in Procs, k \in Kinds}

Goto(p, label) == pc' = [pc EXCEPT ![p] = label]

NoCode == [meta |-> NoVersion, bc |-> NoVersion]

-----------------------------------------------------------------------------
(* Loading from the cache.                                                 *)

ReadVars == <<source, final, temp, file, text, digest, seen>>

\* The program imports the module: getModule() misses the in-memory cache.
Start(p) ==
  /\ pc[p] = "new"
  /\ Cardinality({q \in Procs : IsRunning(q)}) < MaxRunning
  /\ Goto(p, "stat")
  /\ seen' = [seen EXCEPT ![p] = {source}]
  /\ UNCHANGED <<source, final, temp, file, fd, bitcode, text, digest, code>>

\* Context::materializeModule(): isFile() decides whether there is meta-data.
Stat(p) ==
  /\ pc[p] = "stat"
  /\ Goto(p, IF final["crkmeta"] # NoFile THEN "open" ELSE "source")
  /\ UNCHANGED <<ReadVars, fd, bitcode, code>>

\* The ifstream is opened by name a second time, and nobody tests whether it
\* could be.
Open(p) ==
  /\ pc[p] = "open"
  /\ fd' = [fd EXCEPT ![p] = final["crkmeta"]]
  /\ Goto(p, "header")
  /\ UNCHANGED <<ReadVars, bitcode, code>>

\* Mutant: the end of a short file is not seen.
ReadUInt_IgnoresEof(f) ==
  IF f = NoFile \/ file[f].size = "empty" THEN "spin" ELSE "value"

\* Deserializer::readUInt() throws at the end of a short file.  Of a stream that
\* could not be opened only the fail bit is set: eof() stays false, and get()
\* returns EOF, whose high bit asks for another byte, for ever.
ReadUInt(f) ==
  IF f = NoFile THEN "spin" ELSE IF file[f].size = "empty" THEN "corrupt" ELSE "value"

\* Mutant: the recorded digest is not compared with the source.
Header_NoDigestCheck(p) ==
  /\ pc[p] = "header"
  /\ Goto(p, IF ReadUInt(fd[p]) # "value" THEN ReadUInt(fd[p]) ELSE "builder")
  /\ UNCHANGED <<ReadVars, fd, bitcode, code>>

\* ModuleDef::deserialize() up to the comparison of the digest with that of
\* the source file as it is now.
Header(p) ==
  /\ pc[p] = "header"
  /\ Goto(p, IF ReadUInt(fd[p]) # "value" THEN ReadUInt(fd[p])
             ELSE IF file[fd[p]].digest # source THEN "source" ELSE "builder")
  /\ UNCHANGED <<ReadVars, fd, bitcode, code>>

\* Cacher::getCacheFile() reads the whole builder file, or finds none.
GetCacheFile(p) ==
  /\ pc[p] = "builder"
  /\ IF final["bc"] = NoFile
       THEN Goto(p, "source") /\ UNCHANGED bitcode
       ELSE Goto(p, "deps") /\ bitcode' = [bitcode EXCEPT ![p] = file[final["bc"]]]
  /\ UNCHANGED <<ReadVars, fd, code>>

\* Every dependency is loaded by a nested getModule() and its digest is
\* compared with the recorded one; a difference forces a rebuild.
CheckDeps(p) ==
  /\ pc[p] = "deps"
  /\ \E mustRebuild \in BOOLEAN :
       Goto(p, IF mustRebuild THEN "source" ELSE "materialize")
  /\ UNCHANGED <<ReadVars, fd, bitcode, code>>

\* The builder parses the bitcode in memory, then the rest of the meta-data
\* is read.
Materialize(p) ==
  /\ pc[p] = "materialize"
  /\ LET meta == file[fd[p]]
     IN IF bitcode[p].size # "full" THEN Goto(p, "source") /\ UNCHANGED <<fd, code>>
        ELSE IF meta.size # "full" THEN Goto(p, "corrupt") /\ UNCHANGED <<fd, code>>
        ELSE /\ Goto(p, "done")
             /\ code' = [code EXCEPT ![p] = [meta |-> meta.version,
                                             bc |-> bitcode[p].version]]
             /\ fd' = [fd EXCEPT ![p] = NoFile]
  /\ UNCHANGED <<ReadVars, bitcode>>

\* A DeserializationError: the file now at the name is removed, and the
\* exception ends the program.
RemoveCorrupt(p) ==
  /\ pc[p] = "corrupt"
  /\ final' = [final EXCEPT !["crkmeta"] = NoFile]
  /\ fd' = [fd EXCEPT ![p] = NoFile]
  /\ Goto(p, "failed")
  /\ UNCHANGED <<source, temp, file, bitcode, text, digest, code, seen>>

-----------------------------------------------------------------------------
(* Compiling the source.                                                   *)

CompileVars == <<source, final, temp, file, bitcode, code, seen>>

\* getModule() opens the source file ...
OpenSource(p) ==
  /\ pc[p] = "source"
  /\ text' = [text EXCEPT ![p] = source]
  /\ fd' = [fd EXCEPT ![p] = NoFile]
  /\ Goto(p, "digest")
  /\ bitcode' = [bitcode EXCEPT ![p] = NoFile]
  /\ UNCHANGED <<source, final, temp, file, digest, code, seen>>

\* Mutant: the digest is left out, as without the cache mode.
ComputeDigest_Skipped(p) ==
  /\ pc[p] = "digest"
  /\ Goto(p, "parse")
  /\ UNCHANGED <<CompileVars, fd, text, digest>>

\* ... and parseModule() opens it again to compute its digest.
ComputeDigest(p) ==
  /\ pc[p] = "digest"
  /\ digest' = [digest EXCEPT ![p] = source]
  /\ Goto(p, "parse")
  /\ UNCHANGED <<CompileVars, fd, text>>

\* The parser reads the stream that was opened first; closing the module
\* calls Context::cacheModule().
Parse(p) ==
  /\ pc[p] = "parse"
  /\ Goto(p, "metaCreate")
  /\ UNCHANGED <<CompileVars, fd, text, digest>>

-----------------------------------------------------------------------------
(* Context::cacheModule(): writing the files under the qualified names.    *)

WriteVars == <<source, fd, bitcode, text, digest, code, seen>>

Written(p, size) == [digest |-> digest[p], version |-> text[p], size |-> size]

\* The inode of a file that is created; which one is free does not matter.
NewInode == CHOOSE i \in Inodes : i \notin Used

\* Opening a qualified name for output creates an inode, or truncates the
\* one a process with the same host name and pid left there.
OpenForOutput(p, kind) ==
  /\ Inodes \ Used # {}
  /\ LET i == IF temp[p][kind] # NoFile THEN temp[p][kind] ELSE NewInode
     IN /\ temp' = [temp EXCEPT ![p][kind] = i]
        /\ file' = [file EXCEPT ![i] = Written(p, "empty")]

CreateMeta(p) ==
  /\ pc[p] = "metaCreate"
  /\ OpenForOutput(p, "crkmeta")
  /\ Goto(p, "metaWrite")
  /\ UNCHANGED <<WriteVars, final>>

\* The ofstream cannot open its file, which nobody tests: serialize() writes
\* to a failed stream, and the builder goes on.
CreateMetaFails(p) ==
  /\ "crkmeta" \in Unopenable
  /\ pc[p] = "metaCreate"
  /\ Goto(p, "bcCreate")
  /\ UNCHANGED <<WriteVars, final, temp, file>>

\* serialize() and close(): the state of the stream is never tested, so a
\* full disk leaves a short file and no error.
WriteMeta(p) ==
  /\ pc[p] = "metaWrite"
  /\ \E size \in IF DiskFull THEN Sizes ELSE {"full"} :
       file' = [file EXCEPT ![temp[p]["crkmeta"]] = Written(p, size)]
  /\ Goto(p, "bcCreate")
  /\ UNCHANGED <<WriteVars, final, temp>>

\* Mutant: the file is kept before the stream that writes it is flushed.
CreateBitcode_Unflushed(p) ==
  /\ pc[p] = "bcCreate"
  /\ OpenForOutput(p, "bc")
  /\ Goto(p, "metaUnlink")
  /\ UNCHANGED <<WriteVars, final>>

CreateBitcode(p) ==
  /\ pc[p] = "bcCreate"
  /\ OpenForOutput(p, "bc")
  /\ Goto(p, "bcWrite")
  /\ UNCHANGED <<WriteVars, final>>

\* LLVMBuilder::cacheModule() writes all of the bitcode (if it cannot, LLVM's
\* stream ends the process with a fatal error: a Kill at this place) ...
WriteBitcode(p) ==
  /\ pc[p] = "bcWrite"
  /\ file' = [file EXCEPT ![temp[p]["bc"]] = Written(p, "full")]
  /\ Goto(p, "metaUnlink")
  /\ UNCHANGED <<WriteVars, final, temp>>

\* ... or cannot open its file and throws: both qualified files are removed
\* and the exception ends the program.
CreateThrows(p) ==
  /\ "bc" \in Unopenable
  /\ pc[p] = "bcCreate"
  /\ temp' = [temp EXCEPT ![p] = [k \in Kinds |-> NoFile]]
  /\ Goto(p, "failed")
  /\ UNCHANGED <<WriteVars, final, file>>

-----------------------------------------------------------------------------
(* move(): unlink the destination, link the source to it, unlink the       *)
(* source.  The link fails when another process made the destination       *)
(* again, or when there is no source; only a process that moved its        *)
(* meta-data moves its bitcode.                                            *)

UnlinkMeta(p) ==
  /\ pc[p] = "metaUnlink"
  /\ final' = [final EXCEPT !["crkmeta"] = NoFile]
  /\ Goto(p, "metaLink")
  /\ UNCHANGED <<WriteVars, temp, file>>

\* Mutant: a move that fails keeps its source.
LinkMeta_KeepsTemp(p) ==
  /\ pc[p] = "metaLink"
  /\ IF final["crkmeta"] = NoFile /\ temp[p]["crkmeta"] # NoFile
       THEN /\ final' = [final EXCEPT !["crkmeta"] = temp[p]["crkmeta"]]
            /\ Goto(p, "metaDrop")
       ELSE /\ Goto(p, "bcDrop")
            /\ UNCHANGED final
  /\ UNCHANGED <<WriteVars, temp, file>>

LinkMeta(p) ==
  /\ pc[p] = "metaLink"
  /\ IF final["crkmeta"] = NoFile /\ temp[p]["crkmeta"] # NoFile
       THEN /\ final' = [final EXCEPT !["crkmeta"] = temp[p]["crkmeta"]]
            /\ Goto(p, "metaDrop")
            /\ UNCHANGED temp
       ELSE /\ temp' = [temp EXCEPT ![p]["crkmeta"] = NoFile]
            /\ Goto(p, "bcDrop")
            /\ UNCHANGED final
  /\ UNCHANGED <<WriteVars, file>>

\* Mutant: the result of the move is lost, the builder does not retain.
DropMeta_NoRetain(p) ==
  /\ pc[p] = "metaDrop"
  /\ temp' = [temp EXCEPT ![p]["crkmeta"] = NoFile]
  /\ Goto(p, "bcDrop")
  /\ UNCHANGED <<WriteVars, final, file>>

DropMeta(p) ==
  /\ pc[p] = "metaDrop"
  /\ temp' = [temp EXCEPT ![p]["crkmeta"] = NoFile]
  /\ Goto(p, "bcUnlink")
  /\ UNCHANGED <<WriteVars, final, file>>

\* Mutant: the old builder file is not unlinked, so link() fails.
UnlinkBitcode_Skipped(p) ==
  /\ pc[p] = "bcUnlink"
  /\ Goto(p, "bcLink")
  /\ UNCHANGED <<WriteVars, final, temp, file>>

\* LLVMBuilder::finishCachedModule() with retain.
UnlinkBitcode(p) ==
  /\ pc[p] = "bcUnlink"
  /\ final' = [final EXCEPT !["bc"] = NoFile]
  /\ Goto(p, "bcLink")
  /\ UNCHANGED <<WriteVars, temp, file>>

LinkBitcode(p) ==
  /\ pc[p] = "bcLink"
  /\ final' = [final EXCEPT !["bc"] = IF @ = NoFile THEN temp[p]["bc"] ELSE @]
  /\ Goto(p, "bcDrop")
  /\ UNCHANGED <<WriteVars, temp, file>>

\* The last unlink, of move() or of finishCachedModule() without retain; the
\* process runs what it compiled.
DropBitcode(p) ==
  /\ pc[p] = "bcDrop"
  /\ temp' = [temp EXCEPT ![p]["bc"] = NoFile]
  /\ code' = [code EXCEPT ![p] = [meta |-> text[p], bc |-> text[p]]]
  /\ Goto(p, "done")
  /\ UNCHANGED <<source, final, file, fd, bitcode, text, digest, seen>>

-----------------------------------------------------------------------------
(* The environment.                                                        *)

\* The source file is replaced (a new file is renamed over it, as editors
\* and version control do).
Edit(v) ==
  /\ v # source
  /\ CASE Edits = "idle"    -> \A p \in Procs : ~IsRunning(p)
       [] Edits = "loading" -> \A p \in Procs : pc[p] # "digest"
       [] OTHER             -> TRUE
  /\ source' = v
  /\ seen' = [p \in Procs |-> IF IsRunning(p) THEN seen[p] \cup {v} ELSE seen[p]]
  /\ UNCHANGED <<final, temp, file, pc, fd, bitcode, text, digest, code>>

\* A process is killed; its files stay as they are.
Kill(p) ==
  /\ Crashes
  /\ IsRunning(p)
  /\ fd' = [fd EXCEPT ![p] = NoFile]
  /\ Goto(p, "killed")
  /\ UNCHANGED <<source, final, temp, file, bitcode, text, digest, code, seen>>

\* A later process gets the pid of one that has ended.
Reuse(p) ==
  /\ PidReuse
  /\ pc[p] \in Ended
  /\ bitcode' = [bitcode EXCEPT ![p] = NoFile]
  /\ text' = [text EXCEPT ![p] = NoVersion]
  /\ digest' = [digest EXCEPT ![p] = NoVersion]
  /\ code' = [code EXCEPT ![p] = NoCode]
  /\ seen' = [seen EXCEPT ![p] = {}]
  /\ Goto(p, "new")
  /\ UNCHANGED <<source, final, temp, file, fd>>

-----------------------------------------------------------------------------

Load(p) == \/ Stat(p) \/ Open(p) \/ Header(p) \/ GetCacheFile(p)
           \/ CheckDeps(p) \/ Materialize(p) \/ RemoveCorrupt(p)

Compile(p) == OpenSource(p) \/ ComputeDigest(p) \/ Parse(p)

Publish(p) == \/ CreateMeta(p) \/ CreateMetaFails(p) \/ WriteMeta(p) \/ CreateBitcode(p)
              \/ WriteBitcode(p) \/ CreateThrows(p)
              \/ UnlinkMeta(p) \/ LinkMeta(p) \/ DropMeta(p)
              \/ UnlinkBitcode(p) \/ LinkBitcode(p) \/ DropBitcode(p)

Step(p) == Load(p) \/ Compile(p) \/ Publish(p)

Next == \/ \E p \in Procs : Start(p) \/ Step(p) \/ Kill(p) \/ Reuse(p)
        \/ \E v \in Versions : Edit(v)

Init ==
  /\ source \in Versions
  /\ final = [k \in Kinds |-> NoFile]
  /\ temp = [p \in Procs |-> [k \in Kinds |-> NoFile]]
  /\ file = [i \in Inodes |-> [digest |-> source, version |-> source, size |-> "full"]]
  /\ pc = [p \in Procs |-> "new"]
  /\ fd = [p \in Procs |-> NoFile]
  /\ bitcode = [p \in Procs |-> NoFile]
  /\ text = [p \in Procs |-> NoVersion]
  /\ digest = [p \in Procs |-> NoVersion]
  /\ code = [p \in Procs |-> NoCode]
  /\ seen = [p \in Procs |-> {}]

Spec == Init /\ [][Next]_vars

\* A process that was started runs on: the operating system schedules it.
FairSpec == Spec /\ \A p \in Procs : WF_vars(Step(p))

-----------------------------------------------------------------------------
(* Properties.                                                             *)

\* Every variable keeps its type.
TypeOK ==
  /\ source \in Versions
  /\ final \in [Kinds -> Inodes \cup {NoFile}]
  /\ temp \in [Procs -> [Kinds -> Inodes \cup {NoFile}]]
  /\ file \in [Inodes -> Contents]
  /\ pc \in [Procs -> Running \cup Ended \cup {"new"}]
  /\ fd \in [Procs -> Inodes \cup {NoFile}]
  /\ bitcode \in [Procs -> Contents \cup {NoFile}]
  /\ text \in [Procs -> Versions \cup {NoVersion}]
  /\ digest \in [Procs -> Versions \cup {NoVersion}]
  /\ code \in [Procs -> [meta : Versions \cup {NoVersion}, bc : Versions \cup {NoVersion}]]
  /\ seen \in [Procs -> SUBSET Versions]

\* What move() after a complete write is for: no process can open, or has
\* open, a cache file that another process is still writing.
WholeFiles ==
  /\ \A k \in Kinds : final[k] # NoFile => file[final[k]].size = "full"
  /\ \A p \in Procs : fd[p] # NoFile => file[fd[p]].size = "full"

\* What the digest check is for: the meta-data and the bitcode a process
\* runs are of one version, and of one the source had while it was running.
CodeFromThisRun ==
  \A p \in Procs : pc[p] = "done" => /\ code[p].meta = code[p].bc
                                     /\ code[p].bc \in seen[p]

\* Between two runs the cache holds files that belong together: the bitcode
\* and the meta-data come from the source whose digest is recorded.
PublishedTogether ==
  (/\ \A p \in Procs : ~IsRunning(p)
   /\ \A k \in Kinds : final[k] # NoFile)
    => LET meta == file[final["crkmeta"]]
       IN meta.version = meta.digest /\ file[final["bc"]].version = meta.version

\* However their unlinks and links collide, processes that all ran to their
\* end leave both files in the cache.
CacheSurvives ==
  (/\ \A p \in Procs : pc[p] \in {"new", "done"}
   /\ \E p \in Procs : pc[p] = "done")
    => \A k \in Kinds : final[k] # NoFile

\* A process that was not killed leaves no qualified file behind, whether its
\* links succeeded, failed because another process had linked the name
\* meanwhile, or never came because the builder could not create its file.
NothingLeftBehind ==
  \A p \in Procs : pc[p] \in {"done", "failed"} => \A k \in Kinds : temp[p][k] = NoFile

\* A process that starts to load the module gets it, fails or is killed.
EveryLoadEnds == \A p \in Procs : pc[p] = "stat" ~> pc[p] \in Ended
=============================================================================
