------------------------- MODULE ModuleCacheProofs -------------------------
(***************************************************************************)
(* For any number of processes, versions and inodes.  With processes that  *)
(* interleave, and with kills and edits at any moment, as long as no pid   *)
(* is used twice: a cache file that can be opened is complete (if no write *)
(* is cut short either), a process that ends leaves no qualified file, and *)
(* the published pair survives (if the meta-data can be created).  With    *)
(* processes one after the other and no kills, also with used pids, full   *)
(* disks and files that cannot be created: each runs meta-data and bitcode *)
(* of one version that the source had during its run, and the files it     *)
(* leaves belong together.                                                 *)
(***************************************************************************)
EXTENDS ModuleCache, FiniteSetTheorems, TLAPS

\* Where a process has not created a qualified file yet.
BeforeWriting == {"new", "metaCreate", "spin"} \cup Reading \cup Compiling

\* Where the qualified meta-data, and the qualified bitcode, is complete.
MetaWritten == {"bcCreate", "bcWrite", "metaUnlink", "metaLink", "metaDrop"}

BitcodeWritten == {"metaUnlink", "metaLink", "metaDrop", "bcUnlink", "bcLink"}

\* Nobody but its writer has a name for the file, and nobody has it open.
Private(i) == /\ \A k \in Kinds : final[k] # i
              /\ \A q \in Procs : fd[q] # i

NothingYet ==
  /\ \A p \in Procs : pc[p] \in BeforeWriting => \A k \in Kinds : temp[p][k] = NoFile
  /\ \A p \in Procs : pc[p] \in {"metaWrite", "bcCreate"} => temp[p]["bc"] = NoFile

BeingWritten ==
  /\ \A p \in Procs : pc[p] = "metaWrite" =>
       temp[p]["crkmeta"] # NoFile /\ Private(temp[p]["crkmeta"])
  /\ \A p \in Procs : pc[p] = "bcWrite" =>
       temp[p]["bc"] # NoFile /\ Private(temp[p]["bc"])

ReadyToMove ==
  /\ \A p \in Procs : pc[p] \in MetaWritten /\ temp[p]["crkmeta"] # NoFile =>
       file[temp[p]["crkmeta"]].size = "full"
  /\ \A p \in Procs : pc[p] \in BitcodeWritten =>
       temp[p]["bc"] # NoFile /\ file[temp[p]["bc"]].size = "full"

OwnFiles ==
  \A p, q \in Procs : \A k, m \in Kinds :
    temp[p][k] # NoFile /\ temp[p][k] = temp[q][m] => p = q /\ k = m

\* The part of TypeOK the argument needs.
FileTypes ==
  /\ final \in [Kinds -> Inodes \cup {NoFile}]
  /\ temp \in [Procs -> [Kinds -> Inodes \cup {NoFile}]]
  /\ file \in [Inodes -> [digest : Versions \cup {NoVersion},
                          version : Versions \cup {NoVersion}, size : Sizes]]
  /\ pc \in [Procs -> Running \cup Ended \cup {"new"}]
  /\ fd \in [Procs -> Inodes \cup {NoFile}]
  /\ source \in Versions
  /\ text \in [Procs -> Versions \cup {NoVersion}]
  /\ digest \in [Procs -> Versions \cup {NoVersion}]

CacheInv == FileTypes /\ WholeFiles /\ NothingYet /\ BeingWritten /\ ReadyToMove /\ OwnFiles

-----------------------------------------------------------------------------

\* The inode of a created file is one that nothing refers to.
LEMMA NewInodeIsFree ==
  ASSUME Inodes \ Used # {}
  PROVE  NewInode \in Inodes /\ NewInode \notin Used
  BY DEF NewInode

\* A cache that nothing was written to satisfies the invariant.
LEMMA CacheInvInit == Init => CacheInv
  BY CacheAssumption
  DEF Init, CacheInv, FileTypes, WholeFiles, NothingYet, BeingWritten, ReadyToMove,
      OwnFiles, Private, Kinds, Sizes, Running, Reading, Compiling, Writing, Publishing,
      Ended, BeforeWriting, MetaWritten, BitcodeWritten

-----------------------------------------------------------------------------
(* Steps that touch no directory entry and no file.                        *)

SourceTypes == /\ source \in Versions
               /\ text \in [Procs -> Versions \cup {NoVersion}]
               /\ digest \in [Procs -> Versions \cup {NoVersion}]

\* A process that only reads keeps the invariant, whether it opens the
\* published meta-data, closes it or is killed.
LEMMA ReadStep ==
  ASSUME CacheInv, SourceTypes',
         UNCHANGED <<final, temp, file>>,
         NEW p \in Procs, NEW label, NEW i \in {fd[p], NoFile, final["crkmeta"]},
         Goto(p, label), fd' = [fd EXCEPT ![p] = i],
         \/ pc[p] \in BeforeWriting /\ label \in BeforeWriting \cup Ended
         \/ label = "killed"
  PROVE  CacheInv'
  <1> USE DEF Goto, Kinds
  <1>1. /\ pc' \in [Procs -> Running \cup Ended \cup {"new"}]
        /\ fd' \in [Procs -> Inodes \cup {NoFile}]
    BY DEF CacheInv, FileTypes, BeforeWriting, Running, Reading, Compiling, Ended
  <1>2. FileTypes'
    BY <1>1 DEF CacheInv, FileTypes, SourceTypes
  <1>3. \A q \in Procs : /\ q # p => pc'[q] = pc[q] /\ fd'[q] = fd[q]
                         /\ q = p => pc'[q] = label /\ fd'[q] = i
    BY DEF CacheInv, FileTypes
  <1>4. label \in BeforeWriting => pc[p] \in BeforeWriting
    BY DEF BeforeWriting, Reading, Compiling
  <1>5. label \notin {"metaWrite", "bcCreate", "bcWrite"} \cup MetaWritten \cup BitcodeWritten
    BY DEF BeforeWriting, Reading, Compiling, Ended, MetaWritten, BitcodeWritten
  <1>6. WholeFiles'
    BY <1>3 DEF CacheInv, FileTypes, WholeFiles
  <1>7. NothingYet'
    BY <1>3, <1>4, <1>5 DEF CacheInv, NothingYet
  <1>8. BeingWritten'
    BY <1>3, <1>5 DEF CacheInv, BeingWritten, Private
  <1>9. ReadyToMove'
    BY <1>3, <1>5 DEF CacheInv, ReadyToMove
  <1>10. OwnFiles'
    BY DEF CacheInv, OwnFiles
  <1> QED BY <1>2, <1>6, <1>7, <1>8, <1>9, <1>10 DEF CacheInv

\* Loading from the cache, up to the exception of a corrupt file.
LEMMA LoadKeepsInv ==
  ASSUME CacheInv, NEW p \in Procs,
         Start(p) \/ Stat(p) \/ Open(p) \/ Header(p) \/ GetCacheFile(p)
           \/ CheckDeps(p) \/ Materialize(p)
  PROVE  CacheInv'
  <1> DEFINE label == pc'[p]
  <1>1. pc \in [Procs -> Running \cup Ended \cup {"new"}] /\ fd \in [Procs -> Inodes \cup {NoFile}]
    BY DEF CacheInv, FileTypes
  <1>2. UNCHANGED <<final, temp, file>> /\ SourceTypes'
    BY DEF CacheInv, FileTypes, SourceTypes, Start, Stat, Open, Header, GetCacheFile,
           CheckDeps, Materialize, ReadVars
  <1>3. Goto(p, label) /\ pc[p] \in BeforeWriting /\ label \in BeforeWriting \cup Ended
    BY <1>1 DEF Start, Stat, Open, Header, ReadUInt, GetCacheFile, CheckDeps, Materialize, Goto,
                BeforeWriting, Reading, Compiling, Ended
  <1>4. \E i \in {fd[p], NoFile, final["crkmeta"]} : fd' = [fd EXCEPT ![p] = i]
    BY <1>1 DEF Start, Stat, Open, Header, GetCacheFile, CheckDeps, Materialize
  <1> HIDE DEF label
  <1> QED BY <1>2, <1>3, <1>4, ReadStep

\* Compiling the source.
LEMMA CompileKeepsInv ==
  ASSUME CacheInv, NEW p \in Procs, Compile(p)
  PROVE  CacheInv'
  <1> DEFINE label == pc'[p]
  <1>1. pc \in [Procs -> Running \cup Ended \cup {"new"}] /\ fd \in [Procs -> Inodes \cup {NoFile}]
    BY DEF CacheInv, FileTypes
  <1>2. UNCHANGED <<final, temp, file>> /\ SourceTypes'
    BY DEF CacheInv, FileTypes, SourceTypes, Compile, OpenSource, ComputeDigest, Parse,
           CompileVars
  <1>3. Goto(p, label) /\ pc[p] \in BeforeWriting /\ label \in BeforeWriting \cup Ended
    BY <1>1 DEF Compile, OpenSource, ComputeDigest, Parse, Goto, BeforeWriting, Compiling
  <1>4. \E i \in {fd[p], NoFile, final["crkmeta"]} : fd' = [fd EXCEPT ![p] = i]
    BY <1>1 DEF Compile, OpenSource, ComputeDigest, Parse
  <1> HIDE DEF label
  <1> QED BY <1>2, <1>3, <1>4, ReadStep

\* A kill leaves every file where it is.
LEMMA KillKeepsInv ==
  ASSUME CacheInv, NEW p \in Procs, Kill(p)
  PROVE  CacheInv'
  <1>1. UNCHANGED <<final, temp, file>> /\ SourceTypes' /\ Goto(p, "killed")
        /\ fd' = [fd EXCEPT ![p] = NoFile]
    BY DEF CacheInv, FileTypes, SourceTypes, Kill
  <1> QED BY <1>1, ReadStep

-----------------------------------------------------------------------------
(* Steps that change the directory.                                        *)

\* Removing the meta-data file only takes a name away.
LEMMA RemoveCorruptKeepsInv ==
  ASSUME CacheInv, NEW p \in Procs, RemoveCorrupt(p)
  PROVE  CacheInv'
  <1> USE DEF CacheInv, RemoveCorrupt, Goto, Kinds, WriteVars
  <1>1. FileTypes'
    BY DEF FileTypes, Running, Reading, Compiling, Writing, Publishing, Ended
  <1>2. WholeFiles'
    BY DEF FileTypes, WholeFiles, ReadyToMove, MetaWritten, BitcodeWritten, BeingWritten, Private
  <1>3. NothingYet'
    BY DEF FileTypes, NothingYet, BeforeWriting, Reading, Compiling
  <1>4. BeingWritten'
    BY DEF FileTypes, BeingWritten, Private, OwnFiles
  <1>5. ReadyToMove'
    BY DEF FileTypes, ReadyToMove, MetaWritten, BitcodeWritten, OwnFiles
  <1>6. OwnFiles'
    BY DEF FileTypes, OwnFiles
  <1> QED BY <1>1, <1>2, <1>3, <1>4, <1>5, <1>6

\* The first step of move() takes the published name away.
LEMMA UnlinkMetaKeepsInv ==
  ASSUME CacheInv, NEW p \in Procs, UnlinkMeta(p)
  PROVE  CacheInv'
  <1> USE DEF CacheInv, UnlinkMeta, Goto, Kinds, WriteVars
  <1>1. FileTypes'
    BY DEF FileTypes, Running, Reading, Compiling, Writing, Publishing, Ended
  <1>2. WholeFiles'
    BY DEF FileTypes, WholeFiles, ReadyToMove, MetaWritten, BitcodeWritten, BeingWritten, Private
  <1>3. NothingYet'
    BY DEF FileTypes, NothingYet, BeforeWriting, Reading, Compiling
  <1>4. BeingWritten'
    BY DEF FileTypes, BeingWritten, Private, OwnFiles
  <1>5. ReadyToMove'
    BY DEF FileTypes, ReadyToMove, MetaWritten, BitcodeWritten, OwnFiles
  <1>6. OwnFiles'
    BY DEF FileTypes, OwnFiles
  <1> QED BY <1>1, <1>2, <1>3, <1>4, <1>5, <1>6

\* link() publishes a file whose writing is over, or fails.
LEMMA LinkMetaKeepsInv ==
  ASSUME CacheInv, NEW p \in Procs, LinkMeta(p)
  PROVE  CacheInv'
  <1> USE DEF Kinds
  <1>0. pc[p] = "metaLink" /\ UNCHANGED <<file, fd, source, text, digest>>
    BY DEF LinkMeta, WriteVars
  <1>1. CASE final["crkmeta"] = NoFile /\ temp[p]["crkmeta"] # NoFile
    <2>0. /\ final' = [final EXCEPT !["crkmeta"] = temp[p]["crkmeta"]]
          /\ pc' = [pc EXCEPT ![p] = "metaDrop"]
          /\ temp' = temp
      BY <1>1 DEF LinkMeta, Goto
    <2>1. FileTypes'
      BY <1>0, <2>0 DEF CacheInv, FileTypes, Running, Publishing
    <2>2. WholeFiles'
      BY <1>0, <2>0 DEF CacheInv, FileTypes, WholeFiles, ReadyToMove, MetaWritten
    <2>3. NothingYet'
      BY <1>0, <2>0 DEF CacheInv, FileTypes, NothingYet, BeforeWriting, Reading, Compiling
    <2>4. BeingWritten'
      BY <1>0, <2>0 DEF CacheInv, FileTypes, BeingWritten, Private, OwnFiles, ReadyToMove, MetaWritten
    <2>5. ReadyToMove'
      BY <1>0, <2>0 DEF CacheInv, FileTypes, ReadyToMove, MetaWritten, BitcodeWritten
    <2>6. OwnFiles'
      BY <1>0, <2>0 DEF CacheInv, FileTypes, OwnFiles
    <2> QED BY <2>1, <2>2, <2>3, <2>4, <2>5, <2>6 DEF CacheInv
  <1>2. CASE ~(final["crkmeta"] = NoFile /\ temp[p]["crkmeta"] # NoFile)
    <2>0. /\ temp' = [temp EXCEPT ![p]["crkmeta"] = NoFile]
          /\ pc' = [pc EXCEPT ![p] = "bcDrop"]
          /\ final' = final
      BY <1>2 DEF LinkMeta, Goto
    <2>1. FileTypes'
      BY <1>0, <2>0 DEF CacheInv, FileTypes, Running, Publishing
    <2>2. WholeFiles'
      BY <1>0, <2>0 DEF CacheInv, FileTypes, WholeFiles, ReadyToMove, MetaWritten
    <2>3. NothingYet'
      BY <1>0, <2>0 DEF CacheInv, FileTypes, NothingYet, BeforeWriting, Reading, Compiling
    <2>4. BeingWritten'
      BY <1>0, <2>0 DEF CacheInv, FileTypes, BeingWritten, Private, OwnFiles, ReadyToMove, MetaWritten
    <2>5. ReadyToMove'
      BY <1>0, <2>0 DEF CacheInv, FileTypes, ReadyToMove, MetaWritten, BitcodeWritten
    <2>6. OwnFiles'
      BY <1>0, <2>0 DEF CacheInv, FileTypes, OwnFiles
    <2> QED BY <2>1, <2>2, <2>3, <2>4, <2>5, <2>6 DEF CacheInv
  <1> QED BY <1>1, <1>2

\* The last step of move() takes the qualified name away.
LEMMA DropMetaKeepsInv ==
  ASSUME CacheInv, NEW p \in Procs, DropMeta(p)
  PROVE  CacheInv'
  <1> USE DEF CacheInv, DropMeta, Goto, Kinds, WriteVars
  <1>1. FileTypes'
    BY DEF FileTypes, Running, Reading, Compiling, Writing, Publishing, Ended
  <1>2. WholeFiles'
    BY DEF FileTypes, WholeFiles, ReadyToMove, MetaWritten, BitcodeWritten, BeingWritten, Private
  <1>3. NothingYet'
    BY DEF FileTypes, NothingYet, BeforeWriting, Reading, Compiling
  <1>4. BeingWritten'
    BY DEF FileTypes, BeingWritten, Private, OwnFiles
  <1>5. ReadyToMove'
    BY DEF FileTypes, ReadyToMove, MetaWritten, BitcodeWritten, OwnFiles
  <1>6. OwnFiles'
    BY DEF FileTypes, OwnFiles
  <1> QED BY <1>1, <1>2, <1>3, <1>4, <1>5, <1>6

\* The builder file is unpublished in the same way.
LEMMA UnlinkBitcodeKeepsInv ==
  ASSUME CacheInv, NEW p \in Procs, UnlinkBitcode(p)
  PROVE  CacheInv'
  <1> USE DEF CacheInv, UnlinkBitcode, Goto, Kinds, WriteVars
  <1>1. FileTypes'
    BY DEF FileTypes, Running, Reading, Compiling, Writing, Publishing, Ended
  <1>2. WholeFiles'
    BY DEF FileTypes, WholeFiles, ReadyToMove, MetaWritten, BitcodeWritten, BeingWritten, Private
  <1>3. NothingYet'
    BY DEF FileTypes, NothingYet, BeforeWriting, Reading, Compiling
  <1>4. BeingWritten'
    BY DEF FileTypes, BeingWritten, Private, OwnFiles
  <1>5. ReadyToMove'
    BY DEF FileTypes, ReadyToMove, MetaWritten, BitcodeWritten, OwnFiles
  <1>6. OwnFiles'
    BY DEF FileTypes, OwnFiles
  <1> QED BY <1>1, <1>2, <1>3, <1>4, <1>5, <1>6

\* The builder file that is linked was written completely.
LEMMA LinkBitcodeKeepsInv ==
  ASSUME CacheInv, NEW p \in Procs, LinkBitcode(p)
  PROVE  CacheInv'
  <1> USE DEF CacheInv, LinkBitcode, Goto, Kinds, WriteVars
  <1>1. FileTypes'
    BY DEF FileTypes, Running, Reading, Compiling, Writing, Publishing, Ended
  <1>2. WholeFiles'
    BY DEF FileTypes, WholeFiles, ReadyToMove, MetaWritten, BitcodeWritten, BeingWritten, Private
  <1>3. NothingYet'
    BY DEF FileTypes, NothingYet, BeforeWriting, Reading, Compiling
  <1>4. BeingWritten'
    BY DEF FileTypes, BeingWritten, Private, OwnFiles
  <1>5. ReadyToMove'
    BY DEF FileTypes, ReadyToMove, MetaWritten, BitcodeWritten, OwnFiles
  <1>6. OwnFiles'
    BY DEF FileTypes, OwnFiles
  <1> QED BY <1>1, <1>2, <1>3, <1>4, <1>5, <1>6

\* The last unlink takes the qualified name of the bitcode away.
LEMMA DropBitcodeKeepsInv ==
  ASSUME CacheInv, NEW p \in Procs, DropBitcode(p)
  PROVE  CacheInv'
  <1> USE DEF CacheInv, DropBitcode, Goto, Kinds, WriteVars
  <1>1. FileTypes'
    BY DEF FileTypes, Running, Reading, Compiling, Writing, Publishing, Ended
  <1>2. WholeFiles'
    BY DEF FileTypes, WholeFiles, ReadyToMove, MetaWritten, BitcodeWritten, BeingWritten, Private
  <1>3. NothingYet'
    BY DEF FileTypes, NothingYet, BeforeWriting, Reading, Compiling
  <1>4. BeingWritten'
    BY DEF FileTypes, BeingWritten, Private, OwnFiles
  <1>5. ReadyToMove'
    BY DEF FileTypes, ReadyToMove, MetaWritten, BitcodeWritten, OwnFiles
  <1>6. OwnFiles'
    BY DEF FileTypes, OwnFiles
  <1> QED BY <1>1, <1>2, <1>3, <1>4, <1>5, <1>6

-----------------------------------------------------------------------------
(* Steps that write a file.                                                *)

\* The meta-data is begun in an inode nothing refers to.
LEMMA CreateMetaKeepsInv ==
  ASSUME CacheInv, NEW p \in Procs, CreateMeta(p)
  PROVE  CacheInv'
  <1> USE DEF Kinds
  <1>0. PICK i \in Inodes \ Used :
          /\ temp' = [temp EXCEPT ![p]["crkmeta"] = i]
          /\ file' = [file EXCEPT ![i] = Written(p, "empty")]
    BY NewInodeIsFree DEF CacheInv, NothingYet, BeforeWriting, CreateMeta, OpenForOutput
  <1>1. /\ pc' = [pc EXCEPT ![p] = "metaWrite"]
        /\ UNCHANGED <<final, fd, source, text, digest>>
    BY DEF CreateMeta, Goto, WriteVars
  <1>2. /\ \A k \in Kinds : final[k] # i
        /\ \A q \in Procs : fd[q] # i
        /\ \A q \in Procs : \A k \in Kinds : temp[q][k] # i
        /\ i # NoFile
    BY CacheAssumption DEF Used
  <1>3. FileTypes'
    BY <1>0, <1>1 DEF CacheInv, FileTypes, Running, Writing, Written, Sizes
  <1>4. \A j \in Inodes : j # i => file'[j] = file[j]
    BY <1>0 DEF CacheInv, FileTypes
  <1>5. WholeFiles'
    BY <1>1, <1>2, <1>4 DEF CacheInv, FileTypes, WholeFiles
  <1>6. NothingYet'
    BY <1>0, <1>1, <1>2 DEF CacheInv, FileTypes, NothingYet, BeforeWriting, Reading,
                            Compiling, CreateMeta
  <1>7. BeingWritten'
    BY <1>0, <1>1, <1>2 DEF CacheInv, FileTypes, BeingWritten, Private
  <1>8. ReadyToMove'
    BY <1>0, <1>1, <1>2, <1>4 DEF CacheInv, FileTypes, ReadyToMove, MetaWritten,
                                  BitcodeWritten, CreateMeta
  <1>9. OwnFiles'
    BY <1>0, <1>2 DEF CacheInv, FileTypes, OwnFiles
  <1> QED BY <1>3, <1>5, <1>6, <1>7, <1>8, <1>9 DEF CacheInv

\* A file that could not be created is not there to be moved.
LEMMA CreateMetaFailsKeepsInv ==
  ASSUME CacheInv, NEW p \in Procs, CreateMetaFails(p)
  PROVE  CacheInv'
  <1> USE DEF Kinds
  <1>1. /\ pc[p] = "metaCreate" /\ pc' = [pc EXCEPT ![p] = "bcCreate"]
        /\ UNCHANGED <<final, temp, file, fd, source, text, digest>>
    BY DEF CreateMetaFails, Goto, WriteVars
  <1>2. temp[p]["crkmeta"] = NoFile /\ temp[p]["bc"] = NoFile
    BY <1>1 DEF CacheInv, NothingYet, BeforeWriting
  <1>3. FileTypes'
    BY <1>1 DEF CacheInv, FileTypes, Running, Writing
  <1>4. WholeFiles'
    BY <1>1 DEF CacheInv, FileTypes, WholeFiles
  <1>5. NothingYet'
    BY <1>1, <1>2 DEF CacheInv, FileTypes, NothingYet, BeforeWriting, Reading, Compiling
  <1>6. BeingWritten'
    BY <1>1 DEF CacheInv, FileTypes, BeingWritten, Private
  <1>7. ReadyToMove'
    BY <1>1, <1>2 DEF CacheInv, FileTypes, ReadyToMove, MetaWritten, BitcodeWritten
  <1>8. OwnFiles'
    BY <1>1 DEF CacheInv, FileTypes, OwnFiles
  <1> QED BY <1>3, <1>4, <1>5, <1>6, <1>7, <1>8 DEF CacheInv

\* An exception of the builder takes both qualified names away.
LEMMA CreateThrowsKeepsInv ==
  ASSUME CacheInv, NEW p \in Procs, CreateThrows(p)
  PROVE  CacheInv'
  <1> USE DEF Kinds
  <1>1. /\ pc[p] = "bcCreate" /\ pc' = [pc EXCEPT ![p] = "failed"]
        /\ temp' = [temp EXCEPT ![p] = [k \in Kinds |-> NoFile]]
        /\ UNCHANGED <<final, file, fd, source, text, digest>>
    BY DEF CreateThrows, Goto, WriteVars
  <1>2. FileTypes'
    BY <1>1 DEF CacheInv, FileTypes, Ended
  <1>3. /\ \A k \in Kinds : temp'[p][k] = NoFile
        /\ \A q \in Procs : q # p => temp'[q] = temp[q] /\ pc'[q] = pc[q]
        /\ pc'[p] = "failed"
    BY <1>1 DEF CacheInv, FileTypes
  <1>4. WholeFiles'
    BY <1>1 DEF CacheInv, FileTypes, WholeFiles
  <1>5. NothingYet'
    BY <1>3 DEF CacheInv, NothingYet
  <1>6. BeingWritten'
    BY <1>1, <1>3 DEF CacheInv, BeingWritten, Private
  <1>7. ReadyToMove'
    BY <1>1, <1>3 DEF CacheInv, ReadyToMove, MetaWritten, BitcodeWritten
  <1>8. OwnFiles'
    BY <1>3 DEF CacheInv, OwnFiles
  <1> QED BY <1>2, <1>4, <1>5, <1>6, <1>7, <1>8 DEF CacheInv

\* The bitcode, too, is begun in an inode nothing refers to.
LEMMA CreateBitcodeKeepsInv ==
  ASSUME CacheInv, NEW p \in Procs, CreateBitcode(p)
  PROVE  CacheInv'
  <1> USE DEF Kinds
  <1>0. PICK i \in Inodes \ Used :
          /\ temp' = [temp EXCEPT ![p]["bc"] = i]
          /\ file' = [file EXCEPT ![i] = Written(p, "empty")]
    BY NewInodeIsFree DEF CacheInv, NothingYet, BeforeWriting, CreateBitcode, OpenForOutput
  <1>1. /\ pc' = [pc EXCEPT ![p] = "bcWrite"]
        /\ UNCHANGED <<final, fd, source, text, digest>>
    BY DEF CreateBitcode, Goto, WriteVars
  <1>2. /\ \A k \in Kinds : final[k] # i
        /\ \A q \in Procs : fd[q] # i
        /\ \A q \in Procs : \A k \in Kinds : temp[q][k] # i
        /\ i # NoFile
    BY CacheAssumption DEF Used
  <1>3. FileTypes'
    BY <1>0, <1>1 DEF CacheInv, FileTypes, Running, Writing, Written, Sizes
  <1>4. \A j \in Inodes : j # i => file'[j] = file[j]
    BY <1>0 DEF CacheInv, FileTypes
  <1>5. WholeFiles'
    BY <1>1, <1>2, <1>4 DEF CacheInv, FileTypes, WholeFiles
  <1>6. NothingYet'
    BY <1>0, <1>1, <1>2 DEF CacheInv, FileTypes, NothingYet, BeforeWriting, Reading,
                            Compiling, CreateBitcode
  <1>7. BeingWritten'
    BY <1>0, <1>1, <1>2 DEF CacheInv, FileTypes, BeingWritten, Private
  <1>8. ReadyToMove'
    BY <1>0, <1>1, <1>2, <1>4 DEF CacheInv, FileTypes, ReadyToMove, MetaWritten,
                                  BitcodeWritten, CreateBitcode
  <1>9. OwnFiles'
    BY <1>0, <1>2 DEF CacheInv, FileTypes, OwnFiles
  <1> QED BY <1>3, <1>5, <1>6, <1>7, <1>8, <1>9 DEF CacheInv

\* What is written is private until it is complete.
LEMMA WriteMetaKeepsInv ==
  ASSUME CacheInv, ~DiskFull, NEW p \in Procs, WriteMeta(p)
  PROVE  CacheInv'
  <1> USE DEF Kinds
  <1> DEFINE i == temp[p]["crkmeta"]
  <1>0. /\ pc' = [pc EXCEPT ![p] = "bcCreate"]
        /\ file' = [file EXCEPT ![i] = Written(p, "full")]
        /\ UNCHANGED <<final, temp, fd, source, text, digest>>
    BY DEF WriteMeta, Goto, WriteVars
  <1>1. i \in Inodes /\ i # NoFile /\ Private(i)
    BY DEF CacheInv, FileTypes, BeingWritten, WriteMeta
  <1>2. FileTypes'
    BY <1>0 DEF CacheInv, FileTypes, Running, Writing, Publishing, Written, Sizes
  <1>3. /\ file'[i].size = "full"
        /\ \A j \in Inodes : j # i => file'[j] = file[j]
    BY <1>0, <1>1 DEF CacheInv, FileTypes, Written
  <1> HIDE DEF i
  <1>4. WholeFiles'
    BY <1>0, <1>1, <1>3 DEF CacheInv, FileTypes, WholeFiles
  <1>5. NothingYet'
    BY <1>0 DEF CacheInv, FileTypes, NothingYet, BeforeWriting, Reading, Compiling, WriteMeta
  <1>6. BeingWritten'
    BY <1>0 DEF CacheInv, FileTypes, BeingWritten, Private
  <1>7. ReadyToMove'
    BY <1>0, <1>1, <1>3 DEF CacheInv, FileTypes, ReadyToMove, MetaWritten, BitcodeWritten,
                            WriteMeta, i
  <1>8. OwnFiles'
    BY <1>0 DEF CacheInv, OwnFiles
  <1> QED BY <1>2, <1>4, <1>5, <1>6, <1>7, <1>8 DEF CacheInv

\* The bitcode is complete before the first move.
LEMMA WriteBitcodeKeepsInv ==
  ASSUME CacheInv, NEW p \in Procs, WriteBitcode(p)
  PROVE  CacheInv'
  <1> USE DEF Kinds
  <1> DEFINE i == temp[p]["bc"]
  <1>0. /\ pc' = [pc EXCEPT ![p] = "metaUnlink"]
        /\ file' = [file EXCEPT ![i] = Written(p, "full")]
        /\ UNCHANGED <<final, temp, fd, source, text, digest>>
    BY DEF WriteBitcode, Goto, WriteVars
  <1>1. i \in Inodes /\ i # NoFile /\ Private(i)
    BY DEF CacheInv, FileTypes, BeingWritten, WriteBitcode
  <1>2. FileTypes'
    BY <1>0 DEF CacheInv, FileTypes, Running, Writing, Publishing, Written, Sizes
  <1>3. /\ file'[i].size = "full"
        /\ \A j \in Inodes : j # i => file'[j] = file[j]
    BY <1>0, <1>1 DEF CacheInv, FileTypes, Written
  <1> HIDE DEF i
  <1>4. WholeFiles'
    BY <1>0, <1>1, <1>3 DEF CacheInv, FileTypes, WholeFiles
  <1>5. NothingYet'
    BY <1>0 DEF CacheInv, FileTypes, NothingYet, BeforeWriting, Reading, Compiling, WriteBitcode
  <1>6. BeingWritten'
    BY <1>0 DEF CacheInv, FileTypes, BeingWritten, Private
  <1>7. ReadyToMove'
    BY <1>0, <1>1, <1>3 DEF CacheInv, FileTypes, ReadyToMove, MetaWritten, BitcodeWritten,
                            WriteBitcode, i
  <1>8. OwnFiles'
    BY <1>0 DEF CacheInv, OwnFiles
  <1> QED BY <1>2, <1>4, <1>5, <1>6, <1>7, <1>8 DEF CacheInv

-----------------------------------------------------------------------------

\* Every step keeps the invariant.
LEMMA CacheInvNext ==
  ASSUME ~PidReuse, ~DiskFull, CacheInv, [Next]_vars
  PROVE  CacheInv'
  <1>1. CASE UNCHANGED vars
    BY <1>1 DEF vars, CacheInv, FileTypes, WholeFiles, NothingYet, BeingWritten,
                ReadyToMove, OwnFiles, Private
  <1>2. ASSUME NEW v \in Versions, Edit(v) PROVE CacheInv'
    BY <1>2 DEF Edit, CacheInv, FileTypes, WholeFiles, NothingYet, BeingWritten,
                ReadyToMove, OwnFiles, Private
  <1>3. ASSUME NEW p \in Procs, Start(p) \/ Load(p) PROVE CacheInv'
    BY <1>3, LoadKeepsInv, RemoveCorruptKeepsInv DEF Load
  <1>4. ASSUME NEW p \in Procs, Publish(p) PROVE CacheInv'
    BY <1>4, CreateMetaKeepsInv, CreateMetaFailsKeepsInv, WriteMetaKeepsInv,
       CreateBitcodeKeepsInv, WriteBitcodeKeepsInv, UnlinkMetaKeepsInv, LinkMetaKeepsInv, DropMetaKeepsInv,
       UnlinkBitcodeKeepsInv, LinkBitcodeKeepsInv, DropBitcodeKeepsInv, CreateThrowsKeepsInv
    DEF Publish
  <1>5. ASSUME NEW p \in Procs, Kill(p) \/ Reuse(p) PROVE CacheInv'
    BY <1>5, KillKeepsInv DEF Reuse
  <1> QED BY <1>1, <1>2, <1>3, <1>4, <1>5, CompileKeepsInv DEF Next, Step

\* What cacheModule() promises its readers, for any number of processes that
\* compile, load and are killed at any point: a cache file that a process can
\* open or has open was written completely.  It needs a qualified name that
\* is never used twice and a disk that takes every write.
THEOREM CacheFilesAreWhole ==
  ASSUME ~PidReuse, ~DiskFull
  PROVE  Spec => []WholeFiles
  <1>1. CacheInv /\ [Next]_vars => CacheInv'
    BY CacheInvNext
  <1>2. CacheInv => WholeFiles
    BY DEF CacheInv
  <1> QED BY CacheInvInit, <1>1, <1>2, PTL DEF Spec

-----------------------------------------------------------------------------
(* The qualified files of a process.  A process with the pid of a killed   *)
(* one finds files of that pid.                                            *)

AllLabels == Running \cup Ended \cup {"new"}

\* Every step keeps the types, whatever is killed, reused or cut short.
LEMMA FileTypesNext ==
  ASSUME FileTypes, [Next]_vars
  PROVE  FileTypes'
<1> USE DEF Goto
<1>1. CASE UNCHANGED vars
  BY <1>1 DEF vars, FileTypes
<1>2. ASSUME NEW v \in Versions, Edit(v) PROVE FileTypes'
  BY <1>2 DEF Edit, FileTypes
\* Most steps of a process change its place, its open file and what it read.
<1>3. ASSUME NEW p \in Procs, NEW label \in AllLabels, pc' = [pc EXCEPT ![p] = label],
             NEW i \in Inodes \cup {NoFile}, fd' = [fd EXCEPT ![p] = i],
             NEW v \in Versions \cup {NoVersion}, text' = [text EXCEPT ![p] = v],
             NEW d \in Versions \cup {NoVersion}, digest' = [digest EXCEPT ![p] = d],
             UNCHANGED <<source, final, temp, file>>
      PROVE  FileTypes'
  BY <1>3 DEF FileTypes, AllLabels
<1>4. ASSUME NEW p \in Procs, Start(p) \/ Load(p) \/ Compile(p) \/ Kill(p) \/ Reuse(p),
             ~RemoveCorrupt(p)
      PROVE  FileTypes'
  <2>0. /\ fd[p] \in Inodes \cup {NoFile} /\ fd = [fd EXCEPT ![p] = fd[p]]
        /\ text[p] \in Versions \cup {NoVersion} /\ text = [text EXCEPT ![p] = text[p]]
        /\ digest[p] \in Versions \cup {NoVersion} /\ digest = [digest EXCEPT ![p] = digest[p]]
        /\ final["crkmeta"] \in Inodes \cup {NoFile} /\ source \in Versions
    BY DEF FileTypes, Kinds
  <2>1. PICK label \in AllLabels : pc' = [pc EXCEPT ![p] = label]
    BY <1>4 DEF Start, Load, Stat, Open, Header, ReadUInt, GetCacheFile, CheckDeps, Materialize,
                Compile, OpenSource, ComputeDigest, Parse, Kill, Reuse, AllLabels, Running,
                Reading, Compiling, Ended
  <2>2. UNCHANGED <<source, final, temp, file>>
    BY <1>4, Zenon DEF Start, Load, Stat, Open, Header, GetCacheFile, CheckDeps, Materialize,
                Compile, OpenSource, ComputeDigest, Parse, Kill, Reuse, ReadVars, CompileVars
  <2>3. PICK i \in Inodes \cup {NoFile} : fd' = [fd EXCEPT ![p] = i]
    BY <1>4, <2>0 DEF Start, Load, Stat, Open, Header, GetCacheFile, CheckDeps, Materialize,
                Compile, OpenSource, ComputeDigest, Parse, Kill, Reuse
  <2>4. PICK v \in Versions \cup {NoVersion} : text' = [text EXCEPT ![p] = v]
    BY <1>4, <2>0 DEF Start, Load, Stat, Open, Header, GetCacheFile, CheckDeps, Materialize,
                Compile, OpenSource, ComputeDigest, Parse, Kill, Reuse, ReadVars
  <2>5. PICK d \in Versions \cup {NoVersion} : digest' = [digest EXCEPT ![p] = d]
    BY <1>4, <2>0 DEF Start, Load, Stat, Open, Header, GetCacheFile, CheckDeps, Materialize,
                Compile, OpenSource, ComputeDigest, Parse, Kill, Reuse, ReadVars
  <2> QED
    BY <2>1, <2>2, <2>3, <2>4, <2>5, <1>3
<1>5. ASSUME NEW p \in Procs, RemoveCorrupt(p) PROVE FileTypes'
  BY <1>5 DEF RemoveCorrupt, FileTypes, Ended, Kinds
<1>6. ASSUME NEW p \in Procs, CreateMeta(p) \/ CreateBitcode(p) PROVE FileTypes'
  <2>1. NewInode \in Inodes
    BY <1>6, NewInodeIsFree DEF CreateMeta, CreateBitcode, OpenForOutput
  <2>2. PICK k \in Kinds : OpenForOutput(p, k)
    BY <1>6 DEF CreateMeta, CreateBitcode, Kinds
  <2>3. PICK i \in Inodes : /\ temp' = [temp EXCEPT ![p][k] = i]
                            /\ file' = [file EXCEPT ![i] = Written(p, "empty")]
    <3>1. CASE temp[p][k] # NoFile
      <4>1. temp[p][k] \in Inodes
        BY <3>1 DEF FileTypes
      <4>2. /\ temp' = [temp EXCEPT ![p][k] = temp[p][k]]
            /\ file' = [file EXCEPT ![temp[p][k]] = Written(p, "empty")]
        BY <2>2, <3>1 DEF OpenForOutput
      <4> QED
        BY <4>1, <4>2
    <3>2. CASE temp[p][k] = NoFile
      BY <2>1, <2>2, <3>2 DEF OpenForOutput
    <3> QED
      BY <3>1, <3>2
  <2>4. UNCHANGED <<WriteVars, final>> /\ (\/ pc' = [pc EXCEPT ![p] = "metaWrite"]
                                           \/ pc' = [pc EXCEPT ![p] = "bcWrite"])
    BY <1>6 DEF CreateMeta, CreateBitcode
  <2> QED
    BY <2>3, <2>4 DEF FileTypes, WriteVars, Written, Sizes, Running, Writing
<1>7. ASSUME NEW p \in Procs, WriteMeta(p) \/ WriteBitcode(p) PROVE FileTypes'
  <2>1. PICK size \in Sizes, k \in Kinds : file' = [file EXCEPT ![temp[p][k]] = Written(p, size)]
    BY <1>7 DEF WriteMeta, WriteBitcode, Sizes, Kinds
  <2>2. UNCHANGED <<WriteVars, final, temp>> /\ (\/ pc' = [pc EXCEPT ![p] = "bcCreate"]
                                                 \/ pc' = [pc EXCEPT ![p] = "metaUnlink"])
    BY <1>7 DEF WriteMeta, WriteBitcode
  <2> QED
    BY <2>1, <2>2 DEF FileTypes, WriteVars, Written, Running, Writing, Publishing
<1>8. ASSUME NEW p \in Procs, UnlinkMeta(p) PROVE FileTypes'
  BY <1>8 DEF UnlinkMeta, WriteVars, FileTypes, Running, Publishing, Kinds
<1>9. ASSUME NEW p \in Procs, LinkMeta(p) PROVE FileTypes'
  <2>1. CASE final["crkmeta"] = NoFile /\ temp[p]["crkmeta"] # NoFile
    BY <1>9, <2>1 DEF LinkMeta, WriteVars, FileTypes, Running, Publishing, Kinds
  <2>2. CASE ~(final["crkmeta"] = NoFile /\ temp[p]["crkmeta"] # NoFile)
    <3>1. /\ temp' = [temp EXCEPT ![p]["crkmeta"] = NoFile] /\ pc' = [pc EXCEPT ![p] = "bcDrop"]
          /\ UNCHANGED <<final, file, fd, source, text, digest>>
      BY <1>9, <2>2 DEF LinkMeta, WriteVars
    <3> QED
      BY <3>1 DEF FileTypes, Running, Publishing, Kinds
  <2> QED
    BY <2>1, <2>2
<1>10. ASSUME NEW p \in Procs, DropMeta(p) PROVE FileTypes'
  BY <1>10 DEF DropMeta, WriteVars, FileTypes, Running, Publishing, Kinds
<1>11. ASSUME NEW p \in Procs, UnlinkBitcode(p) PROVE FileTypes'
  BY <1>11 DEF UnlinkBitcode, WriteVars, FileTypes, Running, Publishing, Kinds
<1>12. ASSUME NEW p \in Procs, LinkBitcode(p) PROVE FileTypes'
  BY <1>12 DEF LinkBitcode, WriteVars, FileTypes, Running, Publishing, Kinds
<1>13. ASSUME NEW p \in Procs, DropBitcode(p) PROVE FileTypes'
  BY <1>13 DEF DropBitcode, FileTypes, Ended, Kinds
<1>14. ASSUME NEW p \in Procs, CreateThrows(p) PROVE FileTypes'
  BY <1>14 DEF CreateThrows, WriteVars, FileTypes, Ended
<1>15. ASSUME NEW p \in Procs, CreateMetaFails(p) PROVE FileTypes'
  BY <1>15 DEF CreateMetaFails, WriteVars, FileTypes, Running, Writing
<1> QED
  BY <1>1, <1>2, <1>4, <1>5, <1>6, <1>7, <1>8, <1>9, <1>10, <1>11, <1>12, <1>13, <1>14, <1>15
  DEF Next, Step, Publish

\* No process has been killed if none is.
NoneKilled == Crashes \/ \A p \in Procs : pc[p] # "killed"

\* Which of its qualified files a process has, by the place it has come to.
MetaGone == BeforeWriting \cup {"bcUnlink", "bcLink", "bcDrop", "done", "failed"}

BitcodeGone == BeforeWriting \cup {"metaWrite", "bcCreate", "done", "failed"}

TempsByPlace ==
  \A p \in Procs :
    /\ pc[p] \in MetaGone => temp[p]["crkmeta"] = NoFile
    /\ pc[p] \in BitcodeGone => temp[p]["bc"] = NoFile
    /\ pc[p] = "metaWrite" => temp[p]["crkmeta"] # NoFile
    /\ pc[p] \in MetaWritten => temp[p]["crkmeta"] # NoFile \/ "crkmeta" \in Unopenable
    /\ pc[p] \in BitcodeWritten \cup {"bcWrite"} => temp[p]["bc"] # NoFile

TempInv == FileTypes /\ NoneKilled /\ TempsByPlace

LEMMA TempInvInit == Init => TempInv
<1>1. Init => FileTypes
  BY CacheInvInit DEF CacheInv
<1>2. Init => NoneKilled /\ TempsByPlace
  BY DEF Init, NoneKilled, TempsByPlace, Kinds, BeforeWriting, Reading, Compiling, MetaGone, BitcodeGone,
         MetaWritten, BitcodeWritten
<1> QED
  BY <1>1, <1>2 DEF TempInv

LEMMA TempInvNext ==
  ASSUME ~(Crashes /\ PidReuse), TempInv, [Next]_vars
  PROVE  TempInv'
<1>0. FileTypes' /\ FileTypes /\ NoneKilled /\ TempsByPlace
  BY FileTypesNext DEF TempInv
<1>1. CASE UNCHANGED vars
  BY <1>0, <1>1 DEF vars, TempInv, NoneKilled, TempsByPlace
<1>2. ASSUME NEW v \in Versions, Edit(v) PROVE TempInv'
  BY <1>0, <1>2 DEF Edit, TempInv, NoneKilled, TempsByPlace
\* It is enough to look at the files of the process that takes the step.
<1>3. ASSUME NEW p \in Procs, NEW label, Goto(p, label), label = "killed" => Crashes,
             \A q \in Procs : q # p => temp'[q] = temp[q],
             label \in MetaGone => temp'[p]["crkmeta"] = NoFile,
             label \in BitcodeGone => temp'[p]["bc"] = NoFile,
             label = "metaWrite" => temp'[p]["crkmeta"] # NoFile,
             label \in MetaWritten => temp'[p]["crkmeta"] # NoFile \/ "crkmeta" \in Unopenable,
             label \in BitcodeWritten \cup {"bcWrite"} => temp'[p]["bc"] # NoFile
      PROVE  TempInv'
  <2>1. /\ pc'[p] = label
        /\ \A q \in Procs : q # p => pc'[q] = pc[q]
    BY <1>0, <1>3 DEF FileTypes, Goto
  <2>2. NoneKilled'
    BY <1>0, <1>3, <2>1, Zenon DEF NoneKilled
  <2>3. TempsByPlace'
    BY <1>0, <1>3, <2>1 DEF TempsByPlace
  <2> QED
    BY <1>0, <2>2, <2>3 DEF TempInv
<1>4. ASSUME NEW p \in Procs, Start(p) \/ Load(p) \/ Compile(p) PROVE TempInv'
  <2>1. PICK label \in BeforeWriting \cup {"done", "failed"} : Goto(p, label)
    BY <1>4 DEF Start, Load, Stat, Open, Header, ReadUInt, GetCacheFile, CheckDeps, Materialize,
                RemoveCorrupt, Compile, OpenSource, ComputeDigest, Parse,
                BeforeWriting, Reading, Compiling
  <2>2. pc[p] \in BeforeWriting
    BY <1>4 DEF Start, Load, Stat, Open, Header, GetCacheFile, CheckDeps, Materialize,
                RemoveCorrupt, Compile, OpenSource, ComputeDigest, Parse,
                BeforeWriting, Reading, Compiling
  <2>3. temp' = temp
    BY <1>4 DEF Start, Load, Stat, Open, Header, GetCacheFile, CheckDeps, Materialize,
                RemoveCorrupt, Compile, OpenSource, ComputeDigest, Parse, ReadVars, CompileVars
  <2>4. temp[p]["crkmeta"] = NoFile /\ temp[p]["bc"] = NoFile
    BY <1>0, <2>2 DEF TempsByPlace, MetaGone, BitcodeGone
  <2>5. label \notin MetaWritten \cup BitcodeWritten \cup {"metaWrite", "bcWrite", "killed"}
    BY <2>1 DEF MetaWritten, BitcodeWritten, BeforeWriting, Reading, Compiling
  <2> QED
    BY <2>1, <2>3, <2>4, <2>5, <1>3
<1>14. ASSUME NEW p \in Procs, CreateMetaFails(p) PROVE TempInv'
  <2>1. /\ pc[p] = "metaCreate" /\ Goto(p, "bcCreate") /\ temp' = temp
        /\ "crkmeta" \in Unopenable
    BY <1>14 DEF CreateMetaFails
  <2>2. temp[p]["crkmeta"] = NoFile /\ temp[p]["bc"] = NoFile
    BY <1>0, <2>1 DEF TempsByPlace, MetaGone, BitcodeGone, BeforeWriting
  <2> QED
    BY <2>1, <2>2, <1>3 DEF MetaGone, BitcodeWritten, BeforeWriting, Reading, Compiling
\* The other steps go from one place to one other.
<1>5. ASSUME NEW p \in Procs, CreateMeta(p) PROVE TempInv'
  <2>1. /\ NewInode \in Inodes /\ NewInode # NoFile
        /\ pc[p] = "metaCreate" /\ Goto(p, "metaWrite")
    BY <1>5, NewInodeIsFree, CacheAssumption DEF CreateMeta, OpenForOutput
  <2>2. temp[p]["crkmeta"] = NoFile /\ temp[p]["bc"] = NoFile
    BY <1>0, <2>1 DEF TempsByPlace, MetaGone, BitcodeGone, BeforeWriting
  <2>3. temp' = [temp EXCEPT ![p]["crkmeta"] = NewInode]
    BY <1>5, <2>2 DEF CreateMeta, OpenForOutput
  <2>4. /\ temp'[p]["crkmeta"] # NoFile /\ temp'[p]["bc"] = NoFile
        /\ \A q \in Procs : q # p => temp'[q] = temp[q]
    BY <1>0, <2>1, <2>2, <2>3 DEF FileTypes, Kinds
  <2> QED
    BY <2>1, <2>4, <1>3 DEF MetaGone, BitcodeWritten, BeforeWriting, Reading, Compiling
<1>6. ASSUME NEW p \in Procs, CreateBitcode(p) PROVE TempInv'
  <2>1. /\ NewInode \in Inodes /\ NewInode # NoFile
        /\ pc[p] = "bcCreate" /\ Goto(p, "bcWrite")
    BY <1>6, NewInodeIsFree, CacheAssumption DEF CreateBitcode, OpenForOutput
  <2>2. /\ temp[p]["crkmeta"] # NoFile \/ "crkmeta" \in Unopenable
        /\ temp[p]["bc"] = NoFile
    BY <1>0, <2>1 DEF TempsByPlace, MetaWritten, BitcodeGone
  <2>3. temp' = [temp EXCEPT ![p]["bc"] = NewInode]
    BY <1>6, <2>2 DEF CreateBitcode, OpenForOutput
  <2>4. /\ temp'[p]["crkmeta"] # NoFile \/ "crkmeta" \in Unopenable
        /\ temp'[p]["bc"] # NoFile
        /\ \A q \in Procs : q # p => temp'[q] = temp[q]
    BY <1>0, <2>1, <2>2, <2>3 DEF FileTypes, Kinds
  <2> QED
    BY <2>1, <2>4, <1>3 DEF MetaGone, BitcodeGone, BeforeWriting, Reading, Compiling
<1>7. ASSUME NEW p \in Procs,
             WriteMeta(p) \/ WriteBitcode(p) \/ UnlinkMeta(p) \/ UnlinkBitcode(p) \/ LinkBitcode(p)
      PROVE  TempInv'
  <2>1. /\ temp' = temp
        /\ \/ pc[p] = "metaWrite" /\ Goto(p, "bcCreate")
           \/ pc[p] = "bcWrite" /\ Goto(p, "metaUnlink")
           \/ pc[p] = "metaUnlink" /\ Goto(p, "metaLink")
           \/ pc[p] = "bcUnlink" /\ Goto(p, "bcLink")
           \/ pc[p] = "bcLink" /\ Goto(p, "bcDrop")
    BY <1>7 DEF WriteMeta, WriteBitcode, UnlinkMeta, UnlinkBitcode, LinkBitcode
  <2>2. /\ pc[p] \in MetaGone => temp[p]["crkmeta"] = NoFile
        /\ pc[p] \in BitcodeGone => temp[p]["bc"] = NoFile
        /\ pc[p] = "metaWrite" => temp[p]["crkmeta"] # NoFile
        /\ pc[p] \in MetaWritten => temp[p]["crkmeta"] # NoFile \/ "crkmeta" \in Unopenable
        /\ pc[p] \in BitcodeWritten \cup {"bcWrite"} => temp[p]["bc"] # NoFile
    BY <1>0 DEF TempsByPlace
  <2> USE DEF MetaGone, BitcodeGone, MetaWritten, BitcodeWritten, BeforeWriting, Reading, Compiling
  <2>3. CASE pc[p] = "metaWrite" /\ Goto(p, "bcCreate")
    BY <2>1, <2>2, <2>3, <1>3
  <2>4. CASE pc[p] = "bcWrite" /\ Goto(p, "metaUnlink")
    <3>1. temp[p]["crkmeta"] # NoFile \/ "crkmeta" \in Unopenable
      BY <2>2, <2>4
    <3> QED
      BY <2>1, <2>2, <2>4, <3>1, <1>3
  <2>5. CASE pc[p] = "metaUnlink" /\ Goto(p, "metaLink")
    BY <2>1, <2>2, <2>5, <1>3
  <2>6. CASE pc[p] = "bcUnlink" /\ Goto(p, "bcLink")
    BY <2>1, <2>2, <2>6, <1>3
  <2>7. CASE pc[p] = "bcLink" /\ Goto(p, "bcDrop")
    BY <2>1, <2>2, <2>7, <1>3
  <2> QED
    BY <2>1, <2>3, <2>4, <2>5, <2>6, <2>7
<1>8. ASSUME NEW p \in Procs, LinkMeta(p) PROVE TempInv'
  <2>1. temp[p]["bc"] # NoFile
    BY <1>0, <1>8 DEF LinkMeta, TempsByPlace, BitcodeWritten
  <2>2. CASE final["crkmeta"] = NoFile /\ temp[p]["crkmeta"] # NoFile
    <3>1. Goto(p, "metaDrop") /\ temp' = temp
      BY <1>8, <2>2 DEF LinkMeta
    <3> QED
      BY <2>1, <2>2, <3>1, <1>3 DEF MetaGone, BitcodeGone, BeforeWriting, Reading, Compiling
  <2>3. CASE ~(final["crkmeta"] = NoFile /\ temp[p]["crkmeta"] # NoFile)
    <3>1. Goto(p, "bcDrop") /\ temp' = [temp EXCEPT ![p]["crkmeta"] = NoFile]
      BY <1>8, <2>3 DEF LinkMeta
    <3>2. temp'[p]["crkmeta"] = NoFile /\ \A q \in Procs : q # p => temp'[q] = temp[q]
      BY <1>0, <3>1 DEF FileTypes, Kinds
    <3> QED
      BY <3>1, <3>2, <1>3 DEF BitcodeGone, MetaWritten, BitcodeWritten, BeforeWriting, Reading,
                              Compiling
  <2> QED
    BY <2>2, <2>3
<1>9. ASSUME NEW p \in Procs, DropMeta(p) PROVE TempInv'
  <2>1. /\ temp[p]["bc"] # NoFile
        /\ Goto(p, "bcUnlink") /\ temp' = [temp EXCEPT ![p]["crkmeta"] = NoFile]
    BY <1>0, <1>9 DEF DropMeta, TempsByPlace, BitcodeWritten
  <2>2. /\ temp'[p]["crkmeta"] = NoFile /\ temp'[p]["bc"] # NoFile
        /\ \A q \in Procs : q # p => temp'[q] = temp[q]
    BY <1>0, <2>1 DEF FileTypes, Kinds
  <2> QED
    BY <2>1, <2>2, <1>3 DEF BitcodeGone, MetaWritten, BeforeWriting, Reading, Compiling
<1>10. ASSUME NEW p \in Procs, DropBitcode(p) PROVE TempInv'
  <2>1. /\ temp[p]["crkmeta"] = NoFile
        /\ Goto(p, "done") /\ temp' = [temp EXCEPT ![p]["bc"] = NoFile]
    BY <1>0, <1>10 DEF DropBitcode, TempsByPlace, MetaGone
  <2>2. /\ temp'[p]["crkmeta"] = NoFile /\ temp'[p]["bc"] = NoFile
        /\ \A q \in Procs : q # p => temp'[q] = temp[q]
    BY <1>0, <2>1 DEF FileTypes, Kinds
  <2> QED
    BY <2>1, <2>2, <1>3 DEF MetaWritten, BitcodeWritten
<1>11. ASSUME NEW p \in Procs, CreateThrows(p) PROVE TempInv'
  <2>1. Goto(p, "failed") /\ temp' = [temp EXCEPT ![p] = [k \in Kinds |-> NoFile]]
    BY <1>11 DEF CreateThrows
  <2>2. /\ temp'[p]["crkmeta"] = NoFile /\ temp'[p]["bc"] = NoFile
        /\ \A q \in Procs : q # p => temp'[q] = temp[q]
    BY <1>0, <2>1 DEF FileTypes, Kinds
  <2> QED
    BY <2>1, <2>2, <1>3 DEF MetaWritten, BitcodeWritten
<1>12. ASSUME NEW p \in Procs, Kill(p) PROVE TempInv'
  <2>1. Goto(p, "killed") /\ temp' = temp /\ Crashes
    BY <1>12 DEF Kill
  <2> QED
    BY <2>1, <1>3 DEF MetaGone, BitcodeGone, MetaWritten, BitcodeWritten, BeforeWriting, Reading,
                      Compiling
<1>13. ASSUME NEW p \in Procs, Reuse(p) PROVE TempInv'
  <2>1. Goto(p, "new") /\ temp' = temp
    BY <1>13 DEF Reuse
  <2>2. pc[p] \in {"done", "failed"}
    <3>1. PidReuse /\ pc[p] \in Ended
      BY <1>13 DEF Reuse
    <3>2. pc[p] # "killed"
      BY <1>0, <3>1, Zenon DEF NoneKilled
    <3> QED
      BY <3>1, <3>2 DEF Ended
  <2>3. temp[p]["crkmeta"] = NoFile /\ temp[p]["bc"] = NoFile
    BY <1>0, <2>2 DEF TempsByPlace, MetaGone, BitcodeGone
  <2> QED
    BY <2>1, <2>3, <1>3 DEF MetaWritten, BitcodeWritten
<1> QED
  BY <1>1, <1>2, <1>4, <1>5, <1>6, <1>7, <1>8, <1>9, <1>10, <1>11, <1>12, <1>13, <1>14
  DEF Next, Step, Publish

\* Unless a process is killed and another one gets its pid, TempInv holds.
LEMMA TempInvariant ==
  ASSUME ~(Crashes /\ PidReuse)
  PROVE  Spec => []TempInv
<1>1. TempInv /\ [Next]_vars => TempInv'
  BY TempInvNext
<1> QED
  BY <1>1, TempInvInit, PTL DEF Spec

\* THEOREM.  Whichever of its links fail and wherever an exception ends it, a
\* process that comes to its end has removed its qualified files, for any number
\* of processes; only if one is killed and its pid is used again may a later
\* process end with files of that name left.
THEOREM CleansUp ==
  ASSUME ~(Crashes /\ PidReuse)
  PROVE  Spec => []NothingLeftBehind
<1>1. TempInv => NothingLeftBehind
  BY DEF TempInv, TempsByPlace, NothingLeftBehind, Kinds, MetaGone, BitcodeGone
<1> QED
  BY <1>1, TempInvariant, PTL

-----------------------------------------------------------------------------
(* Processes whose unlinks and links collide.                              *)

\* The exceptions of the argument: one failed process may have removed the
\* meta-data, one killed process may have unlinked what it never linked again.
SomeoneFailed == \E p \in Procs : pc[p] \in {"failed", "killed"}

\* A process is between the unlink of a name and the link of its own file to
\* it; for the bitcode it has linked its meta-data and will come to that.
WillLinkMeta == \E p \in Procs : pc[p] = "metaLink"

WillLinkBitcode == \E p \in Procs : pc[p] \in {"metaDrop", "bcUnlink", "bcLink"}

\* Where a process has found meta-data, or has published its own.
FoundMeta == {"open", "header", "builder", "deps", "materialize"}

Published == {"metaDrop", "bcUnlink", "bcLink", "bcDrop", "done"}

MetaSurvives ==
  (\E p \in Procs : pc[p] \in FoundMeta \cup Published) => final["crkmeta"] # NoFile \/ WillLinkMeta

BitcodeSurvives ==
  final["crkmeta"] # NoFile \/ (\E p \in Procs : pc[p] \in FoundMeta \cup Published)
    => final["bc"] # NoFile \/ WillLinkBitcode

SurvivalInv == SomeoneFailed \/ (MetaSurvives /\ BitcodeSurvives)

\* Nothing is published and nobody has looked.
LEMMA SurvivalInit == Init => SurvivalInv
  BY DEF Init, SurvivalInv, MetaSurvives, BitcodeSurvives, Kinds, FoundMeta, Published

\* A name that is in use, or that somebody will link again, stays so.
LEMMA SurvivalNext ==
  ASSUME ~PidReuse, "crkmeta" \notin Unopenable, TempInv, SurvivalInv, [Next]_vars
  PROVE  SurvivalInv'
<1>0. FileTypes /\ TempsByPlace
  BY DEF TempInv
<1>1. CASE UNCHANGED vars
  BY <1>1 DEF vars, SurvivalInv, SomeoneFailed, MetaSurvives, BitcodeSurvives, WillLinkMeta,
              WillLinkBitcode
<1>2. ASSUME NEW v \in Versions, Edit(v) PROVE SurvivalInv'
  BY <1>2 DEF Edit, SurvivalInv, SomeoneFailed, MetaSurvives, BitcodeSurvives, WillLinkMeta,
              WillLinkBitcode
\* A failure is for ever, and a step that ends in one needs no more.
<1>3. ASSUME NEW p \in Procs, NEW label, Goto(p, label), pc[p] \notin {"failed", "killed"},
             SomeoneFailed \/ label \in {"failed", "killed"}
      PROVE  SurvivalInv'
  <2>1. /\ pc'[p] = label
        /\ \A q \in Procs : q # p => pc'[q] = pc[q]
    BY <1>0, <1>3 DEF FileTypes, Goto
  <2> QED
    BY <1>3, <2>1 DEF SurvivalInv, SomeoneFailed
\* Otherwise it is enough that the step keeps what the two names promise, and
\* finds them kept when it comes to a place that relies on them.
<1>4. ASSUME NEW p \in Procs, NEW label, Goto(p, label), pc[p] \notin {"failed", "killed"},
             label \in FoundMeta \cup Published =>
               \/ pc[p] \in FoundMeta \cup Published
               \/ final["crkmeta"] # NoFile
               \/ final'["crkmeta"] # NoFile /\ label = "metaDrop",
             final["crkmeta"] # NoFile => final'["crkmeta"] # NoFile \/ label = "metaLink",
             final["bc"] # NoFile => final'["bc"] # NoFile \/ label = "bcLink",
             pc[p] = "metaLink" => final'["crkmeta"] # NoFile,
             pc[p] \in {"metaDrop", "bcUnlink", "bcLink"} =>
               label \in {"metaDrop", "bcUnlink", "bcLink"} \/ final'["bc"] # NoFile,
             final'["crkmeta"] # NoFile => final["crkmeta"] # NoFile \/ label = "metaDrop"
      PROVE  SurvivalInv'
  <2>1. /\ pc'[p] = label
        /\ \A q \in Procs : q # p => pc'[q] = pc[q]
    BY <1>0, <1>4 DEF FileTypes, Goto
  <2>2. CASE SomeoneFailed
    BY <1>3, <1>4, <2>2
  <2>3. CASE MetaSurvives /\ BitcodeSurvives
    <3>1. WillLinkMeta => final'["crkmeta"] # NoFile \/ WillLinkMeta'
      BY <1>4, <2>1 DEF WillLinkMeta
    <3>2. WillLinkBitcode => final'["bc"] # NoFile \/ WillLinkBitcode'
      BY <1>4, <2>1 DEF WillLinkBitcode
    <3>3. final["crkmeta"] # NoFile \/ WillLinkMeta => final'["crkmeta"] # NoFile \/ WillLinkMeta'
      BY <1>4, <2>1, <3>1 DEF WillLinkMeta
    <3>4. final["bc"] # NoFile \/ WillLinkBitcode => final'["bc"] # NoFile \/ WillLinkBitcode'
      BY <1>4, <2>1, <3>2 DEF WillLinkBitcode
    <3>5. (\E q \in Procs : pc'[q] \in FoundMeta \cup Published)
            => \/ \E q \in Procs : pc[q] \in FoundMeta \cup Published
               \/ final["crkmeta"] # NoFile
               \/ final'["crkmeta"] # NoFile /\ label = "metaDrop"
      BY <1>4, <2>1
    <3>6. MetaSurvives'
      BY <2>3, <3>3, <3>5 DEF MetaSurvives
    <3>7. label = "metaDrop" => WillLinkBitcode'
      BY <2>1 DEF WillLinkBitcode
    <3>8. BitcodeSurvives'
      BY <1>4, <2>3, <3>4, <3>5, <3>7 DEF BitcodeSurvives
    <3> QED
      BY <3>6, <3>8 DEF SurvivalInv
  <2> QED
    BY <2>2, <2>3 DEF SurvivalInv
<1>5. ASSUME NEW p \in Procs, Start(p) \/ Load(p) \/ Compile(p), ~RemoveCorrupt(p)
      PROVE  SurvivalInv'
  <2>1. final' = final /\ pc[p] \notin {"failed", "killed", "metaLink"} \cup Published
    BY <1>5 DEF Start, Load, Stat, Open, Header, GetCacheFile, CheckDeps, Materialize,
                Compile, OpenSource, ComputeDigest, Parse, ReadVars, CompileVars, Published
  <2>2. PICK label : Goto(p, label) /\ (label \in FoundMeta \cup Published =>
                                          pc[p] \in FoundMeta \/ final["crkmeta"] # NoFile)
    BY <1>5 DEF Start, Load, Stat, Open, Header, ReadUInt, GetCacheFile, CheckDeps, Materialize,
                Compile, OpenSource, ComputeDigest, Parse, FoundMeta, Published
  <2> QED
    BY <2>1, <2>2, <1>4 DEF Published
<1>6. ASSUME NEW p \in Procs, RemoveCorrupt(p) \/ CreateThrows(p) \/ Kill(p) PROVE SurvivalInv'
  <2>1. /\ pc[p] \notin {"failed", "killed"}
        /\ Goto(p, "failed") \/ Goto(p, "killed")
    BY <1>6 DEF RemoveCorrupt, CreateThrows, Kill, IsRunning, Running, Reading, Compiling, Writing,
                Publishing
  <2> QED
    BY <2>1, <1>3
<1>7. ASSUME NEW p \in Procs,
             \/ CreateMeta(p) \/ WriteMeta(p) \/ CreateBitcode(p) \/ WriteBitcode(p)
             \/ DropMeta(p) \/ DropBitcode(p)
      PROVE  SurvivalInv'
  <2>1. /\ final' = final
        /\ \/ pc[p] = "metaCreate" /\ Goto(p, "metaWrite")
           \/ pc[p] = "metaWrite" /\ Goto(p, "bcCreate")
           \/ pc[p] = "bcCreate" /\ Goto(p, "bcWrite")
           \/ pc[p] = "bcWrite" /\ Goto(p, "metaUnlink")
           \/ pc[p] = "metaDrop" /\ Goto(p, "bcUnlink")
           \/ pc[p] = "bcDrop" /\ Goto(p, "done")
    BY <1>7 DEF CreateMeta, WriteMeta, CreateBitcode, WriteBitcode, DropMeta, DropBitcode
  <2> QED
    BY <2>1, <1>4 DEF FoundMeta, Published
<1>8. ASSUME NEW p \in Procs, UnlinkMeta(p) PROVE SurvivalInv'
  <2>1. /\ pc[p] = "metaUnlink" /\ Goto(p, "metaLink")
        /\ final' = [final EXCEPT !["crkmeta"] = NoFile]
    BY <1>8 DEF UnlinkMeta
  <2>2. final'["crkmeta"] = NoFile /\ final'["bc"] = final["bc"]
    BY <1>0, <2>1 DEF FileTypes, Kinds
  <2> QED
    BY <2>1, <2>2, <1>4 DEF FoundMeta, Published
<1>9. ASSUME NEW p \in Procs, LinkMeta(p) PROVE SurvivalInv'
  <2>1. pc[p] = "metaLink" /\ temp[p]["crkmeta"] # NoFile
    BY <1>0, <1>9 DEF LinkMeta, TempsByPlace, MetaWritten
  <2>2. CASE final["crkmeta"] = NoFile
    <3>1. Goto(p, "metaDrop") /\ final' = [final EXCEPT !["crkmeta"] = temp[p]["crkmeta"]]
      BY <1>9, <2>1, <2>2 DEF LinkMeta
    <3>2. final'["crkmeta"] # NoFile /\ final'["bc"] = final["bc"]
      BY <1>0, <2>1, <3>1 DEF FileTypes, Kinds
    <3> QED
      BY <2>1, <3>1, <3>2, <1>4 DEF FoundMeta, Published
  <2>3. CASE final["crkmeta"] # NoFile
    <3>1. Goto(p, "bcDrop") /\ final' = final
      BY <1>9, <2>3 DEF LinkMeta
    <3> QED
      BY <2>1, <2>3, <3>1, <1>4 DEF FoundMeta, Published
  <2> QED
    BY <2>2, <2>3
<1>10. ASSUME NEW p \in Procs, UnlinkBitcode(p) PROVE SurvivalInv'
  <2>1. /\ pc[p] = "bcUnlink" /\ Goto(p, "bcLink")
        /\ final' = [final EXCEPT !["bc"] = NoFile]
    BY <1>10 DEF UnlinkBitcode
  <2>2. final'["bc"] = NoFile /\ final'["crkmeta"] = final["crkmeta"]
    BY <1>0, <2>1 DEF FileTypes, Kinds
  <2> QED
    BY <2>1, <2>2, <1>4 DEF FoundMeta, Published
<1>11. ASSUME NEW p \in Procs, LinkBitcode(p) PROVE SurvivalInv'
  <2>1. /\ pc[p] = "bcLink" /\ Goto(p, "bcDrop") /\ temp[p]["bc"] # NoFile
    BY <1>0, <1>11 DEF LinkBitcode, TempsByPlace, BitcodeWritten
  <2>2. final'["bc"] # NoFile /\ final'["crkmeta"] = final["crkmeta"]
    BY <1>0, <1>11, <2>1 DEF LinkBitcode, FileTypes, Kinds
  <2> QED
    BY <2>1, <2>2, <1>4 DEF FoundMeta, Published
<1>12. \A p \in Procs : ~Reuse(p) /\ ~CreateMetaFails(p)
  BY DEF Reuse, CreateMetaFails
<1> QED
  BY <1>1, <1>2, <1>5, <1>6, <1>7, <1>8, <1>9, <1>10, <1>11, <1>12 DEF Next, Step, Publish

\* THEOREM.  However the unlinks and links of any number of processes fall
\* between one another, the cache holds both files when all of them have ended
\* well: an unlinked name is linked again before its process ends, by that
\* process or by one that made the link fail, as long as the qualified
\* meta-data, which cacheModule() never looks at, could be created.
THEOREM PublishedSurvives ==
  ASSUME ~PidReuse, "crkmeta" \notin Unopenable
  PROVE  Spec => []CacheSurvives
<1>1. TempInv /\ SurvivalInv /\ [Next]_vars => SurvivalInv'
  BY SurvivalNext
<1>2. SurvivalInv => CacheSurvives
  BY DEF SurvivalInv, SomeoneFailed, MetaSurvives, BitcodeSurvives, WillLinkMeta, WillLinkBitcode,
         Published, CacheSurvives, Kinds
<1>3. Spec => []TempInv
  BY TempInvariant
<1> QED
  BY <1>1, <1>2, <1>3, SurvivalInit, PTL DEF Spec

-----------------------------------------------------------------------------
(* What a process has read by the place it has come to.                    *)

\* Where the text was opened and its digest computed.
Compiled == {"parse", "metaCreate"} \cup Writing \cup Publishing

\* Where a process has meta-data open, and bitcode in memory.
HasMeta == {"builder", "deps", "materialize"}

HasBitcode == {"deps", "materialize"}

Known ==
  \A p \in Procs : /\ pc[p] \in Compiled \cup {"digest"} => text[p] \in Versions
                   /\ pc[p] \in Compiled => digest[p] \in Versions
                   /\ pc[p] \in HasMeta => fd[p] \in Inodes
                   /\ pc[p] \in HasBitcode => bitcode[p] \in Contents

TypeInv == TypeOK /\ Known

\* The weaker types of the arguments above.
LEMMA TypeInvFileTypes == TypeInv => FileTypes
  BY DEF TypeInv, TypeOK, FileTypes, Contents

\* The types hold at first.
LEMMA TypeInvInit == Init => TypeInv
  BY DEF Init, TypeInv, TypeOK, Known, Contents, Sizes, Kinds, NoCode, Compiled, HasMeta,
         HasBitcode, Writing, Publishing, Running, Ended

\* Every step keeps them: nothing is used that was not read before.
LEMMA TypeInvNext ==
  ASSUME TypeInv, [Next]_vars
  PROVE  TypeInv'
<1>0. FileTypes /\ FileTypes' /\ TypeOK /\ Known
  BY FileTypesNext, TypeInvFileTypes DEF TypeInv
<1> USE DEF Goto
<1>1. CASE UNCHANGED vars
  BY <1>0, <1>1 DEF vars, TypeInv, TypeOK, Known
<1>2. ASSUME NEW v \in Versions, Edit(v) PROVE TypeInv'
  BY <1>0, <1>2 DEF Edit, TypeInv, TypeOK, Known
\* It is enough to look at what the process that takes the step has read.
<1>3. ASSUME NEW p \in Procs, NEW label, pc' = [pc EXCEPT ![p] = label],
             file' \in [Inodes -> Contents],
             bitcode' \in [Procs -> Contents \cup {NoFile}],
             code' \in [Procs -> [meta : Versions \cup {NoVersion}, bc : Versions \cup {NoVersion}]],
             seen' \in [Procs -> SUBSET Versions],
             \A q \in Procs : q # p => /\ text'[q] = text[q] /\ digest'[q] = digest[q]
                                       /\ fd'[q] = fd[q] /\ bitcode'[q] = bitcode[q],
             label \in Compiled \cup {"digest"} => text'[p] \in Versions,
             label \in Compiled => digest'[p] \in Versions,
             label \in HasMeta => fd'[p] \in Inodes,
             label \in HasBitcode => bitcode'[p] \in Contents
      PROVE  TypeInv'
  <2>1. /\ pc'[p] = label
        /\ \A q \in Procs : q # p => pc'[q] = pc[q]
    BY <1>0, <1>3 DEF FileTypes
  <2>2. Known'
    BY <1>0, <1>3, <2>1 DEF Known
  <2>3. TypeOK'
    BY <1>0, <1>3 DEF TypeOK, FileTypes
  <2> QED
    BY <2>2, <2>3 DEF TypeInv
<1> USE DEF Compiled, HasMeta, HasBitcode, Writing, Publishing
<1>4. ASSUME NEW p \in Procs, Start(p) PROVE TypeInv'
  <2>1. /\ pc' = [pc EXCEPT ![p] = "stat"] /\ seen' \in [Procs -> SUBSET Versions]
        /\ UNCHANGED <<file, bitcode, code, text, digest, fd>>
    BY <1>0, <1>4 DEF Start, TypeOK
  <2> QED
    BY <1>0, <2>1, <1>3 DEF TypeOK
<1>5. ASSUME NEW p \in Procs, Stat(p) \/ CheckDeps(p) PROVE TypeInv'
  <2>1. /\ UNCHANGED <<file, bitcode, code, seen, text, digest, fd>>
        /\ \/ pc' = [pc EXCEPT ![p] = "open"]
           \/ pc' = [pc EXCEPT ![p] = "source"]
           \/ pc[p] = "deps" /\ pc' = [pc EXCEPT ![p] = "materialize"]
    BY <1>5 DEF Stat, CheckDeps, ReadVars
  <2> QED
    BY <1>0, <2>1, <1>3 DEF TypeOK, Known
<1>6. ASSUME NEW p \in Procs, Open(p) PROVE TypeInv'
  <2>1. /\ UNCHANGED <<file, bitcode, code, seen, text, digest>>
        /\ pc' = [pc EXCEPT ![p] = "header"] /\ \A q \in Procs : q # p => fd'[q] = fd[q]
    BY <1>0, <1>6 DEF Open, ReadVars, TypeOK
  <2> QED
    BY <1>0, <2>1, <1>3 DEF TypeOK
<1>7. ASSUME NEW p \in Procs, Header(p) PROVE TypeInv'
  <2>1. /\ UNCHANGED <<file, bitcode, code, seen, text, digest, fd>>
        /\ \/ pc' = [pc EXCEPT ![p] = "spin"]
           \/ pc' = [pc EXCEPT ![p] = "corrupt"]
           \/ pc' = [pc EXCEPT ![p] = "source"]
           \/ pc' = [pc EXCEPT ![p] = "builder"] /\ fd[p] # NoFile
    BY <1>7 DEF Header, ReadVars, ReadUInt
  <2>2. fd[p] # NoFile => fd[p] \in Inodes
    BY <1>0 DEF TypeOK
  <2> QED
    BY <1>0, <2>1, <2>2, <1>3 DEF TypeOK
<1>8. ASSUME NEW p \in Procs, GetCacheFile(p) PROVE TypeInv'
  <2>1. UNCHANGED <<file, code, seen, text, digest, fd>> /\ pc[p] = "builder"
    BY <1>8 DEF GetCacheFile, ReadVars
  <2>2. CASE final["bc"] = NoFile
    <3>1. bitcode' = bitcode /\ pc' = [pc EXCEPT ![p] = "source"]
      BY <1>8, <2>2 DEF GetCacheFile
    <3> QED
      BY <1>0, <2>1, <3>1, <1>3 DEF TypeOK
  <2>3. CASE final["bc"] # NoFile
    <3>1. /\ bitcode' = [bitcode EXCEPT ![p] = file[final["bc"]]]
          /\ pc' = [pc EXCEPT ![p] = "deps"]
      BY <1>8, <2>3 DEF GetCacheFile
    <3>2. file[final["bc"]] \in Contents
      BY <1>0, <2>3 DEF TypeOK, Kinds
    <3>3. bitcode'[p] \in Contents /\ bitcode' \in [Procs -> Contents \cup {NoFile}]
          /\ \A q \in Procs : q # p => bitcode'[q] = bitcode[q]
      BY <1>0, <3>1, <3>2 DEF TypeOK
    <3> QED
      BY <1>0, <2>1, <3>1, <3>3, <1>3 DEF TypeOK, Known
  <2> QED
    BY <2>2, <2>3
<1>9. ASSUME NEW p \in Procs, Materialize(p) PROVE TypeInv'
  <2>1. UNCHANGED <<file, seen, text, digest, bitcode>> /\ pc[p] = "materialize"
    BY <1>9 DEF Materialize, ReadVars
  <2>2. \/ /\ UNCHANGED <<fd, code>>
           /\ pc' = [pc EXCEPT ![p] = "source"] \/ pc' = [pc EXCEPT ![p] = "corrupt"]
        \/ /\ pc' = [pc EXCEPT ![p] = "done"]
           /\ code' = [code EXCEPT ![p] = [meta |-> file[fd[p]].version,
                                           bc |-> bitcode[p].version]]
           /\ fd' = [fd EXCEPT ![p] = NoFile]
    BY <1>9 DEF Materialize
  <2>3. file[fd[p]].version \in Versions /\ bitcode[p].version \in Versions
    BY <1>0, <2>1 DEF TypeOK, Known, Contents
  <2>4. /\ code' \in [Procs -> [meta : Versions \cup {NoVersion}, bc : Versions \cup {NoVersion}]]
        /\ \A q \in Procs : q # p => fd'[q] = fd[q]
    <3>1. CASE UNCHANGED <<fd, code>>
      BY <1>0, <3>1 DEF TypeOK
    <3>2. CASE /\ code' = [code EXCEPT ![p] = [meta |-> file[fd[p]].version,
                                              bc |-> bitcode[p].version]]
               /\ fd' = [fd EXCEPT ![p] = NoFile]
      BY <1>0, <2>3, <3>2 DEF TypeOK
    <3> QED
      BY <2>2, <3>1, <3>2
  <2> QED
    BY <1>0, <2>1, <2>2, <2>4, <1>3 DEF TypeOK
<1>10. ASSUME NEW p \in Procs, RemoveCorrupt(p) \/ Kill(p) PROVE TypeInv'
  <2>1. /\ UNCHANGED <<file, bitcode, code, seen, text, digest>>
        /\ pc' = [pc EXCEPT ![p] = "failed"] \/ pc' = [pc EXCEPT ![p] = "killed"]
        /\ fd' = [fd EXCEPT ![p] = NoFile]
    BY <1>10 DEF RemoveCorrupt, Kill
  <2>2. \A q \in Procs : q # p => fd'[q] = fd[q]
    BY <1>0, <2>1 DEF TypeOK
  <2> QED
    BY <1>0, <2>1, <2>2, <1>3 DEF TypeOK
<1>11. ASSUME NEW p \in Procs, OpenSource(p) PROVE TypeInv'
  <2>1. /\ UNCHANGED <<file, code, seen, digest>>
        /\ pc' = [pc EXCEPT ![p] = "digest"]
        /\ bitcode' \in [Procs -> Contents \cup {NoFile}] /\ text'[p] \in Versions
        /\ \A q \in Procs : q # p => fd'[q] = fd[q] /\ text'[q] = text[q] /\ bitcode'[q] = bitcode[q]
    BY <1>0, <1>11 DEF OpenSource, TypeOK
  <2> QED
    BY <1>0, <2>1, <1>3 DEF TypeOK
<1>12. ASSUME NEW p \in Procs, ComputeDigest(p) PROVE TypeInv'
  <2>1. /\ UNCHANGED <<file, code, seen, bitcode, fd, text>> /\ pc[p] = "digest"
        /\ pc' = [pc EXCEPT ![p] = "parse"] /\ digest'[p] \in Versions
        /\ \A q \in Procs : q # p => digest'[q] = digest[q]
    BY <1>0, <1>12 DEF ComputeDigest, CompileVars, TypeOK
  <2> QED
    BY <1>0, <2>1, <1>3 DEF TypeOK, Known
<1>13. ASSUME NEW p \in Procs, Reuse(p) PROVE TypeInv'
  <2>1. /\ UNCHANGED <<file, fd>> /\ pc' = [pc EXCEPT ![p] = "new"]
        /\ bitcode' \in [Procs -> Contents \cup {NoFile}] /\ seen' \in [Procs -> SUBSET Versions]
        /\ code' \in [Procs -> [meta : Versions \cup {NoVersion}, bc : Versions \cup {NoVersion}]]
        /\ \A q \in Procs : q # p => /\ text'[q] = text[q] /\ digest'[q] = digest[q]
                                     /\ bitcode'[q] = bitcode[q]
    BY <1>0, <1>13 DEF Reuse, NoCode, TypeOK
  <2> QED
    BY <1>0, <2>1, <1>3 DEF TypeOK
<1>14. ASSUME NEW p \in Procs, Parse(p) \/ Publish(p), ~DropBitcode(p) PROVE TypeInv'
  <2>1. UNCHANGED <<fd, bitcode, text, digest, code, seen>>
    BY <1>14 DEF Parse, CompileVars, Publish, CreateMeta, CreateMetaFails, WriteMeta, CreateBitcode,
                 WriteBitcode,
                 CreateThrows, UnlinkMeta, LinkMeta, DropMeta, UnlinkBitcode, LinkBitcode, WriteVars
  <2>2. pc[p] \in Compiled
    BY <1>14 DEF Parse, Publish, CreateMeta, CreateMetaFails, WriteMeta, CreateBitcode,
                 WriteBitcode,
                 CreateThrows, UnlinkMeta, LinkMeta, DropMeta, UnlinkBitcode, LinkBitcode
  <2>3. PICK label \in Compiled \cup {"failed"} : pc' = [pc EXCEPT ![p] = label]
    BY <1>14 DEF Parse, Publish, CreateMeta, CreateMetaFails, WriteMeta, CreateBitcode,
                 WriteBitcode,
                 CreateThrows, UnlinkMeta, LinkMeta, DropMeta, UnlinkBitcode, LinkBitcode
  <2>4. text[p] \in Versions /\ digest[p] \in Versions
    BY <1>0, <2>2 DEF Known
  <2>5. \A size \in Sizes : Written(p, size) \in Contents
    BY <2>4 DEF Written, Contents
  <2>6. file' = file \/ \E i : \E size \in Sizes : file' = [file EXCEPT ![i] = Written(p, size)]
    BY <1>14 DEF Parse, CompileVars, Publish, CreateMeta, CreateMetaFails, WriteMeta, CreateBitcode,
                 WriteBitcode,
                 OpenForOutput, CreateThrows, UnlinkMeta, LinkMeta, DropMeta, UnlinkBitcode,
                 LinkBitcode, Sizes
  <2>7. file' \in [Inodes -> Contents]
    BY <1>0, <2>5, <2>6 DEF TypeOK
  <2> QED
    BY <1>0, <2>1, <2>3, <2>4, <2>7, <1>3 DEF TypeOK
<1>15. ASSUME NEW p \in Procs, DropBitcode(p) PROVE TypeInv'
  <2>1. text[p] \in Versions
    BY <1>0, <1>15 DEF DropBitcode, Known
  <2>2. /\ UNCHANGED <<file, fd, bitcode, text, digest, seen>> /\ pc' = [pc EXCEPT ![p] = "done"]
        /\ code' \in [Procs -> [meta : Versions \cup {NoVersion}, bc : Versions \cup {NoVersion}]]
    BY <1>0, <1>15, <2>1 DEF DropBitcode, TypeOK
  <2> QED
    BY <1>0, <2>2, <1>3 DEF TypeOK
<1> QED
  BY <1>1, <1>2, <1>4, <1>5, <1>6, <1>7, <1>8, <1>9, <1>10, <1>11, <1>12, <1>13, <1>14, <1>15
  DEF Next, Step, Load, Compile

\* THEOREM.  In every history of the cache, with kills, used pids and full disks,
\* no step reads a file through a name that is not there or writes a file from a
\* text it has not read.
THEOREM CacheTyped == Spec => []TypeOK
<1>1. TypeInv /\ [Next]_vars => TypeInv'
  BY TypeInvNext
<1>2. TypeInv => TypeOK
  BY DEF TypeInv
<1> QED
  BY <1>1, <1>2, TypeInvInit, PTL DEF Spec

-----------------------------------------------------------------------------
(* One process at a time.                                                  *)

OnlyOneRuns == \A p, q \in Procs : IsRunning(p) /\ IsRunning(q) => p = q

\* A file that was written by process p, from the text it has compiled.
Holds(i, p) == file[i].version = text[p] /\ file[i].digest = text[p]

\* What is compiled is a text the source had in this run, and the digest is of
\* the same text.
SourceInv(p) ==
  /\ IsRunning(p) => source \in seen[p]
  /\ pc[p] = "digest" => text[p] = source /\ text[p] \in seen[p]
  /\ pc[p] \in Compiled => digest[p] = text[p] /\ text[p] \in seen[p]

\* The files of the process hold its text; a file it still writes has no other
\* name; when it unlinks and links the bitcode, the meta-data is its own.
WriterInv(p) ==
  /\ (pc[p] \in MetaWritten \cup {"metaWrite"} /\ temp[p]["crkmeta"] # NoFile)
       => Holds(temp[p]["crkmeta"], p)
  /\ pc[p] \in BitcodeWritten \cup {"bcWrite"} => Holds(temp[p]["bc"], p)
  /\ pc[p] = "metaWrite" => \A k \in Kinds : final[k] # temp[p]["crkmeta"]
  /\ pc[p] = "bcWrite" => \A k \in Kinds : final[k] # temp[p]["bc"]
  /\ pc[p] \in {"metaDrop", "bcUnlink", "bcLink"} => Holds(final["crkmeta"], p)
  /\ pc[p] = "bcLink" => final["bc"] = NoFile

\* What the process has read is what is still published.
ReaderInv(p) ==
  /\ pc[p] = "header" => fd[p] = final["crkmeta"]
  /\ pc[p] \in HasMeta => fd[p] = final["crkmeta"] /\ file[fd[p]].digest \in seen[p]
  /\ pc[p] \in HasBitcode => final["bc"] # NoFile /\ bitcode[p] = file[final["bc"]]

PairMatches ==
  (\A k \in Kinds : final[k] # NoFile) =>
    /\ file[final["crkmeta"]].version = file[final["crkmeta"]].digest
    /\ file[final["bc"]].version = file[final["crkmeta"]].version

\* The two files disagree only while the process that moves them is between them.
GoodPair == (\A p \in Procs : pc[p] \notin {"metaDrop", "bcUnlink"}) => PairMatches

SoloInv == /\ OnlyOneRuns /\ GoodPair /\ CodeFromThisRun
           /\ \A p \in Procs : SourceInv(p) /\ WriterInv(p) /\ ReaderInv(p)

\* Nobody has started.
LEMMA SoloInit == Init => SoloInv
  BY DEF Init, SoloInv, OnlyOneRuns, IsRunning, GoodPair, PairMatches, CodeFromThisRun, SourceInv,
         WriterInv, ReaderInv, Compiled, HasMeta, HasBitcode, MetaWritten, BitcodeWritten, Running,
         Reading, Compiling, Writing, Publishing, Kinds

\* A step of the process that runs alone.
LEMMA SoloStep ==
  ASSUME TypeInv, SoloInv, NEW p \in Procs, NEW label, Goto(p, label),
         \A q \in Procs : q # p => ~IsRunning(q) /\ code'[q] = code[q] /\ seen'[q] = seen[q],
         SourceInv(p)', WriterInv(p)', ReaderInv(p)',
         label \notin {"metaDrop", "bcUnlink"} => PairMatches',
         label = "done" => code'[p].meta = code'[p].bc /\ code'[p].bc \in seen'[p]
  PROVE  SoloInv'
<1>1. /\ pc'[p] = label
      /\ \A q \in Procs : q # p => pc'[q] = pc[q]
  BY DEF TypeInv, TypeOK, Goto
<1>2. \A q \in Procs : q # p => ~IsRunning(q)'
  BY <1>1 DEF IsRunning
<1>3. \A q \in Procs : q # p => SourceInv(q)' /\ WriterInv(q)' /\ ReaderInv(q)'
  <2>1. ASSUME NEW q \in Procs, q # p
        PROVE  SourceInv(q)' /\ WriterInv(q)' /\ ReaderInv(q)'
    <3>1. ~IsRunning(q)'
      BY <1>2, <2>1
    <3> QED
      BY <3>1 DEF IsRunning, SourceInv, WriterInv, ReaderInv, Compiled, HasMeta, HasBitcode,
                  MetaWritten, BitcodeWritten, Running, Reading, Compiling, Writing, Publishing
  <2> QED
    BY <2>1
<1>4. OnlyOneRuns'
  BY <1>2 DEF OnlyOneRuns
<1>5. GoodPair'
  BY <1>1 DEF GoodPair
<1>6. CodeFromThisRun'
  BY <1>1 DEF SoloInv, CodeFromThisRun
<1> QED
  BY <1>3, <1>4, <1>5, <1>6 DEF SoloInv

\* Who runs, runs alone; when it is not moving files, the published ones match.
LEMMA Alone ==
  ASSUME SoloInv, NEW p \in Procs, IsRunning(p)
  PROVE  /\ \A q \in Procs : q # p => ~IsRunning(q)
         /\ pc[p] \notin {"metaDrop", "bcUnlink"} => PairMatches
         /\ SourceInv(p) /\ WriterInv(p) /\ ReaderInv(p)
<1>1. \A q \in Procs : q # p => ~IsRunning(q)
  BY DEF SoloInv, OnlyOneRuns
<1>2. \A q \in Procs : q # p => pc[q] \notin {"metaDrop", "bcUnlink"}
  BY <1>1 DEF IsRunning, Running, Publishing
<1> QED
  BY <1>1, <1>2 DEF SoloInv, GoodPair

\* A process starts when nobody runs.
LEMMA StartAlone ==
  ASSUME MaxRunning <= 1, NEW p \in Procs, Start(p)
  PROVE  \A q \in Procs : ~IsRunning(q)
<1> DEFINE R == {q \in Procs : IsRunning(q)}
<1>1. IsFiniteSet(R)
  BY FS_Subset, CacheAssumption
<1>2. Cardinality(R) \in Nat
  BY <1>1, FS_CardinalityType
<1>3. Cardinality(R) < MaxRunning
  BY DEF Start
<1>4. Cardinality(R) = 0
  <2> HIDE DEF R
  <2> QED
    BY <1>2, <1>3, CacheAssumption
<1>5. R = {}
  BY <1>1, <1>4, FS_EmptySet
<1> QED
  BY <1>5

\* The steps of a load, up to the exception of a corrupt file.
LEMMA SoloLoad ==
  ASSUME MaxRunning <= 1, TypeInv, SoloInv, NEW p \in Procs, Start(p) \/ Load(p)
  PROVE  SoloInv'
<1>0. TypeOK /\ Known
  BY DEF TypeInv
<1> USE DEF Goto, Compiled, HasMeta, HasBitcode, MetaWritten, BitcodeWritten, Writing, Publishing
<1>1. CASE Start(p)
  <2>1. \A q \in Procs : ~IsRunning(q)
    BY <1>1, StartAlone
  <2>2. /\ pc' = [pc EXCEPT ![p] = "stat"] /\ seen' = [seen EXCEPT ![p] = {source}]
        /\ UNCHANGED <<source, final, temp, file, fd, bitcode, text, digest, code>>
    BY <1>1 DEF Start
  <2>3. pc'[p] = "stat" /\ seen'[p] = {source} /\ \A q \in Procs : q # p => seen'[q] = seen[q]
    BY <1>0, <2>2 DEF TypeOK
  <2>4. SourceInv(p)' /\ WriterInv(p)' /\ ReaderInv(p)'
    BY <2>2, <2>3 DEF SourceInv, WriterInv, ReaderInv
  <2>5. PairMatches'
    BY <2>1, <2>2 DEF SoloInv, GoodPair, PairMatches, IsRunning, Running
  <2> QED
    BY <2>1, <2>2, <2>3, <2>4, <2>5, SoloStep
<1>2. ASSUME Load(p)
      PROVE  /\ IsRunning(p)
             /\ \A q \in Procs : q # p => ~IsRunning(q)
             /\ PairMatches /\ SourceInv(p) /\ WriterInv(p) /\ ReaderInv(p)
             /\ source \in seen[p]
  <2>1. IsRunning(p) /\ pc[p] \notin {"metaDrop", "bcUnlink"}
    BY <1>2 DEF Load, Stat, Open, Header, GetCacheFile, CheckDeps, Materialize, RemoveCorrupt,
                IsRunning, Running, Reading
  <2> QED
    BY <2>1, Alone DEF SourceInv
\* No step but the removal of a corrupt file changes a file.
<1>3. ASSUME Load(p), ~RemoveCorrupt(p), NEW label, pc' = [pc EXCEPT ![p] = label],
             label \in Reading \cup {"source", "spin", "done"},
             \A q \in Procs : q # p => code'[q] = code[q],
             ReaderInv(p)',
             label = "done" => code'[p].meta = code'[p].bc /\ code'[p].bc \in seen'[p]
      PROVE  SoloInv'
  <2>1. UNCHANGED <<source, final, temp, file, text, digest, seen>>
    BY <1>3 DEF Load, Stat, Open, Header, GetCacheFile, CheckDeps, Materialize, ReadVars
  <2>2. pc'[p] = label
    BY <1>0, <1>3 DEF TypeOK
  <2>3. SourceInv(p)' /\ WriterInv(p)'
    BY <1>2, <1>3, <2>1, <2>2 DEF SourceInv, WriterInv, Reading
  <2>4. PairMatches'
    BY <1>2, <1>3, <2>1 DEF PairMatches
  <2> QED
    BY <1>2, <1>3, <2>1, <2>3, <2>4, SoloStep
<1>4. CASE Stat(p)
  <2>1. /\ pc' = [pc EXCEPT ![p] = "open"] \/ pc' = [pc EXCEPT ![p] = "source"]
        /\ code' = code /\ ~RemoveCorrupt(p) /\ Load(p)
    BY <1>4 DEF Stat, RemoveCorrupt, Load
  <2>2. ReaderInv(p)'
    BY <1>0, <2>1 DEF ReaderInv, TypeOK
  <2> QED
    BY <2>1, <2>2, <1>3 DEF Reading
<1>5. CASE Open(p)
  <2>1. /\ pc' = [pc EXCEPT ![p] = "header"] /\ fd' = [fd EXCEPT ![p] = final["crkmeta"]]
        /\ UNCHANGED <<code, final>> /\ ~RemoveCorrupt(p) /\ Load(p)
    BY <1>5 DEF Open, RemoveCorrupt, Load, ReadVars
  <2>2. ReaderInv(p)'
    BY <1>0, <2>1 DEF ReaderInv, TypeOK
  <2> QED
    BY <2>1, <2>2, <1>3 DEF Reading
<1>6. CASE Header(p)
  <2>1. /\ UNCHANGED <<code, final, fd, file, seen>> /\ ~RemoveCorrupt(p) /\ Load(p)
        /\ pc[p] = "header"
    BY <1>6 DEF Header, RemoveCorrupt, Load, ReadVars
  <2>2. \/ pc' = [pc EXCEPT ![p] = "spin"]
        \/ pc' = [pc EXCEPT ![p] = "corrupt"]
        \/ pc' = [pc EXCEPT ![p] = "source"]
        \/ pc' = [pc EXCEPT ![p] = "builder"] /\ file[fd[p]].digest = source
    BY <1>6 DEF Header, ReadUInt
  <2>3. ReaderInv(p)'
    BY <1>0, <1>2, <2>1, <2>2 DEF ReaderInv, TypeOK
  <2> QED
    BY <2>1, <2>2, <2>3, <1>3 DEF Reading
<1>7. CASE GetCacheFile(p)
  <2>1. /\ UNCHANGED <<code, final, fd, file, seen>> /\ ~RemoveCorrupt(p) /\ Load(p)
        /\ pc[p] = "builder"
    BY <1>7 DEF GetCacheFile, RemoveCorrupt, Load, ReadVars
  <2>2. \/ pc' = [pc EXCEPT ![p] = "source"]
        \/ /\ pc' = [pc EXCEPT ![p] = "deps"] /\ final["bc"] # NoFile
           /\ bitcode' = [bitcode EXCEPT ![p] = file[final["bc"]]]
    BY <1>7 DEF GetCacheFile
  <2>3. ReaderInv(p)'
    BY <1>0, <1>2, <2>1, <2>2 DEF ReaderInv, TypeOK
  <2> QED
    BY <2>1, <2>2, <2>3, <1>3 DEF Reading
<1>8. CASE CheckDeps(p)
  <2>1. /\ UNCHANGED <<code, final, fd, file, seen, bitcode>> /\ ~RemoveCorrupt(p) /\ Load(p)
        /\ pc[p] = "deps"
    BY <1>8 DEF CheckDeps, RemoveCorrupt, Load, ReadVars
  <2>2. \/ pc' = [pc EXCEPT ![p] = "source"]
        \/ pc' = [pc EXCEPT ![p] = "materialize"]
    BY <1>8 DEF CheckDeps
  <2>3. ReaderInv(p)'
    BY <1>0, <1>2, <2>1, <2>2 DEF ReaderInv, TypeOK
  <2> QED
    BY <2>1, <2>2, <2>3, <1>3 DEF Reading
<1>9. CASE Materialize(p)
  <2>1. /\ UNCHANGED <<final, file, seen, bitcode>> /\ ~RemoveCorrupt(p) /\ Load(p)
        /\ pc[p] = "materialize"
    BY <1>9 DEF Materialize, RemoveCorrupt, Load, ReadVars
  <2>2. \/ /\ code' = code
           /\ pc' = [pc EXCEPT ![p] = "source"] \/ pc' = [pc EXCEPT ![p] = "corrupt"]
        \/ /\ pc' = [pc EXCEPT ![p] = "done"]
           /\ code' = [code EXCEPT ![p] = [meta |-> file[fd[p]].version,
                                           bc |-> bitcode[p].version]]
    BY <1>9 DEF Materialize
  <2>3. /\ final["bc"] # NoFile /\ bitcode[p] = file[final["bc"]]
        /\ fd[p] = final["crkmeta"] /\ fd[p] \in Inodes /\ file[fd[p]].digest \in seen[p]
    BY <1>0, <1>2, <2>1 DEF ReaderInv, Known
  <2>4. file[fd[p]].version = bitcode[p].version /\ bitcode[p].version \in seen[p]
    <3>1. \A k \in Kinds : final[k] # NoFile
      BY <2>3, CacheAssumption DEF Kinds
    <3> QED
      BY <1>2, <2>1, <2>3, <3>1 DEF PairMatches
  <2>5. ReaderInv(p)'
    BY <1>0, <2>2 DEF ReaderInv, TypeOK
  <2>6. CASE code' = code /\ (pc' = [pc EXCEPT ![p] = "source"] \/ pc' = [pc EXCEPT ![p] = "corrupt"])
    BY <2>1, <2>5, <2>6, <1>3 DEF Reading
  <2>7. CASE /\ pc' = [pc EXCEPT ![p] = "done"]
             /\ code' = [code EXCEPT ![p] = [meta |-> file[fd[p]].version,
                                             bc |-> bitcode[p].version]]
    <3>1. /\ code'[p].meta = file[fd[p]].version /\ code'[p].bc = bitcode[p].version
          /\ \A q \in Procs : q # p => code'[q] = code[q]
      BY <1>0, <2>7 DEF TypeOK
    <3> QED
      BY <2>1, <2>4, <2>5, <2>7, <3>1, <1>3
  <2> QED
    BY <2>2, <2>6, <2>7
<1>10. CASE RemoveCorrupt(p)
  <2>1. /\ pc' = [pc EXCEPT ![p] = "failed"] /\ UNCHANGED <<seen, code>>
        /\ final' = [final EXCEPT !["crkmeta"] = NoFile] /\ Load(p)
    BY <1>10 DEF RemoveCorrupt, Load
  <2>2. pc'[p] = "failed" /\ final'["crkmeta"] = NoFile
    BY <1>0, <2>1 DEF TypeOK, Kinds
  <2>3. SourceInv(p)' /\ WriterInv(p)' /\ ReaderInv(p)'
    BY <2>2 DEF SourceInv, WriterInv, ReaderInv, IsRunning, Running, Reading, Compiling
  <2>4. PairMatches'
    BY <2>2 DEF PairMatches, Kinds
  <2> QED
    BY <1>2, <2>1, <2>3, <2>4, SoloStep
<1> QED
  BY <1>1, <1>4, <1>5, <1>6, <1>7, <1>8, <1>9, <1>10 DEF Load

\* The steps of a compilation.
LEMMA SoloCompile ==
  ASSUME TypeInv, SoloInv, NEW p \in Procs, Compile(p)
  PROVE  SoloInv'
<1>0. TypeOK /\ Known
  BY DEF TypeInv
<1> USE DEF Goto, Compiled, HasMeta, HasBitcode, MetaWritten, BitcodeWritten, Writing, Publishing
<1>1. /\ IsRunning(p)
      /\ \A q \in Procs : q # p => ~IsRunning(q)
      /\ PairMatches /\ SourceInv(p) /\ source \in seen[p]
  <2>1. IsRunning(p) /\ pc[p] \notin {"metaDrop", "bcUnlink"}
    BY DEF Compile, OpenSource, ComputeDigest, Parse, IsRunning, Running, Compiling
  <2> QED
    BY <2>1, Alone DEF SourceInv
<1>2. UNCHANGED <<source, final, temp, file, code, seen>>
  BY DEF Compile, OpenSource, ComputeDigest, Parse, CompileVars
<1>3. PairMatches'
  BY <1>1, <1>2 DEF PairMatches
<1>4. ASSUME NEW label \in {"digest", "parse", "metaCreate"}, pc' = [pc EXCEPT ![p] = label],
             SourceInv(p)'
      PROVE  SoloInv'
  <2>1. pc'[p] = label
    BY <1>0, <1>4 DEF TypeOK
  <2>2. WriterInv(p)' /\ ReaderInv(p)'
    BY <2>1 DEF WriterInv, ReaderInv
  <2> QED
    BY <1>1, <1>2, <1>3, <1>4, <2>2, SoloStep
<1>5. CASE OpenSource(p)
  <2>1. pc' = [pc EXCEPT ![p] = "digest"] /\ text' = [text EXCEPT ![p] = source]
    BY <1>5 DEF OpenSource
  <2>2. pc'[p] = "digest" /\ text'[p] = source
    BY <1>0, <2>1 DEF TypeOK
  <2>3. SourceInv(p)'
    BY <1>1, <1>2, <2>2 DEF SourceInv
  <2> QED
    BY <2>1, <2>3, <1>4
<1>6. CASE ComputeDigest(p)
  <2>1. /\ pc[p] = "digest" /\ pc' = [pc EXCEPT ![p] = "parse"] /\ text' = text
        /\ digest' = [digest EXCEPT ![p] = source]
    BY <1>6 DEF ComputeDigest
  <2>2. pc'[p] = "parse" /\ digest'[p] = source
    BY <1>0, <2>1 DEF TypeOK
  <2>3. SourceInv(p)'
    BY <1>1, <1>2, <2>1, <2>2 DEF SourceInv
  <2> QED
    BY <2>1, <2>3, <1>4
<1>7. CASE Parse(p)
  <2>1. /\ pc[p] = "parse" /\ pc' = [pc EXCEPT ![p] = "metaCreate"]
        /\ UNCHANGED <<text, digest>>
    BY <1>7 DEF Parse
  <2>2. pc'[p] = "metaCreate"
    BY <1>0, <2>1 DEF TypeOK
  <2>3. SourceInv(p)'
    BY <1>1, <1>2, <2>1, <2>2 DEF SourceInv
  <2> QED
    BY <2>1, <2>3, <1>4
<1> QED
  BY <1>5, <1>6, <1>7 DEF Compile

\* Writing and moving the files.
LEMMA SoloPublish ==
  ASSUME TypeInv, TempInv, SoloInv, NEW p \in Procs, Publish(p)
  PROVE  SoloInv'
<1>0. TypeOK /\ Known /\ TempsByPlace
  BY DEF TypeInv, TempInv
<1> USE DEF Goto
<1>1. /\ IsRunning(p) /\ pc[p] \in Compiled
      /\ \A q \in Procs : q # p => ~IsRunning(q)
      /\ pc[p] \notin {"metaDrop", "bcUnlink"} => PairMatches
      /\ SourceInv(p) /\ WriterInv(p) /\ source \in seen[p] /\ text[p] \in seen[p]
      /\ digest[p] = text[p]
  <2>1. IsRunning(p) /\ pc[p] \in Compiled
    BY DEF Publish, CreateMeta, CreateMetaFails, WriteMeta, CreateBitcode, WriteBitcode,
           CreateThrows, UnlinkMeta,
           LinkMeta, DropMeta, UnlinkBitcode, LinkBitcode, DropBitcode, IsRunning, Compiled,
           Running, Writing, Publishing
  <2> QED
    BY <2>1, Alone DEF SourceInv
<1>2. UNCHANGED <<source, text, digest, seen>>
  BY DEF Publish, CreateMeta, CreateMetaFails, WriteMeta, CreateBitcode, WriteBitcode,
           CreateThrows, UnlinkMeta,
         LinkMeta, DropMeta, UnlinkBitcode, LinkBitcode, DropBitcode, WriteVars
<1>3. ASSUME NEW label \in Writing \cup Publishing \cup {"failed", "done"},
             pc' = [pc EXCEPT ![p] = label], WriterInv(p)',
             label \notin {"metaDrop", "bcUnlink"} => PairMatches',
             \A q \in Procs : q # p => code'[q] = code[q],
             label = "done" => code'[p].meta = text[p] /\ code'[p].bc = text[p]
      PROVE  SoloInv'
  <2>1. pc'[p] = label
    BY <1>0, <1>3 DEF TypeOK
  <2>2. SourceInv(p)' /\ ReaderInv(p)'
    BY <1>1, <1>2, <1>3, <2>1 DEF SourceInv, ReaderInv, HasMeta, HasBitcode, Writing, Publishing
  <2> QED
    BY <1>1, <1>2, <1>3, <2>2, SoloStep
<1> USE DEF Compiled, MetaWritten, BitcodeWritten, Writing, Publishing
\* A file is written under a qualified name, and the published ones stay.
<1>4. ASSUME NEW label, NEW i \in Inodes, NEW size \in Sizes,
             file' = [file EXCEPT ![i] = Written(p, size)],
             \A k \in Kinds : final[k] # i,
             pc' = [pc EXCEPT ![p] = label], UNCHANGED <<final, code>>,
             \/ label = "metaWrite" /\ pc[p] = "metaCreate" /\ temp'[p]["crkmeta"] = i
             \/ /\ label = "bcCreate" /\ pc[p] = "metaWrite"
                /\ temp' = temp /\ temp[p]["crkmeta"] = i
             \/ /\ label = "bcWrite" /\ pc[p] = "bcCreate"
                /\ temp'[p]["crkmeta"] = temp[p]["crkmeta"] /\ temp'[p]["bc"] = i
             \/ /\ label = "metaUnlink" /\ pc[p] = "bcWrite"
                /\ temp' = temp /\ temp[p]["bc"] = i
      PROVE  SoloInv'
  <2>1. pc'[p] = label
    BY <1>0, <1>4 DEF TypeOK
  <2>2. Holds(i, p)' /\ \A j \in Inodes : Holds(j, p) => Holds(j, p)'
    BY <1>0, <1>1, <1>2, <1>4 DEF Holds, Written, TypeOK
  <2>3. (pc[p] \in {"metaWrite", "bcCreate", "bcWrite"} /\ temp[p]["crkmeta"] # NoFile) =>
          temp[p]["crkmeta"] \in Inodes /\ Holds(temp[p]["crkmeta"], p)
    BY <1>0, <1>1 DEF TypeOK, TempsByPlace, WriterInv, Kinds
  <2>4. \A j \in Inodes : j # i => file'[j] = file[j]
    BY <1>0, <1>4 DEF TypeOK
  <2>5. PairMatches'
    <3>1. \A k \in Kinds : final[k] # NoFile => file'[final[k]] = file[final[k]]
      BY <1>0, <1>4, <2>4 DEF TypeOK
    <3> QED
      BY <1>1, <1>4, <3>1 DEF PairMatches, Kinds
  <2>6. WriterInv(p)'
    <3>1. CASE label = "metaWrite" /\ pc[p] = "metaCreate" /\ temp'[p]["crkmeta"] = i
      BY <1>4, <2>1, <2>2, <3>1 DEF WriterInv, Holds
    <3>2. CASE /\ label = "bcCreate" /\ pc[p] = "metaWrite"
               /\ temp' = temp /\ temp[p]["crkmeta"] = i
      BY <1>4, <2>1, <2>2, <3>2 DEF WriterInv, Holds
    <3>3. CASE /\ label = "bcWrite" /\ pc[p] = "bcCreate"
               /\ temp'[p]["crkmeta"] = temp[p]["crkmeta"] /\ temp'[p]["bc"] = i
      BY <1>4, <2>1, <2>2, <2>3, <3>3 DEF WriterInv, Holds
    <3>4. CASE /\ label = "metaUnlink" /\ pc[p] = "bcWrite"
               /\ temp' = temp /\ temp[p]["bc"] = i
      BY <1>4, <2>1, <2>2, <2>3, <3>4 DEF WriterInv, Holds
    <3> QED
      BY <1>4, <3>1, <3>2, <3>3, <3>4
  <2> QED
    BY <1>3, <1>4, <2>5, <2>6
<1>5. CASE CreateMeta(p)
  <2>1. /\ Inodes \ Used # {} /\ NewInode \in Inodes /\ NewInode \notin Used
        /\ pc[p] = "metaCreate" /\ pc' = [pc EXCEPT ![p] = "metaWrite"] /\ UNCHANGED <<final, code>>
    BY <1>5, NewInodeIsFree DEF CreateMeta, OpenForOutput, WriteVars
  <2>2. temp[p]["crkmeta"] = NoFile
    BY <1>0, <2>1 DEF TempsByPlace, MetaGone, BeforeWriting
  <2>3. /\ temp' = [temp EXCEPT ![p]["crkmeta"] = NewInode]
        /\ file' = [file EXCEPT ![NewInode] = Written(p, "empty")]
    BY <1>5, <2>2 DEF CreateMeta, OpenForOutput
  <2>4. temp'[p]["crkmeta"] = NewInode /\ \A k \in Kinds : final[k] # NewInode
    BY <1>0, <2>1, <2>3 DEF TypeOK, Kinds, Used
  <2> QED
    BY <2>1, <2>3, <2>4, <1>4 DEF Sizes
<1>16. CASE CreateMetaFails(p)
  <2>1. /\ pc[p] = "metaCreate" /\ pc' = [pc EXCEPT ![p] = "bcCreate"]
        /\ UNCHANGED <<final, file, temp, code>>
    BY <1>16 DEF CreateMetaFails, WriteVars
  <2>2. temp[p]["crkmeta"] = NoFile /\ pc'[p] = "bcCreate"
    BY <1>0, <2>1 DEF TempsByPlace, MetaGone, BeforeWriting, TypeOK
  <2>3. PairMatches' /\ WriterInv(p)'
    BY <1>0, <1>1, <2>1, <2>2 DEF PairMatches, WriterInv
  <2> QED
    BY <2>1, <2>3, <1>3
<1>6. CASE WriteMeta(p)
  <2>1. PICK size \in Sizes : file' = [file EXCEPT ![temp[p]["crkmeta"]] = Written(p, size)]
    BY <1>6 DEF WriteMeta, Sizes
  <2>2. /\ pc[p] = "metaWrite" /\ pc' = [pc EXCEPT ![p] = "bcCreate"]
        /\ UNCHANGED <<final, code, temp>>
    BY <1>6 DEF WriteMeta, WriteVars
  <2>3. temp[p]["crkmeta"] \in Inodes /\ \A k \in Kinds : final[k] # temp[p]["crkmeta"]
    BY <1>0, <1>1, <2>2 DEF TypeOK, TempsByPlace, WriterInv, Kinds
  <2> QED
    BY <2>1, <2>2, <2>3, <1>4
<1>7. CASE CreateBitcode(p)
  <2>1. /\ Inodes \ Used # {} /\ NewInode \in Inodes /\ NewInode \notin Used
        /\ pc[p] = "bcCreate" /\ pc' = [pc EXCEPT ![p] = "bcWrite"] /\ UNCHANGED <<final, code>>
    BY <1>7, NewInodeIsFree DEF CreateBitcode, OpenForOutput, WriteVars
  <2>2. temp[p]["bc"] = NoFile
    BY <1>0, <2>1 DEF TempsByPlace, BitcodeGone
  <2>3. /\ temp' = [temp EXCEPT ![p]["bc"] = NewInode]
        /\ file' = [file EXCEPT ![NewInode] = Written(p, "empty")]
    BY <1>7, <2>2 DEF CreateBitcode, OpenForOutput
  <2>4. /\ temp'[p]["bc"] = NewInode /\ temp'[p]["crkmeta"] = temp[p]["crkmeta"]
        /\ \A k \in Kinds : final[k] # NewInode
    BY <1>0, <2>1, <2>3 DEF TypeOK, Kinds, Used
  <2> QED
    BY <2>1, <2>3, <2>4, <1>4 DEF Sizes
<1>8. CASE WriteBitcode(p)
  <2>1. /\ file' = [file EXCEPT ![temp[p]["bc"]] = Written(p, "full")]
        /\ pc[p] = "bcWrite" /\ pc' = [pc EXCEPT ![p] = "metaUnlink"]
        /\ UNCHANGED <<final, code, temp>>
    BY <1>8 DEF WriteBitcode, WriteVars
  <2>2. temp[p]["bc"] \in Inodes /\ \A k \in Kinds : final[k] # temp[p]["bc"]
    BY <1>0, <1>1, <2>1 DEF TypeOK, TempsByPlace, WriterInv, Kinds
  <2> QED
    BY <2>1, <2>2, <1>4 DEF Sizes
<1>9. CASE CreateThrows(p)
  <2>1. /\ pc[p] = "bcCreate" /\ pc' = [pc EXCEPT ![p] = "failed"] /\ UNCHANGED <<final, file, code>>
    BY <1>9 DEF CreateThrows, WriteVars
  <2>2. PairMatches' /\ WriterInv(p)'
    BY <1>0, <1>1, <2>1 DEF PairMatches, WriterInv, TypeOK
  <2> QED
    BY <2>1, <2>2, <1>3
<1>10. CASE UnlinkMeta(p)
  <2>1. /\ pc[p] = "metaUnlink" /\ pc' = [pc EXCEPT ![p] = "metaLink"]
        /\ UNCHANGED <<temp, file, code>> /\ final' = [final EXCEPT !["crkmeta"] = NoFile]
    BY <1>10 DEF UnlinkMeta, WriteVars
  <2>2. pc'[p] = "metaLink" /\ final'["crkmeta"] = NoFile
    BY <1>0, <2>1 DEF TypeOK, Kinds
  <2>3. PairMatches' /\ WriterInv(p)'
    BY <1>1, <1>2, <2>1, <2>2 DEF PairMatches, WriterInv, Holds, Kinds
  <2> QED
    BY <2>1, <2>3, <1>3
<1>11. CASE LinkMeta(p)
  <2>0. /\ pc[p] = "metaLink" /\ UNCHANGED <<file, code>>
        /\ temp[p]["crkmeta"] # NoFile => Holds(temp[p]["crkmeta"], p)
        /\ Holds(temp[p]["bc"], p)
    BY <1>1, <1>11 DEF LinkMeta, WriteVars, WriterInv
  <2>1. CASE final["crkmeta"] = NoFile /\ temp[p]["crkmeta"] # NoFile
    <3>1. /\ pc' = [pc EXCEPT ![p] = "metaDrop"] /\ temp' = temp
          /\ final' = [final EXCEPT !["crkmeta"] = temp[p]["crkmeta"]]
      BY <1>11, <2>1 DEF LinkMeta
    <3>2. pc'[p] = "metaDrop" /\ final'["crkmeta"] = temp[p]["crkmeta"]
      BY <1>0, <3>1 DEF TypeOK, Kinds
    <3>3. WriterInv(p)'
      BY <1>2, <2>0, <2>1, <3>1, <3>2 DEF WriterInv, Holds
    <3> QED
      BY <2>0, <3>1, <3>3, <1>3
  <2>2. CASE ~(final["crkmeta"] = NoFile /\ temp[p]["crkmeta"] # NoFile)
    <3>1. pc' = [pc EXCEPT ![p] = "bcDrop"] /\ final' = final
      BY <1>11, <2>2 DEF LinkMeta
    <3>2. PairMatches' /\ WriterInv(p)'
      BY <1>0, <1>1, <2>0, <3>1 DEF PairMatches, WriterInv, TypeOK
    <3> QED
      BY <2>0, <3>1, <3>2, <1>3
  <2> QED
    BY <2>1, <2>2
<1>12. CASE DropMeta(p)
  <2>1. /\ pc[p] = "metaDrop" /\ pc' = [pc EXCEPT ![p] = "bcUnlink"]
        /\ UNCHANGED <<final, file, code>> /\ temp' = [temp EXCEPT ![p]["crkmeta"] = NoFile]
    BY <1>12 DEF DropMeta, WriteVars
  <2>2. pc'[p] = "bcUnlink" /\ temp'[p]["bc"] = temp[p]["bc"]
    BY <1>0, <2>1 DEF TypeOK, Kinds
  <2>3. WriterInv(p)'
    BY <1>1, <1>2, <2>1, <2>2 DEF WriterInv, Holds
  <2> QED
    BY <2>1, <2>3, <1>3
<1>13. CASE UnlinkBitcode(p)
  <2>1. /\ pc[p] = "bcUnlink" /\ pc' = [pc EXCEPT ![p] = "bcLink"]
        /\ UNCHANGED <<temp, file, code>> /\ final' = [final EXCEPT !["bc"] = NoFile]
    BY <1>13 DEF UnlinkBitcode, WriteVars
  <2>2. pc'[p] = "bcLink" /\ final'["bc"] = NoFile /\ final'["crkmeta"] = final["crkmeta"]
    BY <1>0, <2>1 DEF TypeOK, Kinds
  <2>3. PairMatches' /\ WriterInv(p)'
    BY <1>1, <1>2, <2>1, <2>2 DEF PairMatches, WriterInv, Holds, Kinds
  <2> QED
    BY <2>1, <2>3, <1>3
<1>14. CASE LinkBitcode(p)
  <2>1. /\ pc[p] = "bcLink" /\ pc' = [pc EXCEPT ![p] = "bcDrop"] /\ UNCHANGED <<temp, file, code>>
    BY <1>14 DEF LinkBitcode, WriteVars
  <2>2. /\ final["bc"] = NoFile /\ Holds(final["crkmeta"], p) /\ Holds(temp[p]["bc"], p)
    BY <1>1, <2>1 DEF WriterInv
  <2>3. pc'[p] = "bcDrop" /\ final'["bc"] = temp[p]["bc"] /\ final'["crkmeta"] = final["crkmeta"]
    BY <1>0, <1>14, <2>1, <2>2 DEF LinkBitcode, TypeOK, Kinds
  <2>4. PairMatches' /\ WriterInv(p)'
    BY <2>1, <2>2, <2>3 DEF PairMatches, WriterInv, Holds
  <2> QED
    BY <2>1, <2>4, <1>3
<1>15. CASE DropBitcode(p)
  <2>1. /\ pc[p] = "bcDrop" /\ pc' = [pc EXCEPT ![p] = "done"] /\ UNCHANGED <<final, file>>
        /\ code' = [code EXCEPT ![p] = [meta |-> text[p], bc |-> text[p]]]
    BY <1>15 DEF DropBitcode
  <2>2. /\ pc'[p] = "done" /\ code'[p].meta = text[p] /\ code'[p].bc = text[p]
        /\ \A q \in Procs : q # p => code'[q] = code[q]
    BY <1>0, <2>1 DEF TypeOK
  <2>3. PairMatches' /\ WriterInv(p)'
    BY <1>1, <2>1, <2>2 DEF PairMatches, WriterInv
  <2> QED
    BY <2>1, <2>2, <2>3, <1>3
<1> QED
  BY <1>5, <1>6, <1>7, <1>8, <1>9, <1>10, <1>11, <1>12, <1>13, <1>14, <1>15, <1>16
  DEF Publish

\* Every step keeps the invariant when processes run one at a time.
LEMMA SoloNext ==
  ASSUME MaxRunning <= 1, ~Crashes, Edits \in {"idle", "loading"},
         TypeInv, TempInv, SoloInv, [Next]_vars
  PROVE  SoloInv'
<1>0. TypeOK
  BY DEF TypeInv
<1>1. CASE UNCHANGED vars
  BY <1>1 DEF vars, SoloInv, OnlyOneRuns, IsRunning, GoodPair, PairMatches, CodeFromThisRun,
              SourceInv, WriterInv, ReaderInv, Holds
<1>2. ASSUME NEW v \in Versions, Edit(v) PROVE SoloInv'
  <2>1. /\ source' = v /\ UNCHANGED <<final, temp, file, pc, fd, bitcode, text, digest, code>>
        /\ seen' = [p \in Procs |-> IF IsRunning(p) THEN seen[p] \cup {v} ELSE seen[p]]
    BY <1>2 DEF Edit
  <2>2. \A p \in Procs : pc[p] # "digest"
    <3>1. CASE Edits = "idle"
      BY <1>2, <3>1 DEF Edit, IsRunning, Running, Compiling
    <3>2. CASE Edits = "loading"
      BY <1>2, <3>2 DEF Edit
    <3> QED
      BY <3>1, <3>2
  <2>3. \A p \in Procs : seen[p] \subseteq seen'[p] /\ (IsRunning(p) => v \in seen'[p])
    BY <2>1
  <2>4. ASSUME NEW p \in Procs PROVE SourceInv(p)' /\ WriterInv(p)' /\ ReaderInv(p)'
    <3>1. SourceInv(p)'
      BY <2>1, <2>2, <2>3 DEF SoloInv, SourceInv, IsRunning
    <3>2. WriterInv(p)'
      BY <2>1 DEF SoloInv, WriterInv, Holds
    <3>3. ReaderInv(p)'
      BY <2>1, <2>3 DEF SoloInv, ReaderInv
    <3> QED
      BY <3>1, <3>2, <3>3
  <2>5. OnlyOneRuns' /\ GoodPair' /\ CodeFromThisRun'
    BY <2>1, <2>3 DEF SoloInv, OnlyOneRuns, IsRunning, GoodPair, PairMatches, CodeFromThisRun
  <2> QED
    BY <2>4, <2>5 DEF SoloInv
<1>3. ASSUME NEW p \in Procs, Reuse(p) PROVE SoloInv'
  <2>1. /\ pc[p] \in Ended /\ pc' = [pc EXCEPT ![p] = "new"]
        /\ UNCHANGED <<source, final, temp, file, fd>>
    BY <1>3 DEF Reuse, Goto
  <2>2. /\ pc'[p] = "new"
        /\ \A q \in Procs : q # p => /\ pc'[q] = pc[q] /\ bitcode'[q] = bitcode[q]
                                     /\ text'[q] = text[q] /\ digest'[q] = digest[q]
                                     /\ code'[q] = code[q] /\ seen'[q] = seen[q]
    BY <1>0, <1>3, <2>1 DEF Reuse, TypeOK
  <2>3. ASSUME NEW q \in Procs, q # p PROVE SourceInv(q)' /\ WriterInv(q)' /\ ReaderInv(q)'
    BY <2>1, <2>2, <2>3 DEF SoloInv, SourceInv, WriterInv, ReaderInv, IsRunning, Holds
  <2>4. SourceInv(p)' /\ WriterInv(p)' /\ ReaderInv(p)'
    BY <2>2 DEF SourceInv, WriterInv, ReaderInv, IsRunning, Compiled, HasMeta, HasBitcode,
                MetaWritten, BitcodeWritten, Running, Reading, Compiling, Writing, Publishing
  <2>5. OnlyOneRuns'
    BY <2>2 DEF SoloInv, OnlyOneRuns, IsRunning, Running, Reading, Compiling, Writing, Publishing
  <2>6. GoodPair'
    BY <2>1, <2>2 DEF SoloInv, GoodPair, PairMatches, Ended
  <2>7. CodeFromThisRun'
    BY <2>2 DEF SoloInv, CodeFromThisRun
  <2> QED
    BY <2>3, <2>4, <2>5, <2>6, <2>7 DEF SoloInv
<1>4. \A p \in Procs : ~Kill(p)
  BY DEF Kill
<1> QED
  BY <1>1, <1>2, <1>3, <1>4, SoloLoad, SoloCompile, SoloPublish DEF Next, Step

LEMMA SoloInvariant ==
  ASSUME MaxRunning <= 1, ~Crashes, Edits \in {"idle", "loading"}
  PROVE  Spec => []SoloInv
<1>1. TypeInv /\ TempInv /\ SoloInv /\ [Next]_vars => SoloInv'
  BY SoloNext
<1>2. TypeInv /\ [Next]_vars => TypeInv'
  BY TypeInvNext
<1>3. Spec => []TempInv
  BY TempInvariant
<1> QED
  BY <1>1, <1>2, <1>3, SoloInit, TypeInvInit, PTL DEF Spec

\* THEOREM.  What the digest in the meta-data is for: when processes run one at a
\* time, are not killed, and the source is not replaced between the two times it
\* is opened, every process runs meta-data and bitcode of one version, which the
\* source had during its run.  Pids may be used again and disks be full.
THEOREM RunsWhatItRead ==
  ASSUME MaxRunning <= 1, ~Crashes, Edits \in {"idle", "loading"}
  PROVE  Spec => []CodeFromThisRun
<1>1. SoloInv => CodeFromThisRun
  BY DEF SoloInv
<1> QED
  BY <1>1, SoloInvariant, PTL

\* THEOREM.  Under the same conditions the two files in the cache belong
\* together whenever no process is running, so the next one may trust the
\* bitcode because the digest of the meta-data matches.
THEOREM FilesBelongTogether ==
  ASSUME MaxRunning <= 1, ~Crashes, Edits \in {"idle", "loading"}
  PROVE  Spec => []PublishedTogether
<1>1. SoloInv => PublishedTogether
  BY DEF SoloInv, GoodPair, PairMatches, PublishedTogether, IsRunning, Running, Publishing
<1> QED
  BY <1>1, SoloInvariant, PTL
=============================================================================
