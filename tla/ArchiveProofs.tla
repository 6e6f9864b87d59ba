--------------------------- MODULE ArchiveProofs ---------------------------
(***************************************************************************)
(* Proofs about the workspace, the archive and the audit of RecordSystem:  *)
(* no file is lost or overwritten, an import is all or nothing, what it    *)
(* calls a success is one and what it calls a failure is the source's; the *)
(* audit agrees with the rebuild, and a receipt was a bundle once.         *)
(***************************************************************************)
EXTENDS RecordProofs

---------------------------------------------------------------------------
(* Files.                                                                  *)

(* A file that is written where nothing was changes nothing that was.      *)
LEMMA WithFileKeeps ==
  ASSUME NEW tree \in FileTree, NEW i, NEW p, NEW state,
         tree[i][p] = NoContent, ~Blocked(tree, i, p),
         NEW j \in Intents, NEW q \in Paths, tree[j][q] # NoContent
  PROVE  WithFile(tree, i, p, state)[j][q] = tree[j][q]
BY DEF WithFile, Blocked, FileTree

(* All that it makes besides are directories.                              *)
LEMMA WithFileMakes ==
  ASSUME NEW tree \in FileTree, NEW i \in Intents, NEW p \in Paths, NEW state,
         NEW j \in Intents, NEW q \in Paths
  PROVE  /\ WithFile(tree, i, p, state)[i][p] = state
         /\ \/ <<j, q>> = <<i, p>>
            \/ WithFile(tree, i, p, state)[j][q] \in {tree[j][q], "directory"}
BY PathsAssumption DEF WithFile, FileTree

(* What can happen to the files in one step.                               *)
Recorded ==
  \E e \in Event :
    e.type = "artifact_file_written" /\ ledger' = Append(ledger, e) /\ Arrives(e)

LeftBehind ==
  \E i \in Intents, p \in Paths, state \in Contents \union {NoContent, "partial"} :
    /\ files[i][p] = NoContent /\ ~Blocked(files, i, p)
    /\ files' = WithFile(files, i, p, state)

Damaged ==
  \E i \in Intents, p \in Paths :
    files[i][p] \in Contents /\ files' = [files EXCEPT ![i][p] = "damaged"]

LEMMA FilesStep ==
  ASSUME Typed, [Next]_vars
  PROVE  \/ Recorded
         \/ /\ UNCHANGED files
            /\ \A e \in Event : ledger' = Append(ledger, e) => e.type # "artifact_file_written"
         \/ LeftBehind /\ UNCHANGED ledger /\ Fault
         \/ Damaged /\ UNCHANGED ledger /\ Fault
<1>1. ledger \in Seq(Event) /\ files \in FileTree
  BY DEF Typed, TypeOK, LedgerTypeOK, WorkspaceTypeOK
<1>2. ASSUME NEW e \in Event, ledger' = Append(ledger, e), e.type = "artifact_file_written"
      PROVE  Recorded
  <2>1. ledger' # ledger
    BY <1>1, <1>2, Appended
  <2>2. PICK d \in Event : ledger' = Append(ledger, d) /\ Arrives(d)
    BY <2>1, LedgerStep DEF OneMore
  <2>3. d = e
    <3>1. Append(ledger, d)[Len(ledger) + 1] = d
      BY <1>1, Appended
    <3>2. Append(ledger, e)[Len(ledger) + 1] = e
      BY <1>1, Appended
    <3> QED
      BY <1>2, <2>2, <3>1, <3>2
  <2> QED
    BY <1>2, <2>2, <2>3 DEF Recorded
<1>3. CASE UNCHANGED files
  BY <1>2, <1>3
<1>4. ASSUME NEW i \in Intents, NEW p \in Paths, DamageFile(i, p)
      PROVE  Damaged /\ UNCHANGED ledger /\ Fault
  BY <1>4 DEF DamageFile, AppendFails, Damaged
<1>5. ASSUME NEW i \in Intents, NEW raw, NEW p \in Paths, NEW c \in Contents,
             WriteNormalized(i, raw, p, c), files' # files
      PROVE  Recorded \/ (LeftBehind /\ UNCHANGED ledger /\ Fault)
  <2>1. files[i][p] = NoContent /\ ~Blocked(files, i, p)
    BY <1>5 DEF WriteNormalized, RejectWrite, workspaceVars
  <2>2. CASE files' = WithFile(files, i, p, c) /\ Append1(FileEvent(i, p, c))
    <3> DEFINE e == FileEvent(i, p, c)
    <3>1. e \in Event /\ e.type = "artifact_file_written"
      BY PathsAssumption DEF FileEvent, EventAbout, Event, NoId, EventTypes
    <3>2. [e EXCEPT !.back = clock] \in Event /\ [e EXCEPT !.back = clock].type = "artifact_file_written"
      BY <3>1 DEF Typed, TypeOK, LedgerTypeOK, Event
    <3>3. ledger' = Append(ledger, [e EXCEPT !.back = clock])
      BY <2>2 DEF Append1
    <3> HIDE DEF e
    <3> QED
      BY <1>2, <3>2, <3>3
  <2>3. CASE \E state \in Contents \union {NoContent, "partial"} :
               files' = WithFile(files, i, p, state) /\ AppendFails
    BY <2>1, <2>3 DEF LeftBehind, AppendFails
  <2> QED
    BY <1>5, <2>2, <2>3 DEF WriteNormalized, RejectWrite, RecordFile, workspaceVars
<1>6. ASSUME NEW i \in Intents, NEW raw \in Spellings, NEW c \in Contents,
             WriteArtifact(i, raw, c), files' # files
      PROVE  Recorded \/ (LeftBehind /\ UNCHANGED ledger /\ Fault)
  BY <1>5, <1>6 DEF WriteArtifact, RejectWrite, workspaceVars
<1>7. RebuildArtifactProjection => UNCHANGED files
  BY DEF RebuildArtifactProjection
<1>8. WorkspaceStep \/ UNCHANGED files
  BY DEF Next, vars, workspaceVars
<1> QED
  BY <1>3, <1>4, <1>6, <1>7, <1>8 DEF WorkspaceStep

(* Nothing in either workspace is overwritten.                             *)
LEMMA FilesKept ==
  ASSUME Typed, [Next]_vars, NEW i \in Intents, NEW p \in Paths, files[i][p] # NoContent
  PROVE  files'[i][p] \in {files[i][p], "damaged"}
<1>1. files \in FileTree
  BY DEF Typed, TypeOK, WorkspaceTypeOK
<1>2. CASE Recorded
  BY <1>1, <1>2, WithFileKeeps DEF Recorded, Arrives
<1>3. CASE LeftBehind
  BY <1>1, <1>3, WithFileKeeps DEF LeftBehind
<1>4. CASE Damaged
  BY <1>1, <1>4 DEF Damaged, FileTree
<1> QED
  BY <1>2, <1>3, <1>4, FilesStep

LEMMA TargetFilesStep ==
  ASSUME [Next]_vars
  PROVE  \/ UNCHANGED targetFiles
         \/ /\ import.step = "restore"
            /\ \E i, p, state :
                 /\ targetFiles[i][p] = NoContent /\ ~Blocked(targetFiles, i, p)
                 /\ targetFiles' = WithFile(targetFiles, i, p, state)
<1>1. ASSUME NEW k, RestoreFile(k), targetFiles' # targetFiles
      PROVE  /\ import.step = "restore"
             /\ \E i, p, state :
                  /\ targetFiles[i][p] = NoContent /\ ~Blocked(targetFiles, i, p)
                  /\ targetFiles' = WithFile(targetFiles, i, p, state)
  BY <1>1 DEF RestoreFile
<1>2. ASSUME ImportStops, targetFiles' # targetFiles
      PROVE  /\ import.step = "restore"
             /\ \E i, p, state :
                  /\ targetFiles[i][p] = NoContent /\ ~Blocked(targetFiles, i, p)
                  /\ targetFiles' = WithFile(targetFiles, i, p, state)
  BY <1>2 DEF ImportStops
<1>3. UNCHANGED archiveVars => UNCHANGED targetFiles
  BY DEF archiveVars
<1>4. ExportArchive \/ DamageArchive \/ RefuseImport \/ ImportLedgerEvents \/ FinishImport
        => UNCHANGED targetFiles
  BY DEF ExportArchive, DamageArchive, RefuseImport, ImportLedgerEvents, FinishImport
<1> QED
  BY <1>1, <1>2, <1>3, <1>4 DEF Next, ArchiveStep, vars

LEMMA TargetFilesKept ==
  ASSUME Typed, [Next]_vars, NEW i \in Intents, NEW p \in Paths, targetFiles[i][p] # NoContent
  PROVE  targetFiles'[i][p] = targetFiles[i][p]
<1>1. targetFiles \in FileTree
  BY DEF Typed, TypeOK, ArchiveTypeOK
<1> QED
  BY <1>1, TargetFilesStep, WithFileKeeps

(* No write and no import replaces a file, of whoever's.                   *)
THEOREM NothingOverwritten == Spec => NeverOverwritten
<1>1. Typed /\ [Next]_vars =>
        [ \A i \in Intents, p \in Paths :
            /\ files[i][p] # NoContent => files'[i][p] \in {files[i][p], "damaged"}
            /\ targetFiles[i][p] # NoContent => targetFiles'[i][p] = targetFiles[i][p] ]_vars
  BY FilesKept, TargetFilesKept
<1> QED
  BY <1>1, AlwaysTyped, PTL DEF Spec, NeverOverwritten

---------------------------------------------------------------------------
(* The ledger and the files.                                               *)

Written == OfType(ledger, {"artifact_file_written"})

Orphans ==
  {f \in Intents \X Paths :
     /\ files[f[1]][f[2]] \in Contents \union {"partial"}
     /\ \A k \in Written : <<ledger[k].intent, ledger[k].path>> # f}

Accounts ==
  /\ FilesAreAccountedFor
  /\ IsFiniteSet(Orphans)
  /\ \A k \in Written :
       ledger[k].intent \in Intents /\ ledger[k].path \in Paths /\ ledger[k].content \in Contents

(* FilesAreAccountedFor in those terms.                                    *)
LEMMA AccountsParts ==
  FilesAreAccountedFor <=>
    /\ \A k \in Written :
         files[ledger[k].intent][ledger[k].path] \in {ledger[k].content, "damaged"}
    /\ \A j, k \in Written :
         ledger[j].intent = ledger[k].intent /\ ledger[j].path = ledger[k].path => j = k
    /\ Cardinality(Orphans) <= faults
BY DEF FilesAreAccountedFor, Orphans, Written

LEMMA AccountsInit == Init => Accounts
<1> SUFFICES ASSUME Init PROVE Accounts
  OBVIOUS
<1>1. Written = {} /\ faults = 0
  BY DEF Init, LedgerInit, OfType, Written
<1>2. \A i \in Intents, p \in Paths : files[i][p] = NoContent
  BY DEF Init, WorkspaceInit, EmptyTree
<1>3. Orphans = {}
  BY <1>2, NoContentAssumption DEF Orphans
<1>4. IsFiniteSet(Orphans) /\ Cardinality(Orphans) = 0
  BY <1>3, FS_EmptySet
<1> QED
  BY <1>1, <1>4, AccountsParts DEF Accounts

(* A file that is recorded is there, and not a directory.                  *)
LEMMA RecordedIsThere ==
  ASSUME Accounts, NEW k \in Written
  PROVE  files[ledger[k].intent][ledger[k].path] \notin {NoContent, "directory"}
BY AccountsParts, NoContentAssumption DEF Accounts

(* A step after which at most one file more is orphaned.                   *)
LEMMA OrphansBounded ==
  ASSUME Accounts, Typed, NEW f, Orphans' \subseteq Orphans \union {f},
         faults' \in Nat, faults < faults'
  PROVE  IsFiniteSet(Orphans') /\ Cardinality(Orphans') <= faults'
<1>1. IsFiniteSet(Orphans) /\ Cardinality(Orphans) <= faults /\ faults \in Nat
  BY AccountsParts DEF Accounts, Typed, TypeOK, LedgerTypeOK
<1>2. /\ IsFiniteSet(Orphans \union {f})
      /\ Cardinality(Orphans \union {f}) <= Cardinality(Orphans) + 1
      /\ Cardinality(Orphans) \in Nat /\ Cardinality(Orphans \union {f}) \in Nat
  <2> DEFINE few == Orphans
             more == Orphans \union {f}
  <2>1. IsFiniteSet(few) /\ Cardinality(few) \in Nat
    BY <1>1, FS_CardinalityType
  <2> HIDE DEF few
  <2>2. /\ IsFiniteSet(few \union {f})
        /\ Cardinality(few \union {f}) = IF f \in few THEN Cardinality(few) ELSE Cardinality(few) + 1
    BY <2>1, FS_AddElement
  <2>3. Cardinality(few \union {f}) \in Nat /\ Cardinality(few \union {f}) <= Cardinality(few) + 1
    BY <2>1, <2>2
  <2> QED
    BY <2>1, <2>2, <2>3 DEF few
<1>3. /\ IsFiniteSet(Orphans') /\ Cardinality(Orphans') \in Nat
      /\ Cardinality(Orphans') <= Cardinality(Orphans \union {f})
  BY <1>2, FS_Subset, FS_CardinalityType
<1> QED
  BY <1>1, <1>2, <1>3

LEMMA OrphansFewer ==
  ASSUME Accounts, Typed, Orphans' \subseteq Orphans, faults' \in Nat, faults <= faults'
  PROVE  IsFiniteSet(Orphans') /\ Cardinality(Orphans') <= faults'
<1>1. IsFiniteSet(Orphans) /\ Cardinality(Orphans) <= faults /\ faults \in Nat
  BY AccountsParts DEF Accounts, Typed, TypeOK, LedgerTypeOK
<1>2. /\ IsFiniteSet(Orphans') /\ Cardinality(Orphans') \in Nat /\ Cardinality(Orphans) \in Nat
      /\ Cardinality(Orphans') <= Cardinality(Orphans)
  BY <1>1, FS_Subset, FS_CardinalityType
<1> QED
  BY <1>1, <1>2

LEMMA AccountsRecorded ==
  ASSUME Typed, Accounts, Rest, Recorded
  PROVE  Accounts'
<1>1. ledger \in Seq(Event) /\ files \in FileTree
  BY DEF Typed, TypeOK, LedgerTypeOK, WorkspaceTypeOK
<1>2. PICK e \in Event :
        e.type = "artifact_file_written" /\ ledger' = Append(ledger, e) /\ Arrives(e)
  BY DEF Recorded
<1> DEFINE n == Len(ledger) + 1
           i == e.intent
           p == e.path
           c == e.content
<1>3. /\ i \in Intents /\ p \in Paths /\ c \in Contents
      /\ files[i][p] = NoContent /\ ~Blocked(files, i, p)
      /\ files' = WithFile(files, i, p, c)
  BY <1>2 DEF Arrives
<1>4. /\ DOMAIN ledger' = DOMAIN ledger \union {n} /\ n \notin DOMAIN ledger
      /\ \A k \in DOMAIN ledger : ledger'[k] = ledger[k]
      /\ ledger'[n] = e
  BY <1>1, <1>2, Appended
<1>5. Written' = Written \union {n} /\ \A k \in Written : ledger'[k] = ledger[k]
  BY <1>2, <1>4 DEF Written, OfType
<1> HIDE DEF n
<1>6. \A k \in Written :
        /\ ledger[k].intent \in Intents /\ ledger[k].path \in Paths /\ ledger[k].content \in Contents
        /\ files[ledger[k].intent][ledger[k].path] \in {ledger[k].content, "damaged"}
        /\ files[ledger[k].intent][ledger[k].path] # NoContent
  BY AccountsParts, RecordedIsThere DEF Accounts
<1>7. files'[i][p] = c
  BY <1>1, <1>3, WithFileMakes
<1>8. \A k \in Written' :
        files'[ledger'[k].intent][ledger'[k].path] \in {ledger'[k].content, "damaged"}
  <2>1. \A k \in Written :
          files'[ledger[k].intent][ledger[k].path] = files[ledger[k].intent][ledger[k].path]
    BY <1>1, <1>3, <1>6, WithFileKeeps
  <2> QED
    BY <1>4, <1>5, <1>6, <1>7, <2>1
<1>9. \A j, k \in Written' :
        ledger'[j].intent = ledger'[k].intent /\ ledger'[j].path = ledger'[k].path => j = k
  <2>1. \A k \in Written : ~(ledger[k].intent = i /\ ledger[k].path = p)
    BY <1>3, <1>6
  <2>2. \A j, k \in Written :
          ledger[j].intent = ledger[k].intent /\ ledger[j].path = ledger[k].path => j = k
    BY AccountsParts DEF Accounts
  <2> QED
    BY <1>4, <1>5, <2>1, <2>2
<1>10. Orphans' \subseteq Orphans
  <2> SUFFICES ASSUME NEW f \in Orphans' PROVE f \in Orphans
    OBVIOUS
  <2>1. /\ f \in Intents \X Paths
        /\ files'[f[1]][f[2]] \in Contents \union {"partial"}
        /\ \A k \in Written' : <<ledger'[k].intent, ledger'[k].path>> # f
    BY DEF Orphans
  <2>2. f = <<f[1], f[2]>> /\ f[1] \in Intents /\ f[2] \in Paths
    BY <2>1
  <2>3. <<f[1], f[2]>> # <<i, p>>
    BY <1>4, <1>5, <2>1, <2>2
  <2>4. files'[f[1]][f[2]] \in {files[f[1]][f[2]], "directory"}
    BY <1>1, <1>3, <2>2, <2>3, WithFileMakes
  <2>5. files[f[1]][f[2]] \in Contents \union {"partial"}
    BY <2>1, <2>4, NoContentAssumption
  <2>6. \A k \in Written : <<ledger[k].intent, ledger[k].path>> # f
    BY <1>5, <2>1
  <2> QED
    BY <2>1, <2>5, <2>6 DEF Orphans
<1>11. IsFiniteSet(Orphans') /\ Cardinality(Orphans') <= faults'
  BY <1>10, OrphansFewer DEF Rest
<1>12. \A k \in Written' :
         ledger'[k].intent \in Intents /\ ledger'[k].path \in Paths /\ ledger'[k].content \in Contents
  BY <1>3, <1>4, <1>5, <1>6
<1> QED
  BY <1>8, <1>9, <1>11, <1>12 DEF Accounts, FilesAreAccountedFor, Orphans, Written

LEMMA AccountsLeftBehind ==
  ASSUME Typed, Accounts, Rest, LeftBehind, UNCHANGED ledger, Fault
  PROVE  Accounts'
<1>1. files \in FileTree /\ Written' = Written
  BY DEF Typed, TypeOK, WorkspaceTypeOK, Written
<1>2. PICK i \in Intents, p \in Paths, state \in Contents \union {NoContent, "partial"} :
        /\ files[i][p] = NoContent /\ ~Blocked(files, i, p)
        /\ files' = WithFile(files, i, p, state)
  BY DEF LeftBehind
<1>3. \A k \in Written :
        /\ ledger[k].intent \in Intents /\ ledger[k].path \in Paths
        /\ files[ledger[k].intent][ledger[k].path] \in {ledger[k].content, "damaged"}
        /\ files[ledger[k].intent][ledger[k].path] # NoContent
  BY AccountsParts, RecordedIsThere DEF Accounts
<1>4. \A k \in Written :
        files'[ledger[k].intent][ledger[k].path] = files[ledger[k].intent][ledger[k].path]
  BY <1>1, <1>2, <1>3, WithFileKeeps
<1>5. Orphans' \subseteq Orphans \union {<<i, p>>}
  <2> SUFFICES ASSUME NEW f \in Orphans', f # <<i, p>> PROVE f \in Orphans
    OBVIOUS
  <2>1. /\ f \in Intents \X Paths
        /\ files'[f[1]][f[2]] \in Contents \union {"partial"}
        /\ \A k \in Written : <<ledger[k].intent, ledger[k].path>> # f
    BY <1>1 DEF Orphans
  <2>2. f = <<f[1], f[2]>> /\ f[1] \in Intents /\ f[2] \in Paths
    BY <2>1
  <2>3. <<f[1], f[2]>> # <<i, p>>
    BY <2>2
  <2>4. files'[f[1]][f[2]] \in {files[f[1]][f[2]], "directory"}
    BY <1>1, <1>2, <2>2, <2>3, WithFileMakes
  <2>5. files[f[1]][f[2]] \in Contents \union {"partial"}
    BY <2>1, <2>4, NoContentAssumption
  <2> QED
    BY <2>1, <2>5 DEF Orphans
<1>6. IsFiniteSet(Orphans') /\ Cardinality(Orphans') <= faults'
  <2>1. faults' \in Nat /\ faults < faults'
    BY DEF Rest, Fault, Typed, TypeOK, LedgerTypeOK
  <2> QED
    BY <1>5, <2>1, OrphansBounded
<1> QED
  BY <1>1, <1>3, <1>4, <1>6, AccountsParts DEF Accounts, FilesAreAccountedFor, Orphans, Written

LEMMA AccountsDamaged ==
  ASSUME Typed, Accounts, Rest, Damaged, UNCHANGED ledger
  PROVE  Accounts'
<1>1. files \in FileTree /\ Written' = Written
  BY DEF Typed, TypeOK, WorkspaceTypeOK, Written
<1>2. PICK i \in Intents, p \in Paths :
        files[i][p] \in Contents /\ files' = [files EXCEPT ![i][p] = "damaged"]
  BY DEF Damaged
<1>3. \A j \in Intents, q \in Paths : files'[j][q] \in {files[j][q], "damaged"}
  BY <1>1, <1>2 DEF FileTree
<1>4. \A k \in Written :
        /\ ledger[k].intent \in Intents /\ ledger[k].path \in Paths
        /\ files[ledger[k].intent][ledger[k].path] \in {ledger[k].content, "damaged"}
  BY AccountsParts DEF Accounts
<1>5. Orphans' \subseteq Orphans
  <2> SUFFICES ASSUME NEW f \in Orphans' PROVE f \in Orphans
    OBVIOUS
  <2>1. /\ f \in Intents \X Paths
        /\ files'[f[1]][f[2]] \in Contents \union {"partial"}
        /\ \A k \in Written : <<ledger[k].intent, ledger[k].path>> # f
    BY <1>1 DEF Orphans
  <2>2. f[1] \in Intents /\ f[2] \in Paths
    BY <2>1
  <2>3. files[f[1]][f[2]] \in Contents \union {"partial"}
    BY <1>3, <2>1, <2>2, NoContentAssumption
  <2> QED
    BY <2>1, <2>3 DEF Orphans
<1>6. IsFiniteSet(Orphans') /\ Cardinality(Orphans') <= faults'
  BY <1>5, OrphansFewer DEF Rest
<1>7. \A k \in Written :
        files'[ledger[k].intent][ledger[k].path] \in {ledger[k].content, "damaged"}
  BY <1>3, <1>4
<1> QED
  BY <1>1, <1>6, <1>7, AccountsParts DEF Accounts, FilesAreAccountedFor, Orphans, Written

LEMMA AccountsUntouched ==
  ASSUME Typed, Accounts, Rest, UNCHANGED files, UNCHANGED ledger \/ OneMore,
         \A e \in Event : ledger' = Append(ledger, e) => e.type # "artifact_file_written"
  PROVE  Accounts'
<1>1. Written' = Written /\ \A k \in Written : ledger'[k] = ledger[k]
  <2>1. CASE UNCHANGED ledger
    BY <2>1 DEF Written
  <2>2. CASE OneMore
    <3>1. PICK e \in Event : ledger' = Append(ledger, e)
      BY <2>2 DEF OneMore
    <3>2. e.type # "artifact_file_written"
      BY <3>1
    <3>3. /\ DOMAIN ledger' = DOMAIN ledger \union {Len(ledger) + 1}
          /\ \A k \in DOMAIN ledger : ledger'[k] = ledger[k]
          /\ ledger'[Len(ledger) + 1] = e
      BY <3>1, Appended DEF Typed, TypeOK, LedgerTypeOK
    <3> QED
      BY <3>2, <3>3 DEF Written, OfType
  <2> QED
    BY <2>1, <2>2
<1>2. Orphans' = Orphans
  BY <1>1 DEF Orphans
<1>3. IsFiniteSet(Orphans') /\ Cardinality(Orphans') <= faults'
  BY <1>2, OrphansFewer DEF Rest
<1> QED
  BY <1>1, <1>3, AccountsParts DEF Accounts, FilesAreAccountedFor, Orphans, Written

LEMMA AccountsNext ==
  ASSUME Typed, Accounts, [Next]_vars
  PROVE  Accounts'
<1>1. Rest
  BY RestOfLedgerTyped DEF Typed, TypeOK
<1>2. UNCHANGED ledger \/ OneMore
  BY LedgerStep
<1> QED
  BY <1>1, <1>2, FilesStep, AccountsRecorded, AccountsLeftBehind, AccountsDamaged, AccountsUntouched

LEMMA AlwaysAccounts == Spec => []Accounts
<1>1. Typed /\ Accounts /\ [Next]_vars => Accounts'
  BY AccountsNext
<1> QED
  BY <1>1, AccountsInit, AlwaysTyped, PTL DEF Spec

(* Every recorded artifact has its file, no path is recorded twice, and    *)
(* there are never more files without an event than there were faults.     *)
THEOREM FilesAccounted == Spec => []FilesAreAccountedFor
<1>1. Accounts => FilesAreAccountedFor
  BY DEF Accounts
<1> QED
  BY <1>1, AlwaysAccounts, PTL

---------------------------------------------------------------------------
(* The archive and the import.                                             *)

LEMMA PrefixStays ==
  ASSUME NEW L \in Seq(Event), NEW e \in Event, NEW n \in 0 .. Len(L)
  PROVE  SubSeq(Append(L, e), 1, n) = SubSeq(L, 1, n)
<1> DEFINE longer == Append(L, e)
<1>1. /\ longer \in Seq(Event) /\ Len(longer) = Len(L) + 1
      /\ DOMAIN longer = DOMAIN L \union {Len(L) + 1}
      /\ \A k \in DOMAIN L : longer[k] = L[k]
  BY Appended
<1>2. Len(L) \in Nat /\ DOMAIN L = 1 .. Len(L)
  BY Positions
<1>3. n \in 0 .. Len(L) /\ n \in 0 .. Len(longer)
  BY <1>1, <1>2
<1> HIDE DEF longer
<1>4. SubSeq(longer, 1, n) = Restrict(longer, 1 .. n)
  BY <1>1, <1>3, SubSeqRestrict
<1>5. SubSeq(L, 1, n) = Restrict(L, 1 .. n)
  BY <1>3, SubSeqRestrict
<1>6. Restrict(longer, 1 .. n) = Restrict(L, 1 .. n)
  BY <1>1, <1>2 DEF Restrict
<1>7. SubSeq(longer, 1, n) = SubSeq(L, 1, n)
  BY <1>1, <1>4, <1>5, <1>6
<1> QED
  BY <1>7 DEF longer

HistoryOfSource(L) == L # <<>> /\ \E n \in DOMAIN ledger : L = SubSeq(ledger, 1, n)

FilesMatch ==
  \A k \in OfType(target, {"artifact_file_written"}) :
    targetFiles[target[k].intent][target[k].path] = target[k].content

Imports ==
  /\ archive.stage # "manifest" => target = <<>>
  /\ archive.stage = "manifest" => HistoryOfSource(archive.events)
  /\ target \in {<<>>, archive.events}
  /\ import.step = "restore" => target # <<>> /\ import.result # "done"
  /\ import.result = "done" => target # <<>> /\ FilesMatch

LEMMA ImportsInit == Init => Imports
BY DEF Init, ArchiveInit, NoArchive, NotImporting, Imports

LEMMA HistoryStays ==
  ASSUME Typed, [Next]_vars, NEW L, HistoryOfSource(L)
  PROVE  HistoryOfSource(L)'
<1>1. ledger \in Seq(Event)
  BY DEF Typed, TypeOK, LedgerTypeOK
<1>2. PICK n \in DOMAIN ledger : L = SubSeq(ledger, 1, n)
  BY DEF HistoryOfSource
<1>3. n \in DOMAIN ledger' /\ SubSeq(ledger', 1, n) = SubSeq(ledger, 1, n)
  <2>1. n \in 0 .. Len(ledger)
    BY <1>1, Positions
  <2>2. CASE UNCHANGED ledger
    BY <2>2
  <2>3. ASSUME NEW e \in Event, ledger' = Append(ledger, e)
        PROVE  n \in DOMAIN ledger' /\ SubSeq(ledger', 1, n) = SubSeq(ledger, 1, n)
    BY <1>1, <2>1, <2>3, PrefixStays, Appended
  <2> QED
    BY <2>2, <2>3, LedgerStep DEF OneMore
<1> QED
  BY <1>2, <1>3 DEF HistoryOfSource

LEMMA ImportsNext ==
  ASSUME Typed, Imports, [Next]_vars
  PROVE  Imports'
<1>1. /\ ledger \in Seq(Event)
      /\ archive \in [stage : {"none", "remains", "manifest"}, events : Seq(Event),
                      files : FileTree, intact : BOOLEAN]
      /\ import \in [step : {"idle", "restore"}, todo : SUBSET Nat,
                     result : {"none", "refused", "failed", "AUDIT_FAILED", "done"}]
  BY DEF Typed, TypeOK, LedgerTypeOK, ArchiveTypeOK
<1>2. \A L : HistoryOfSource(L) => HistoryOfSource(L)'
  BY HistoryStays
<1>3. CASE UNCHANGED archiveVars
  BY <1>2, <1>3 DEF archiveVars, Imports, FilesMatch
<1>4. \A result : Ended(result).step = "idle" /\ Ended(result).result = result
  BY DEF Ended, NotImporting
<1>5. CASE ExportArchive
  <2>1. target = <<>> /\ UNCHANGED <<target, targetFiles, import>> /\ UNCHANGED ledger
    BY <1>5 DEF ExportArchive, Imports, ExportFault, ledgerVars
  <2>2. HistoryOfSource(ledger)
    <3>1. ledger # <<>>
      BY <1>5 DEF ExportArchive
    <3>2. Len(ledger) \in DOMAIN ledger /\ SubSeq(ledger, 1, Len(ledger)) = ledger
      BY <1>1, <3>1, EmptySeq, SubSeqFull, Positions
    <3> QED
      BY <3>1, <3>2 DEF HistoryOfSource
  <2>3. (archive'.stage = "manifest" /\ archive'.events = ledger) \/ archive'.stage = "remains"
    BY <1>5 DEF ExportArchive, FullArchive, Remains, NoArchive
  <2>4. archive'.stage = "manifest" => HistoryOfSource(archive.events)'
    BY <2>1, <2>2, <2>3 DEF HistoryOfSource
  <2> QED
    BY <2>1, <2>4 DEF Imports, FilesMatch
<1>6. CASE DamageArchive
  <2>1. archive'.stage = archive.stage /\ archive'.events = archive.events
    BY <1>1, <1>6 DEF DamageArchive
  <2>2. UNCHANGED <<target, targetFiles, import>>
    BY <1>6 DEF DamageArchive
  <2> QED
    BY <1>2, <2>1, <2>2 DEF Imports, FilesMatch
<1>7. CASE RefuseImport
  BY <1>2, <1>4, <1>7 DEF RefuseImport, Imports, FilesMatch
<1>8. CASE ImportLedgerEvents
  <2>1. archive.stage = "manifest" /\ archive.events # <<>> /\ UNCHANGED archive
    BY <1>8 DEF ImportLedgerEvents, Importable, Imports, HistoryOfSource
  <2>2. \/ target' = archive.events /\ import'.result = "none"
        \/ target' = target /\ import' = Ended("failed")
    BY <1>8 DEF ImportLedgerEvents, NotImporting
  <2> QED
    BY <1>2, <1>4, <2>1, <2>2 DEF Imports
<1>9. CASE FinishImport
  <2>1. import.step = "restore" /\ UNCHANGED <<archive, target, targetFiles>>
    BY <1>9 DEF FinishImport
  <2>2. import'.step = "idle"
    BY <1>4, <1>9 DEF FinishImport
  <2>3. import'.result = "done" => FilesMatch
    <3>1. import'.result = "done" => CheckArtifactFiles(target, targetFiles) = {}
      BY <1>4, <1>9 DEF FinishImport, ReplayErrors
    <3> QED
      BY <3>1 DEF CheckArtifactFiles, FilesMatch
  <2> QED
    BY <1>2, <2>1, <2>2, <2>3 DEF Imports, FilesMatch
<1>10. CASE ImportStops
  BY <1>2, <1>4, <1>10 DEF ImportStops, Imports
<1>11. ASSUME NEW k, RestoreFile(k)
       PROVE  Imports'
  <2>1. import.step = "restore" /\ UNCHANGED <<archive, target>>
    BY <1>11 DEF RestoreFile
  <2>2. import'.result # "done"
    <3>1. import' = [import EXCEPT !.todo = @ \ {k}] \/ import' = Ended("failed")
      BY <1>11 DEF RestoreFile
    <3> QED
      BY <1>1, <1>4, <2>1, <3>1 DEF Imports
  <2> QED
    BY <1>2, <2>1, <2>2 DEF Imports
<1> QED
  BY <1>3, <1>5, <1>6, <1>7, <1>8, <1>9, <1>10, <1>11 DEF Next, ArchiveStep, vars

LEMMA AlwaysImports == Spec => []Imports
<1>1. Typed /\ Imports /\ [Next]_vars => Imports'
  BY ImportsNext
<1> QED
  BY <1>1, ImportsInit, AlwaysTyped, PTL DEF Spec

(* An import brings the whole ledger of the archive or none of it.         *)
THEOREM AllOrNothing == Spec => []TargetAllOrNothing
<1>1. Imports => TargetAllOrNothing
  BY DEF Imports, TargetAllOrNothing
<1> QED
  BY <1>1, AlwaysImports, PTL

(* What an import calls a success is one: a history of the source, and     *)
(* every file which that history records, bit for bit.                     *)
THEOREM FaithfulImport == Spec => []ImportIsFaithful
<1>1. Imports => ImportIsFaithful
  BY DEF Imports, HistoryOfSource, FilesMatch, ImportIsFaithful
<1> QED
  BY <1>1, AlwaysImports, PTL

---------------------------------------------------------------------------
(* What the auditor expects of the registry's table.                       *)

FirstTo(S, k) ==
  IF {m \in S : m <= k} = {} THEN NoId ELSE FirstOf({m \in S : m <= k})

LEMMA FirstToStep ==
  ASSUME NEW L \in Seq(Event), NEW k \in 1 .. Len(L), NEW S \in SUBSET DOMAIN L
  PROVE  /\ FirstTo(S, 0) = NoId
         /\ FirstTo(S, Len(L)) = IF S = {} THEN NoId ELSE FirstOf(S)
         /\ FirstTo(S, k) = IF k \in S /\ FirstTo(S, k - 1) = NoId THEN k ELSE FirstTo(S, k - 1)
<1> DEFINE now == {m \in S : m <= k}
           before == {m \in S : m <= k - 1}
<1>1. /\ now = IF k \in S THEN before \union {k} ELSE before
      /\ before \in SUBSET (1 .. k - 1) /\ k \in Nat \ {0}
      /\ {m \in S : m <= 0} = {} /\ {m \in S : m <= Len(L)} = S
  BY UpTo
<1>2. FirstTo(S, k) = (IF now = {} THEN NoId ELSE FirstOf(now))
      /\ FirstTo(S, k - 1) = (IF before = {} THEN NoId ELSE FirstOf(before))
      /\ FirstTo(S, 0) = NoId /\ FirstTo(S, Len(L)) = (IF S = {} THEN NoId ELSE FirstOf(S))
  BY <1>1 DEF FirstTo
<1> HIDE DEF now, before
<1>3. FirstOf(before \union {k}) = IF before = {} THEN k ELSE FirstOf(before)
  BY <1>1, FirstOfMore
<1>4. before # {} => FirstOf(before) # NoId
  <2>1. \A m \in before : m \in Nat /\ m # 0
    BY <1>1
  <2>2. before # {} => FirstOf(before) \in before
    BY <1>1, <2>1, FirstIsLeast
  <2> QED
    BY <2>1, <2>2 DEF NoId
<1> QED
  BY <1>1, <1>2, <1>3, <1>4

LEMMA WorkersExpected ==
  ASSUME NEW L \in Seq(Event), Sound(L)
  PROVE  ExpectedWorkers(L) = RebuiltWorkerTable(L)
<1> DEFINE n == Len(L)
           start == [x \in Names |-> NoId]
           step(was, k) ==
             IF L[k].type = "worker_registered" /\ was[L[k].name] = NoId
             THEN [was EXCEPT ![L[k].name] = k] ELSE was
           walk == CHOOSE f : f = [k \in 0 .. n |-> IF k = 0 THEN start ELSE step(f[k - 1], k)]
           rows(k) == [x \in Names |-> FirstTo(Registrations(L, x), k)]
           closed == [k \in 0 .. n |-> rows(k)]
<1>1. n \in Nat /\ DOMAIN L = 1 .. n
  BY Positions
<1>2. \A x : Registrations(L, x) \in SUBSET DOMAIN L
  BY DEF Registrations, OfType
<1>3. rows(0) = start /\ rows(n) = RebuiltWorkerTable(L)
  <2>1. \A x : {m \in Registrations(L, x) : m <= 0} = {}
               /\ {m \in Registrations(L, x) : m <= n} = Registrations(L, x)
    <3> SUFFICES ASSUME NEW x
                 PROVE  {m \in Registrations(L, x) : m <= 0} = {}
                        /\ {m \in Registrations(L, x) : m <= n} = Registrations(L, x)
      OBVIOUS
    <3>1. \A m \in Registrations(L, x) : m \in 1 .. n
      BY <1>1, <1>2
    <3>2. \A m \in 1 .. n : ~(m <= 0) /\ m <= n
      BY <1>1
    <3> HIDE DEF n
    <3> QED
      BY <3>1, <3>2
  <2> QED
    BY <2>1 DEF FirstTo, RebuiltWorkerTable
<1>4. ASSUME NEW k \in 1 .. n PROVE rows(k) = step(rows(k - 1), k)
  <2>1. ASSUME NEW x
        PROVE FirstTo(Registrations(L, x), k)
          = IF L[k].type = "worker_registered" /\ L[k].name = x
               /\ FirstTo(Registrations(L, x), k - 1) = NoId
            THEN k ELSE FirstTo(Registrations(L, x), k - 1)
    <3>1. k \in Registrations(L, x) <=> L[k].type = "worker_registered" /\ L[k].name = x
      BY <1>1 DEF Registrations, OfType
    <3> QED
      BY <1>2, <3>1, FirstToStep
  <2>2. CASE L[k].type # "worker_registered"
    BY <2>1, <2>2
  <2>3. CASE L[k].type = "worker_registered"
    <3>1. L[k].name \in Names
      BY <1>1, <2>3 DEF Sound, OfType
    <3> QED
      BY <2>1, <2>3, <3>1
  <2> QED
    BY <2>2, <2>3
<1>5. closed = [k \in 0 .. n |-> IF k = 0 THEN start ELSE step(closed[k - 1], k)]
  <2> HIDE DEF start, step, rows, n
  <2>1. \A k \in 1 .. n : k - 1 \in 0 .. n
    BY <1>1
  <2>2. \A k \in 0 .. n : k = 0 \/ k \in 1 .. n
    BY <1>1
  <2> QED
    BY <1>3, <1>4, <2>1, <2>2
<1>6. walk = [k \in 0 .. n |-> IF k = 0 THEN start ELSE step(walk[k - 1], k)]
  <2> HIDE DEF start, step, closed, n
  <2> QED
    BY <1>5
<1>7. walk[n] = closed[n]
  <2> HIDE DEF start, step, closed, n, walk
  <2>1. walk[0] = closed[0] /\ \A k \in 1 .. n : walk[k - 1] = closed[k - 1] => walk[k] = closed[k]
    BY <1>1, <1>5, <1>6
  <2> QED
    BY <1>1, <2>1, WalksAgree
<1>8. ExpectedWorkers(L) = walk[n]
  BY DEF ExpectedWorkers
<1> HIDE DEF walk, n
<1> QED
  BY <1>1, <1>3, <1>7, <1>8

(* What the auditor's one walk does with event k.                          *)
WalkSessions(L, was, k) ==
  LET known == {row \in was.sessions : row.session = L[k].id}
      mine == {row \in was.members : row.session = L[k].id}
  IN  CASE L[k].type = "session_created" /\ known = {} ->
             [was EXCEPT !.sessions = @ \union
                {[session |-> L[k].id, count |-> 0, event |-> k]}]
        [] /\ L[k].type = "session_intent_added" /\ known # {}
           /\ \A row \in mine : row.intent # L[k].intent ->
             LET order == (CHOOSE row \in known : TRUE).count + 1
             IN  [sessions |-> (was.sessions \ known) \union
                    {[session |-> L[k].id, count |-> order, event |-> k]},
                  members |-> was.members \union
                    {[session |-> L[k].id, intent |-> L[k].intent,
                      order |-> order, event |-> k]}]
        [] OTHER -> was

TablesTo(L, k) == [sessions |-> SessionsTo(L, k), members |-> MembersTo(L, k)]

LEMMA WalkCreated ==
  ASSUME NEW L, NEW k, NEW S, NEW M,
         L[k].type = "session_created", {row \in S : row.session = L[k].id} = {}
  PROVE  WalkSessions(L, [sessions |-> S, members |-> M], k) =
           [sessions |-> S \union {[session |-> L[k].id, count |-> 0, event |-> k]}, members |-> M]
<1> DEFINE was == [sessions |-> S, members |-> M]
<1>1. was.sessions = S
  OBVIOUS
<1>2. WalkSessions(L, was, k) =
        [was EXCEPT !.sessions = @ \union {[session |-> L[k].id, count |-> 0, event |-> k]}]
  <2> HIDE DEF was
  <2> QED
    BY <1>1 DEF WalkSessions
<1> QED
  BY <1>2

LEMMA WalkAdded ==
  ASSUME NEW L, NEW k, NEW S, NEW M, NEW old,
         L[k].type = "session_intent_added", {row \in S : row.session = L[k].id} = {old},
         \A row \in M : row.session = L[k].id => row.intent # L[k].intent
  PROVE  WalkSessions(L, [sessions |-> S, members |-> M], k) =
           [sessions |-> (S \ {old}) \union
              {[session |-> L[k].id, count |-> old.count + 1, event |-> k]},
            members |-> M \union
              {[session |-> L[k].id, intent |-> L[k].intent, order |-> old.count + 1, event |-> k]}]
<1> DEFINE was == [sessions |-> S, members |-> M]
           known == {row \in was.sessions : row.session = L[k].id}
           mine == {row \in was.members : row.session = L[k].id}
<1>1. was.sessions = S /\ was.members = M
  OBVIOUS
<1>2. known = {old} /\ \A row \in mine : row.intent # L[k].intent
  <2> HIDE DEF was
  <2> QED
    BY <1>1
<1>3. (CHOOSE row \in known : TRUE) = old
  <2> HIDE DEF known
  <2> QED
    BY <1>2
<1> HIDE DEF was
<1>4. WalkSessions(L, was, k) =
        IF known # {} /\ \A row \in mine : row.intent # L[k].intent
        THEN [sessions |-> (was.sessions \ known) \union
                {[session |-> L[k].id, count |-> (CHOOSE row \in known : TRUE).count + 1, event |-> k]},
              members |-> was.members \union
                {[session |-> L[k].id, intent |-> L[k].intent,
                  order |-> (CHOOSE row \in known : TRUE).count + 1, event |-> k]}]
        ELSE was
  BY DEF WalkSessions
<1> HIDE DEF known, mine
<1>5. WalkSessions(L, was, k) =
        [sessions |-> (S \ {old}) \union {[session |-> L[k].id, count |-> old.count + 1, event |-> k]},
         members |-> M \union
           {[session |-> L[k].id, intent |-> L[k].intent, order |-> old.count + 1, event |-> k]}]
  BY <1>1, <1>2, <1>3, <1>4
<1> QED
  BY <1>5 DEF was

LEMMA WalkSessionsStep ==
  ASSUME NEW L \in Seq(Event), Sound(L), NEW k \in 1 .. Len(L)
  PROVE  TablesTo(L, k) = WalkSessions(L, TablesTo(L, k - 1), k)
<1> DEFINE S == SessionsTo(L, k - 1)
           M == MembersTo(L, k - 1)
           was == TablesTo(L, k - 1)
           known == {row \in S : row.session = L[k].id}
<1>1. DOMAIN L = 1 .. Len(L)
  BY Positions
<1>2. was = [sessions |-> S, members |-> M] /\ was.sessions = S /\ was.members = M
  BY DEF TablesTo
<1>3. CASE k \in Created(L)
  <2>1. L[k].type = "session_created" /\ L[k].id = k
    BY <1>3, SessionsStepCreated DEF Created, OfType
  <2>2. /\ SessionsTo(L, k) = S \union {[session |-> k, count |-> 0, event |-> k]}
        /\ MembersTo(L, k) = M
        /\ known = {}
    BY <1>3, <2>1, SessionsStepCreated
  <2> HIDE DEF S, M, was
  <2>3. WalkSessions(L, was, k) =
          [sessions |-> S \union {[session |-> k, count |-> 0, event |-> k]}, members |-> M]
    <3>1. WalkSessions(L, [sessions |-> S, members |-> M], k) =
            [sessions |-> S \union {[session |-> L[k].id, count |-> 0, event |-> k]}, members |-> M]
      <4>1. L[k].type = "session_created"
        BY <2>1
      <4>2. {row \in S : row.session = L[k].id} = {}
        BY <2>2
      <4> HIDE DEF known
      <4> QED
        BY ONLY <4>1, <4>2, WalkCreated
    <3> QED
      BY <1>2, <2>1, <3>1
  <2>4. TablesTo(L, k) = WalkSessions(L, was, k)
    BY <2>2, <2>3 DEF TablesTo
  <2> QED
    BY <2>4 DEF was
<1>4. CASE k \in Added(L)
  <2> DEFINE s == L[k].id
             order == Cardinality(AddedTo(L, s, k - 1)) + 1
             old == SessionRow(L, s, k - 1)
  <2>1. L[k].type = "session_intent_added"
    BY <1>4 DEF Added, OfType
  <2>2. /\ old \in S /\ old.session = s /\ old.count + 1 = order
        /\ \A row \in S : row.session = s => row = old
        /\ SessionsTo(L, k) = (S \ {old}) \union {[session |-> s, count |-> order, event |-> k]}
        /\ \A row \in M : row.session = s => row.intent # L[k].intent
        /\ MembersTo(L, k) = M \union
             {[session |-> s, intent |-> L[k].intent, order |-> order, event |-> k]}
    BY <1>4, SessionsStepAdded
  <2> HIDE DEF S, M, was, order, old
  <2>3. known = {old}
    BY <2>2
  <2>4. WalkSessions(L, was, k) =
          [sessions |-> (S \ {old}) \union {[session |-> s, count |-> old.count + 1, event |-> k]},
           members |-> M \union
             {[session |-> s, intent |-> L[k].intent, order |-> old.count + 1, event |-> k]}]
    <3>1. WalkSessions(L, [sessions |-> S, members |-> M], k) =
            [sessions |-> (S \ {old}) \union
               {[session |-> L[k].id, count |-> old.count + 1, event |-> k]},
             members |-> M \union
               {[session |-> L[k].id, intent |-> L[k].intent, order |-> old.count + 1, event |-> k]}]
      <4>1. {row \in S : row.session = L[k].id} = {old}
        BY <2>3
      <4>2. \A row \in M : row.session = L[k].id => row.intent # L[k].intent
        BY <2>2
      <4> HIDE DEF known, s
      <4> QED
        BY ONLY <2>1, <4>1, <4>2, WalkAdded
    <3> QED
      BY <1>2, <3>1
  <2>5. TablesTo(L, k) = WalkSessions(L, was, k)
    <3>1. SessionsTo(L, k) = (S \ {old}) \union {[session |-> s, count |-> old.count + 1, event |-> k]}
      BY <2>2
    <3>2. MembersTo(L, k) = M \union
            {[session |-> s, intent |-> L[k].intent, order |-> old.count + 1, event |-> k]}
      BY <2>2
    <3> HIDE DEF s
    <3> QED
      BY <2>4, <3>1, <3>2 DEF TablesTo
  <2> QED
    BY <2>5 DEF was
<1>5. CASE k \notin Created(L) /\ k \notin Added(L)
  <2>1. L[k].type # "session_created" /\ L[k].type # "session_intent_added"
    BY <1>1, <1>5 DEF Created, Added, OfType
  <2>2. SessionsTo(L, k) = S /\ MembersTo(L, k) = M
    BY <1>5, SessionsStepOther
  <2>3. WalkSessions(L, was, k) = was
    BY <2>1 DEF WalkSessions
  <2> QED
    BY <2>2, <2>3 DEF TablesTo
<1> QED
  BY <1>3, <1>4, <1>5

LEMMA SessionsExpected ==
  ASSUME NEW L \in Seq(Event), Sound(L)
  PROVE  /\ ExpectedSessions(L).sessions = RebuiltSessionTable(L)
         /\ ExpectedSessions(L).members = RebuiltMemberTable(L)
<1> DEFINE n == Len(L)
           start == [sessions |-> {}, members |-> {}]
           walk == CHOOSE f : f = [k \in 0 .. n |->
                     IF k = 0 THEN start ELSE WalkSessions(L, f[k - 1], k)]
           closed == [k \in 0 .. n |-> TablesTo(L, k)]
<1>1. n \in Nat
  BY Positions
<1>2. TablesTo(L, 0) = start
  BY SessionsStart DEF TablesTo
<1>3. closed = [k \in 0 .. n |-> IF k = 0 THEN start ELSE WalkSessions(L, closed[k - 1], k)]
  <2>1. \A k \in 1 .. n : k - 1 \in 0 .. n
    BY <1>1
  <2>2. \A k \in 0 .. n : k = 0 \/ k \in 1 .. n
    BY <1>1
  <2>3. \A k \in 1 .. n : TablesTo(L, k) = WalkSessions(L, TablesTo(L, k - 1), k)
    BY WalkSessionsStep
  <2> HIDE DEF start, n
  <2> QED
    BY <1>2, <2>1, <2>2, <2>3
<1>4. walk = [k \in 0 .. n |-> IF k = 0 THEN start ELSE WalkSessions(L, walk[k - 1], k)]
  <2> HIDE DEF start, closed, n
  <2> QED
    BY <1>3
<1>5. walk[n] = closed[n]
  <2> HIDE DEF start, closed, n, walk
  <2>1. walk[0] = closed[0] /\ \A k \in 1 .. n : walk[k - 1] = closed[k - 1] => walk[k] = closed[k]
    BY <1>1, <1>3, <1>4
  <2> QED
    BY <1>1, <2>1, WalksAgree
<1>6. ExpectedSessions(L) = walk[n]
  BY DEF ExpectedSessions, WalkSessions
<1>7. ExpectedSessions(L) = TablesTo(L, n)
  <2> HIDE DEF walk, n
  <2> QED
    BY <1>1, <1>5, <1>6
<1> QED
  BY <1>7, SessionsRebuilt DEF TablesTo

---------------------------------------------------------------------------
(* The audit and the rebuild.                                              *)

LEMMA NoRowErrors ==
  ASSUME NEW code, NEW expected, NEW table
  PROVE  RowErrors(code, expected, table) = {} <=> table = expected
BY DEF RowErrors

(* The auditor's walks accuse a table exactly when a rebuild, which is     *)
(* other code, would change it.                                            *)
THEOREM AuditFindsTheDifference == Spec => []AuditMatchesRebuild
<1>1. ASSUME Typed, Admitted PROVE AuditMatchesRebuild
  <2>1. /\ ledger \in Seq(Event) /\ Sound(ledger)
        /\ workerTable \in [Names -> Nat]
    BY <1>1 DEF Typed, TypeOK, LedgerTypeOK, RegistryTypeOK, Admitted
  <2>2. CheckWorkerProjection(ledger, workerTable) = {}
          <=> workerTable = RebuiltWorkerTable(ledger)
    <3>1. ExpectedWorkers(ledger) = RebuiltWorkerTable(ledger)
      BY <2>1, WorkersExpected
    <3>2. CheckWorkerProjection(ledger, workerTable) = {}
            <=> \A n \in Names : workerTable[n] = RebuiltWorkerTable(ledger)[n]
      BY <3>1 DEF CheckWorkerProjection
    <3>3. workerTable = [n \in Names |-> workerTable[n]]
          /\ RebuiltWorkerTable(ledger) = [n \in Names |-> RebuiltWorkerTable(ledger)[n]]
      BY <2>1 DEF RebuiltWorkerTable
    <3> QED
      BY <3>2, <3>3
  <2>3. CheckSessionProjection(ledger, sessionTable, memberTable) = {}
          <=> sessionTable = RebuiltSessionTable(ledger) /\ memberTable = RebuiltMemberTable(ledger)
    <3>1. /\ ExpectedSessions(ledger).sessions = RebuiltSessionTable(ledger)
          /\ ExpectedSessions(ledger).members = RebuiltMemberTable(ledger)
      BY <2>1, SessionsExpected
    <3>2. CheckSessionProjection(ledger, sessionTable, memberTable) = {}
            <=> /\ RowErrors("SESSION_PROJECTION", RebuiltSessionTable(ledger), sessionTable) = {}
                /\ RowErrors("SESSION_MEMBERSHIP_PROJECTION", RebuiltMemberTable(ledger), memberTable) = {}
      BY <3>1 DEF CheckSessionProjection
    <3> QED
      BY <3>2, NoRowErrors
  <2>4. CheckArtifactProjection(ledger, artifactTable) = {}
          <=> artifactTable = RebuiltArtifactTable(ledger)
    BY NoRowErrors DEF CheckArtifactProjection, RebuiltArtifactTable
  <2> QED
    BY <2>2, <2>3, <2>4 DEF AuditMatchesRebuild
<1> QED
  BY <1>1, AlwaysTyped, AlwaysAdmitted, PTL

---------------------------------------------------------------------------
(* Receipts.                                                               *)

(* As long as no id strays into other data, the auditor attributes to an   *)
(* intent what a receipt finds by text.                                    *)
LEMMA AttributedRows ==
  ASSUME NEW L \in Seq(Event), Sound(L), NoForeignIds(L), NEW i \in Intents
  PROVE  {k \in DOMAIN L : AttributedTo(L, k) = i} = ReceiptRows(L, i)
<1> DEFINE runs == OfType(L, {"run_created"})
           created == {k \in runs : L[k].op = i}
<1>1. /\ \A k \in runs : L[k].id = k
      /\ i # NoIntent
      /\ \A k \in DOMAIN L : L[k].nested = {} /\ (L[k].type \in RunTypes => L[k].intent = NoIntent)
  BY NoIntentAssumption DEF Sound, OfType, NoForeignIds
<1>2. \A k \in runs : k \in DOMAIN L /\ L[k].type \in RunTypes
  BY DEF OfType, RunTypes
<1>3. ASSUME NEW r PROVE RunOwner(L, r) = IF r \in runs THEN L[r].op ELSE NoIntent
  <2>1. {k \in runs : L[k].id = r} = IF r \in runs THEN {r} ELSE {}
    BY <1>1
  <2>2. r \in runs => LastOf({r}) = r
    <3>1. r \in runs => r \in Nat
      BY <1>2, Positions
    <3> QED
      BY <3>1 DEF LastOf
  <2> QED
    BY <2>1, <2>2 DEF RunOwner
<1>4. {L[c].id : c \in created} = created
  BY <1>1
<1>5. ASSUME NEW k \in DOMAIN L
      PROVE  AttributedTo(L, k) = i <=> k \in ReceiptRows(L, i)
  <2>1. k \in ReceiptRows(L, i) <=>
          Mentions(L[k], i) \/ k \in created \/ (L[k].type \in RunTypes /\ L[k].id \in created)
    BY <1>4 DEF ReceiptRows, OfType
  <2>2. Mentions(L[k], i) <=> L[k].intent = i
    BY <1>1 DEF Mentions
  <2>3. k \in created => L[k].type \in RunTypes /\ L[k].id \in created
    BY <1>1, <1>2
  <2>4. \A r : r \in created <=> r \in runs /\ L[r].op = i
    OBVIOUS
  <2> HIDE DEF runs, created
  <2> QED
    BY <1>1, <1>3, <2>1, <2>2, <2>3, <2>4 DEF AttributedTo
<1> QED
  <2>1. ReceiptRows(L, i) \subseteq DOMAIN L
    BY DEF ReceiptRows, OfType
  <2> QED
    BY <1>5, <2>1

LEMMA ReceiptRowsFinite ==
  ASSUME NEW L \in Seq(Event), NEW i
  PROVE  IsFiniteSet(ReceiptRows(L, i)) /\ Cardinality(ReceiptRows(L, i)) \in Nat
         /\ (ReceiptRows(L, i) # {} => Cardinality(ReceiptRows(L, i)) # 0)
<1>1. ReceiptRows(L, i) \in SUBSET DOMAIN L
  BY DEF ReceiptRows, OfType
<1>2. IsFiniteSet(ReceiptRows(L, i)) /\ Cardinality(ReceiptRows(L, i)) \in Nat
  BY <1>1, SomePositions
<1> QED
  BY <1>2, FS_EmptySet

(* What the auditor says of a row that somebody made.                      *)
LEMMA ReceiptAccused ==
  ASSUME NEW L \in Seq(Event), Sound(L), NoForeignIds(L), NEW i \in Intents,
         NEW table \in [Intents -> [first : Nat, last : Nat, count : Nat]]
  PROVE  <<"RECEIPT_PROJECTION", i>> \in CheckReceiptProjection(L, table)
           <=> table[i].count # 0 /\ table[i] # Outline(ReceiptRows(L, i))
<1> DEFINE R == ReceiptRows(L, i)
           expected == ExpectedReceipt(L, i)
           row == table[i]
<1>1. expected.rows = R /\ expected.count = Cardinality(R)
  BY AttributedRows DEF ExpectedReceipt
<1>2. <<"RECEIPT_PROJECTION", i>> \in CheckReceiptProjection(L, table)
        <=> /\ row.count # 0
            /\ row.count # Cardinality(R) \/ row.first # FirstOf(R) \/ row.last # LastOf(R)
  BY <1>1 DEF CheckReceiptProjection
<1>3. row \in [first : Nat, last : Nat, count : Nat]
  OBVIOUS
<1>4. CASE R = {}
  <2>1. Cardinality(R) = 0 /\ Outline(R).count = 0
    BY <1>4, FS_EmptySet DEF Outline, NoReceipt
  <2> HIDE DEF R, row
  <2> QED
    BY <1>2, <2>1 DEF R, row
<1>5. CASE R # {}
  <2>1. Outline(R) = [first |-> FirstOf(R), last |-> LastOf(R), count |-> Cardinality(R)]
    BY <1>5 DEF Outline
  <2> HIDE DEF R, row
  <2>2. row = Outline(R) <=>
          row.first = FirstOf(R) /\ row.last = LastOf(R) /\ row.count = Cardinality(R)
    BY <1>3, <2>1
  <2>3. <<"RECEIPT_PROJECTION", i>> \in CheckReceiptProjection(L, table)
          <=> row.count # 0 /\ row # Outline(R)
    BY <1>2, <2>2
  <2> QED
    BY <2>3 DEF R, row
<1> QED
  BY <1>4, <1>5

(* Every row was a bundle once.                                            *)
OldBundles == \A i \in Intents : \E n \in 0 .. Len(ledger) : receiptTable[i] = Bundle(n, i)

LEMMA WholeBundle ==
  ASSUME ledger \in Seq(Event), NEW i
  PROVE  /\ Len(ledger) \in 0 .. Len(ledger)
         /\ Bundle(Len(ledger), i) = Outline(ReceiptRows(ledger, i))
         /\ 0 \in 0 .. Len(ledger) /\ Bundle(0, i) = NoReceipt
<1>1. Len(ledger) \in Nat /\ Len(ledger) \in 0 .. Len(ledger) /\ 0 \in 0 .. Len(ledger)
  BY Positions
<1>2. SubSeq(ledger, 1, Len(ledger)) = ledger
  BY SubSeqFull
<1>3. SubSeq(ledger, 1, 0) = <<>>
  BY <1>1, SubSeqProperties, EmptySeq
<1>4. ReceiptRows(<<>>, i) = {}
  BY DEF ReceiptRows, OfType
<1>5. Bundle(Len(ledger), i) = Outline(ReceiptRows(ledger, i))
  BY <1>2 DEF Bundle
<1>6. Bundle(0, i) = NoReceipt
  BY <1>3, <1>4 DEF Bundle, Outline
<1> QED
  BY <1>1, <1>5, <1>6

LEMMA OldBundlesNext ==
  ASSUME Typed, OldBundles, [Next]_vars
  PROVE  OldBundles'
<1>1. ledger \in Seq(Event) /\ Len(ledger) \in Nat /\ receiptTable \in [Intents -> [first : Nat, last : Nat, count : Nat]]
  BY Positions DEF Typed, TypeOK, LedgerTypeOK, ReceiptTypeOK
<1>2. ASSUME NEW i, NEW n \in 0 .. Len(ledger)
      PROVE  n \in 0 .. Len(ledger') /\ Bundle(n, i)' = Bundle(n, i)
  <2>1. CASE UNCHANGED ledger
    BY <2>1 DEF Bundle
  <2>2. ASSUME NEW e \in Event, ledger' = Append(ledger, e)
        PROVE  n \in 0 .. Len(ledger') /\ Bundle(n, i)' = Bundle(n, i)
    <3>1. SubSeq(ledger', 1, n) = SubSeq(ledger, 1, n) /\ Len(ledger') = Len(ledger) + 1
      BY <1>1, <2>2, PrefixStays, Appended
    <3>2. n \in 0 .. Len(ledger')
      BY <1>1, <3>1
    <3>3. Bundle(n, i)' = Bundle(n, i)
      BY <3>1 DEF Bundle
    <3> QED
      BY <3>2, <3>3
  <2> QED
    BY <2>1, <2>2, LedgerStep DEF OneMore
<1>3. ASSUME NEW i \in Intents
      PROVE  \/ receiptTable'[i] = receiptTable[i]
             \/ receiptTable'[i] = NoReceipt
             \/ receiptTable'[i] = Outline(ReceiptRows(ledger, i))
  <2>1. UNCHANGED receiptTable \/ ReceiptStep
    BY DEF Next, vars, receiptVars
  <2>2. ASSUME NEW j \in Intents, GetReceiptBundle(j)
        PROVE  \/ receiptTable'[i] = receiptTable[i]
               \/ receiptTable'[i] = Outline(ReceiptRows(ledger, i))
    BY <1>1, <2>2 DEF GetReceiptBundle
  <2>3. RebuildReceiptProjection =>
          receiptTable'[i] \in {NoReceipt, Outline(ReceiptRows(ledger, i))}
    BY DEF RebuildReceiptProjection, RebuiltReceiptTable
  <2> QED
    BY <2>1, <2>2, <2>3 DEF ReceiptStep
<1>4. ASSUME NEW i \in Intents
      PROVE  \E n \in 0 .. Len(ledger) : receiptTable'[i] = Bundle(n, i)
  BY <1>1, <1>3, WholeBundle DEF OldBundles
<1>5. ASSUME NEW i \in Intents
      PROVE  \E n \in 0 .. Len(ledger') : receiptTable'[i] = Bundle(n, i)'
  BY <1>2, <1>4
<1> QED
  BY <1>5 DEF OldBundles

LEMMA OldBundlesInit == Init => OldBundles
<1> SUFFICES ASSUME Init PROVE OldBundles
  OBVIOUS
<1>1. ledger = <<>> /\ ledger \in Seq(Event) /\ receiptTable = [i \in Intents |-> NoReceipt]
  BY DEF Init, LedgerInit, ReceiptInit
<1> QED
  BY <1>1, WholeBundle DEF OldBundles

(* A stored receipt was the bundle at some time, and the auditor accuses   *)
(* it exactly when it is no longer.                                        *)
THEOREM ReceiptsWereBundles == Spec => []ReceiptsAreOldBundles
<1>1. Typed /\ OldBundles /\ [Next]_vars => OldBundles'
  BY OldBundlesNext
<1>2. ASSUME Typed, Admitted, OldBundles PROVE ReceiptsAreOldBundles
  <2>1. /\ ledger \in Seq(Event) /\ Sound(ledger)
        /\ receiptTable \in [Intents -> [first : Nat, last : Nat, count : Nat]]
    BY <1>2 DEF Typed, TypeOK, LedgerTypeOK, ReceiptTypeOK, Admitted
  <2>2. ASSUME NEW i \in Intents, receiptTable[i] # NoReceipt PROVE receiptTable[i].count # 0
    <3>1. PICK n \in 0 .. Len(ledger) : receiptTable[i] = Bundle(n, i)
      BY <1>2 DEF OldBundles
    <3> DEFINE R == ReceiptRows(SubSeq(ledger, 1, n), i)
    <3>2. SubSeq(ledger, 1, n) \in Seq(Event)
      BY <2>1, <3>1, SubSeqProperties, Positions
    <3>3. R # {} /\ Cardinality(R) # 0
      BY <2>2, <3>1, <3>2, ReceiptRowsFinite DEF Bundle, Outline
    <3> QED
      BY <3>1, <3>3 DEF Bundle, Outline
  <2>3. ASSUME NEW i \in Intents, receiptTable[i] # NoReceipt, NoForeignIds(ledger)
        PROVE  <<"RECEIPT_PROJECTION", i>> \in CheckReceiptProjection(ledger, receiptTable)
                 <=> receiptTable[i] # Bundle(Len(ledger), i)
    BY <2>1, <2>2, <2>3, ReceiptAccused, WholeBundle
  <2> QED
    BY <1>2, <2>3 DEF OldBundles, ReceiptsAreOldBundles
<1> QED
  BY <1>1, <1>2, OldBundlesInit, AlwaysTyped, AlwaysAdmitted, PTL DEF Spec

---------------------------------------------------------------------------
(* The audit of an import.                                                 *)

(* The tables that a rebuild makes are never what the audit minds.         *)
LEMMA RebuiltIsAccepted ==
  ASSUME NEW L \in Seq(Event), Sound(L), NoForeignIds(L)
  PROVE  /\ CheckSessionHistory(L) = {}
         /\ CheckWorkerProjection(L, RebuiltWorkerTable(L)) = {}
         /\ CheckReceiptProjection(L, RebuiltReceiptTable(L)) = {}
         /\ CheckArtifactProjection(L, RebuiltArtifactTable(L)) = {}
         /\ CheckProvenanceProjection(L, RebuiltProvenanceTable(L)) = {}
         /\ CheckEnvironmentProjection(L, RebuiltEnvironmentTable(L)) = {}
         /\ CheckSessionProjection(L, RebuiltSessionTable(L), RebuiltMemberTable(L)) = {}
<1>1. CheckSessionHistory(L) = {}
  BY DEF Sound
<1>2. CheckWorkerProjection(L, RebuiltWorkerTable(L)) = {}
  <2>1. ExpectedWorkers(L) = RebuiltWorkerTable(L)
    BY WorkersExpected
  <2> QED
    BY <2>1 DEF CheckWorkerProjection
<1>3. CheckReceiptProjection(L, RebuiltReceiptTable(L)) = {}
  <2> DEFINE table == RebuiltReceiptTable(L)
  <2>1. ASSUME NEW i \in Intents PROVE table[i] \in {NoReceipt, Outline(ReceiptRows(L, i))}
    BY DEF RebuiltReceiptTable
  <2>2. table \in [Intents -> [first : Nat, last : Nat, count : Nat]]
    <3>1. \A i \in Intents : Outline(ReceiptRows(L, i)) \in [first : Nat, last : Nat, count : Nat]
      BY OutlineTyped
    <3>2. NoReceipt \in [first : Nat, last : Nat, count : Nat]
      BY DEF NoReceipt, NoId
    <3>3. table = [i \in Intents |-> table[i]]
      BY DEF RebuiltReceiptTable
    <3> HIDE DEF table
    <3> QED
      BY <2>1, <3>1, <3>2, <3>3
  <2>3. \A i \in Intents : <<"RECEIPT_PROJECTION", i>> \notin CheckReceiptProjection(L, table)
    <3>1. NoReceipt.count = 0
      BY DEF NoReceipt
    <3> HIDE DEF table
    <3> QED
      BY <2>1, <2>2, <3>1, ReceiptAccused
  <2>4. \A error \in CheckReceiptProjection(L, table) :
          \E i \in Intents : error = <<"RECEIPT_PROJECTION", i>>
    BY DEF CheckReceiptProjection
  <2> HIDE DEF table
  <2>5. CheckReceiptProjection(L, table) = {}
    BY <2>3, <2>4
  <2> QED
    BY <2>5 DEF table
<1>4. /\ CheckArtifactProjection(L, RebuiltArtifactTable(L)) = {}
      /\ CheckProvenanceProjection(L, RebuiltProvenanceTable(L)) = {}
      /\ CheckEnvironmentProjection(L, RebuiltEnvironmentTable(L)) = {}
  BY NoRowErrors DEF CheckArtifactProjection, CheckProvenanceProjection, CheckEnvironmentProjection,
     RebuiltArtifactTable, RebuiltProvenanceTable, RebuiltEnvironmentTable
<1>5. CheckSessionProjection(L, RebuiltSessionTable(L), RebuiltMemberTable(L)) = {}
  <2>1. /\ ExpectedSessions(L).sessions = RebuiltSessionTable(L)
        /\ ExpectedSessions(L).members = RebuiltMemberTable(L)
    BY SessionsExpected
  <2> QED
    BY <2>1, NoRowErrors DEF CheckSessionProjection
<1> QED
  BY <1>1, <1>2, <1>3, <1>4, <1>5

Restored(k) == targetFiles[target[k].intent][target[k].path] = target[k].content

SourcesFault ==
  \/ CheckDuplicateWorkerRegistrations(target) # {}
  \/ \E k \in DOMAIN target : target[k].back
  \/ ~NoForeignIds(target)

(* While files are restored, those that are not to be restored are there.  *)
Restoring ==
  /\ archive.stage = "manifest" => Sound(archive.events)
  /\ target # <<>> => Sound(target)
  /\ import.step = "restore" =>
       /\ import.result = "none"
       /\ \A k \in OfType(target, {"artifact_file_written"}) : k \in import.todo \/ Restored(k)
  /\ import.result = "AUDIT_FAILED" => SourcesFault

LEMMA RestoringInit == Init => Restoring
BY DEF Init, ArchiveInit, NoArchive, NotImporting, Restoring

LEMMA RestoringNext ==
  ASSUME Typed, Admitted, Imports, Restoring, [Next]_vars
  PROVE  Restoring'
<1> DEFINE written(L) == OfType(L, {"artifact_file_written"})
<1>1. /\ Sound(ledger) /\ target \in Seq(Event) /\ targetFiles \in FileTree
      /\ archive \in [stage : {"none", "remains", "manifest"}, events : Seq(Event),
                      files : FileTree, intact : BOOLEAN]
      /\ import \in [step : {"idle", "restore"}, todo : SUBSET Nat,
                     result : {"none", "refused", "failed", "AUDIT_FAILED", "done"}]
  BY DEF Typed, TypeOK, ArchiveTypeOK, Admitted
<1>2. CASE UNCHANGED archiveVars
  BY <1>2 DEF archiveVars, Restoring, Restored, SourcesFault
<1>3. \A result : Ended(result).step = "idle" /\ Ended(result).result = result
  BY DEF Ended, NotImporting
<1>4. CASE ExportArchive
  <2>1. UNCHANGED <<target, targetFiles, import>>
    BY <1>4 DEF ExportArchive
  <2>2. archive'.stage = "manifest" => archive'.events = ledger
    BY <1>4 DEF ExportArchive, FullArchive, Remains, NoArchive
  <2> QED
    BY <1>1, <2>1, <2>2 DEF Restoring, Restored, SourcesFault
<1>5. CASE DamageArchive
  <2>1. archive'.stage = archive.stage /\ archive'.events = archive.events
    BY <1>1, <1>5 DEF DamageArchive
  <2>2. UNCHANGED <<target, targetFiles, import>>
    BY <1>5 DEF DamageArchive
  <2> QED
    BY <2>1, <2>2 DEF Restoring, Restored, SourcesFault
<1>6. CASE RefuseImport
  <2>1. UNCHANGED <<archive, target, targetFiles>> /\ import' = Ended("refused")
    BY <1>6 DEF RefuseImport
  <2> QED
    BY <1>3, <2>1 DEF Restoring
<1>7. CASE ImportLedgerEvents
  <2>1. UNCHANGED archive /\ Sound(archive.events)
    BY <1>7 DEF ImportLedgerEvents, Importable, Restoring
  <2>2. CASE /\ target' = archive.events
             /\ import' = [NotImporting EXCEPT !.step = "restore",
                             !.todo = RebuiltArtifactTable(archive.events)]
    <3>1. /\ import'.step = "restore" /\ import'.result = "none"
          /\ import'.todo = RebuiltArtifactTable(archive.events)
      BY <2>2 DEF NotImporting
    <3>2. \A k \in written(target') : k \in import'.todo
      BY <2>2, <3>1 DEF RebuiltArtifactTable
    <3> QED
      BY <2>1, <2>2, <3>1, <3>2 DEF Restoring
  <2>3. CASE UNCHANGED target /\ import' = Ended("failed")
    BY <1>3, <2>1, <2>3 DEF Restoring
  <2> QED
    BY <1>7, <2>2, <2>3 DEF ImportLedgerEvents
<1>8. CASE FinishImport
  <2>1. /\ UNCHANGED <<archive, target, targetFiles>> /\ import.step = "restore" /\ import.todo = {}
        /\ import' = Ended(IF ReplayErrors(target, targetFiles) = {} THEN "done" ELSE "AUDIT_FAILED")
    BY <1>8 DEF FinishImport
  <2>2. target # <<>> /\ Sound(target)
    BY <2>1 DEF Imports, Restoring
  <2>3. ASSUME ~SourcesFault PROVE ReplayErrors(target, targetFiles) = {}
    <3>1. NoForeignIds(target) /\ CheckDuplicateWorkerRegistrations(target) = {}
      BY <2>3 DEF SourcesFault
    <3>2. CheckMonotonicOrdering(target) = {}
      BY <2>3 DEF SourcesFault, CheckMonotonicOrdering
    <3>3. CheckArtifactFiles(target, targetFiles) = {}
      BY <2>1 DEF Restoring, Restored, CheckArtifactFiles
    <3> QED
      BY <1>1, <2>2, <3>1, <3>2, <3>3, RebuiltIsAccepted DEF ReplayErrors
  <2>4. import'.step = "idle" /\ (import'.result = "AUDIT_FAILED" => SourcesFault)
    BY <1>3, <2>1, <2>3
  <2>5. SourcesFault' <=> SourcesFault
    BY <2>1 DEF SourcesFault
  <2> QED
    BY <2>1, <2>4, <2>5 DEF Restoring
<1>9. CASE ImportStops
  <2>1. UNCHANGED <<archive, target>> /\ import' = Ended("failed")
    BY <1>9 DEF ImportStops
  <2> QED
    BY <1>3, <2>1 DEF Restoring
<1>10. ASSUME NEW k \in import.todo, RestoreFile(k)
       PROVE  Restoring'
  <2>1. UNCHANGED <<archive, target>> /\ import.step = "restore" /\ import.result = "none"
    BY <1>10 DEF RestoreFile, Restoring
  <2>2. CASE import' = Ended("failed")
    BY <1>3, <2>1, <2>2 DEF Restoring
  <2>3. CASE /\ import' = [import EXCEPT !.todo = @ \ {k}]
             /\ \/ /\ targetFiles' = WithFile(targetFiles, target[k].intent, target[k].path, target[k].content)
                \/ targetFiles[target[k].intent][target[k].path] = target[k].content /\ UNCHANGED targetFiles
    <3>1. import'.step = "restore" /\ import'.result = "none" /\ import'.todo = import.todo \ {k}
      BY <1>1, <2>1, <2>3
    <3>2. \A m \in written(target) :
            target[m].intent \in Intents /\ target[m].path \in Paths /\ target[m].content \in Contents
      <4>1. target # <<>> /\ Sound(target)
        BY <2>1 DEF Imports, Restoring
      <4> QED
        BY <4>1 DEF Sound
    <3>3. ASSUME NEW m \in written(target), m = k \/ Restored(m)
          PROVE  Restored(m)'
      <4>1. CASE Restored(m)
        <5>1. targetFiles[target[m].intent][target[m].path] # NoContent
          BY <3>2, <4>1, NoContentAssumption DEF Restored
        <5> QED
          BY <2>1, <3>2, <4>1, <5>1, TargetFilesKept DEF Restored
      <4>2. CASE m = k /\ ~Restored(m)
        <5>1. targetFiles' = WithFile(targetFiles, target[k].intent, target[k].path, target[k].content)
          BY <2>3, <4>2 DEF Restored
        <5> QED
          BY <1>1, <2>1, <3>2, <4>2, <5>1, WithFileMakes DEF Restored
      <4> QED
        BY <3>3, <4>1, <4>2
    <3>4. \A m \in written(target) : m \in import.todo \/ Restored(m)
      BY <2>1 DEF Restoring
    <3>5. \A m \in written(target) : m \in import'.todo \/ Restored(m)'
      BY <3>1, <3>3, <3>4
    <3> QED
      BY <2>1, <3>1, <3>5 DEF Restoring
  <2> QED
    BY <1>10, <2>2, <2>3 DEF RestoreFile
<1> QED
  BY <1>2, <1>4, <1>5, <1>6, <1>7, <1>8, <1>9, <1>10 DEF Next, ArchiveStep, vars

(* What makes the audit of an import fail is in the history that was       *)
(* imported, never in the tables and the files that the import made.       *)
THEOREM ImportsFailForTheSource == Spec => []AuditFailureIsTheSources
<1>1. Typed /\ Admitted /\ Imports /\ Restoring /\ [Next]_vars => Restoring'
  BY RestoringNext
<1>2. Restoring => AuditFailureIsTheSources
  BY DEF Restoring, SourcesFault, AuditFailureIsTheSources
<1> QED
  BY <1>1, <1>2, RestoringInit, AlwaysTyped, AlwaysAdmitted, AlwaysImports, PTL DEF Spec

===========================================================================
