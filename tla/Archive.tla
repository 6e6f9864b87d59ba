------------------------------ MODULE Archive ------------------------------
(***************************************************************************)
(* export_archive, import_archive and replay_history.  An archive is a     *)
(* directory: the events, a copy of the files that artifact_projection     *)
(* lists, and last the manifest with the digest of both.  Importing fills  *)
(* a second ledger and a second workspace: the events in one transaction,  *)
(* then file by file, then every table rebuilt and audited.  The target    *)
(* is another machine's: its steps interleave with the source's calls.     *)
(***************************************************************************)
EXTENDS RecordAudit, WorkerRegistry, Sessions, IntentRecords, Receipts, Workspace

VARIABLES
  archive,      \* the archive directory
  target,       \* ledger_events of the importing side
  targetFiles,  \* its workspace
  import        \* the import in progress, and how the last one ended

archiveVars == <<archive, target, targetFiles, import>>

(* A directory without a manifest is of no use to anybody: what it holds   *)
(* is left out.                                                            *)
NoArchive == [stage |-> "none", events |-> <<>>, files |-> EmptyTree, intact |-> TRUE]
Remains   == [NoArchive EXCEPT !.stage = "remains"]

NotImporting == [step |-> "idle", todo |-> {}, result |-> "none"]
Ended(result) == [NotImporting EXCEPT !.result = result]

---------------------------------------------------------------------------
(* Export.                                                                 *)

ExportFault == Fault /\ UNCHANGED <<ledger, stale, clock, scope>>

(* _copy_workspace_files: every row's file must be there with its size and *)
(* its hash.                                                               *)
Copyable(k) == files[ledger[k].intent][ledger[k].path] = ledger[k].content

CopiedFiles ==
  [i \in Intents |-> [p \in Paths |->
     IF \E k \in artifactTable : ledger[k].intent = i /\ ledger[k].path = p
     THEN files[i][p] ELSE NoContent]]

FullArchive ==
  [stage |-> "manifest", events |-> ledger, files |-> CopiedFiles, intact |-> TRUE]

ExportArchive ==
  /\ "archive" \in scope.parts
  /\ archive.stage = "none"            \* else ARCHIVE_EXISTS
  /\ ledger # <<>>                     \* else EMPTY_LEDGER
  /\ \/ /\ \A k \in artifactTable : Copyable(k)
        /\ archive' = FullArchive
        /\ UNCHANGED ledgerVars
     \/ /\ \E k \in artifactTable : ~Copyable(k)
        /\ archive' = Remains
        /\ UNCHANGED ledgerVars
     \/ archive' = Remains /\ ExportFault
  /\ UNCHANGED <<target, targetFiles, import>>

(* A byte of a finished archive changes: its digests do not fit any more.  *)
DamageArchive ==
  /\ archive.stage = "manifest" /\ archive.intact
  /\ archive' = [archive EXCEPT !.intact = FALSE]
  /\ ExportFault
  /\ UNCHANGED <<target, targetFiles, import>>

---------------------------------------------------------------------------
(* Import.                                                                 *)

Importable == archive.stage = "manifest" /\ archive.intact

(* INVALID_MANIFEST, LEDGER_SHA_MISMATCH, WORKSPACE_SHA_MISMATCH, and      *)
(* LEDGER_NOT_EMPTY.                                                       *)
RefuseImport ==
  /\ archive.stage # "none"
  /\ import.step = "idle"
  /\ ~Importable \/ target # <<>>
  /\ import' = Ended("refused")
  /\ UNCHANGED <<ledgerVars, archive, target, targetFiles>>

ImportEventByEvent ==      \* mutant: every event is committed by itself
  /\ Importable
  /\ import.step = "idle"
  /\ target = <<>>
  /\ \/ /\ target' = archive.events
        /\ import' = [NotImporting EXCEPT !.step = "restore",
                        !.todo = RebuiltArtifactTable(archive.events)]
        /\ UNCHANGED ledgerVars
     \/ /\ \E n \in 0 .. Len(archive.events) : target' = SubSeq(archive.events, 1, n)
        /\ import' = Ended("failed")
        /\ ExportFault
  /\ UNCHANGED <<archive, targetFiles>>

(* _import_ledger_events, and the first replay_history, which rebuilds the *)
(* target's artifact_projection: the files to restore.                     *)
ImportLedgerEvents ==
  /\ Importable
  /\ import.step = "idle"
  /\ target = <<>>
  /\ \/ /\ target' = archive.events
        /\ import' = [NotImporting EXCEPT !.step = "restore",
                        !.todo = RebuiltArtifactTable(archive.events)]
        /\ UNCHANGED ledgerVars
     \/ import' = Ended("failed") /\ ExportFault /\ UNCHANGED target
  /\ UNCHANGED <<archive, targetFiles>>

(* _restore_workspace_files, one file.                                     *)
RestoreOver(k) ==      \* mutant: a file that is there is replaced
  LET i == target[k].intent
      p == target[k].path
  IN  /\ import.step = "restore" /\ k \in import.todo
      /\ targetFiles' = WithFile(targetFiles, i, p, archive.files[i][p])
      /\ import' = [import EXCEPT !.todo = @ \ {k}]
      /\ UNCHANGED <<ledgerVars, archive, target>>

RestoreUnchecked(k) ==      \* mutant: a file that is there is left, whatever it holds
  LET i == target[k].intent
      p == target[k].path
  IN  /\ import.step = "restore" /\ k \in import.todo
      /\ targetFiles' = IF targetFiles[i][p] # NoContent \/ Blocked(targetFiles, i, p) THEN targetFiles
                        ELSE WithFile(targetFiles, i, p, archive.files[i][p])
      /\ import' = [import EXCEPT !.todo = @ \ {k}]
      /\ UNCHANGED <<ledgerVars, archive, target>>

RestoreFile(k) ==
  LET i == target[k].intent
      p == target[k].path
      inArchive == archive.files[i][p] = target[k].content
      there == targetFiles[i][p]
      restored == [import EXCEPT !.todo = @ \ {k}]
  IN  /\ import.step = "restore" /\ k \in import.todo
      /\ \/ /\ inArchive /\ there = NoContent /\ ~Blocked(targetFiles, i, p)
            /\ targetFiles' = WithFile(targetFiles, i, p, target[k].content)
            /\ import' = restored
         \/ /\ inArchive /\ there = target[k].content
            /\ import' = restored /\ UNCHANGED targetFiles
         \/ /\ \/ ~inArchive              \* MISSING_ARCHIVE_ARTIFACT
               \/ Blocked(targetFiles, i, p)
               \/ there \notin {NoContent, target[k].content}   \* TARGET_ARTIFACT_EXISTS
            /\ import' = Ended("failed") /\ UNCHANGED targetFiles
      /\ UNCHANGED <<ledgerVars, archive, target>>

(* replay_history on the target: every table is rebuilt, then audited with *)
(* the files.  The checks of intents, claims and runs are left to          *)
(* IntentDispatch.                                                         *)
ReplayErrors(L, tree) ==
  CheckMonotonicOrdering(L)
    \union CheckDuplicateWorkerRegistrations(L)
    \union CheckSessionHistory(L)
    \union CheckWorkerProjection(L, RebuiltWorkerTable(L))
    \union CheckReceiptProjection(L, RebuiltReceiptTable(L))
    \union CheckArtifactProjection(L, RebuiltArtifactTable(L))
    \union CheckArtifactFiles(L, tree)
    \union CheckProvenanceProjection(L, RebuiltProvenanceTable(L))
    \union CheckEnvironmentProjection(L, RebuiltEnvironmentTable(L))
    \union CheckSessionProjection(L, RebuiltSessionTable(L), RebuiltMemberTable(L))

FinishBeforeRestoring ==      \* mutant: reports success once the events are in
  /\ import.step = "restore"
  /\ import' = Ended("done")
  /\ UNCHANGED <<ledgerVars, archive, target, targetFiles>>

FinishImport ==
  /\ import.step = "restore" /\ import.todo = {}
  /\ import' = Ended(IF ReplayErrors(target, targetFiles) = {} THEN "done" ELSE "AUDIT_FAILED")
  /\ UNCHANGED <<ledgerVars, archive, target, targetFiles>>

(* The import stops where it is; a file being written stays half-written.  *)
ImportStops ==
  /\ import.step = "restore"
  /\ import' = Ended("failed")
  /\ ExportFault
  /\ \/ UNCHANGED targetFiles
     \/ \E k \in import.todo :
          LET i == target[k].intent
              p == target[k].path
          IN  /\ targetFiles[i][p] = NoContent /\ ~Blocked(targetFiles, i, p)
              /\ targetFiles' = WithFile(targetFiles, i, p, "partial")
  /\ UNCHANGED <<archive, target>>

(* The workspace that is imported into may hold a file already.            *)
TargetTrees ==
  {EmptyTree} \union
    {WithFile(EmptyTree, i, p, c) : i \in Intents, p \in Paths, c \in Contents}

ArchiveInit ==
  /\ archive = NoArchive
  /\ target = <<>>
  /\ targetFiles \in IF {"archive", "workspace"} \subseteq scope.parts THEN TargetTrees ELSE {EmptyTree}
  /\ import = NotImporting

ArchiveStep ==
  \/ ExportArchive \/ DamageArchive
  \/ RefuseImport \/ ImportLedgerEvents \/ FinishImport \/ ImportStops
  \/ \E k \in import.todo : RestoreFile(k)

ArchiveTypeOK ==
  /\ archive \in [stage : {"none", "remains", "manifest"}, events : Seq(Event),
                  files : FileTree, intact : BOOLEAN]
  /\ target \in Seq(Event)
  /\ targetFiles \in FileTree
  /\ import \in [step : {"idle", "restore"}, todo : SUBSET Nat,
                result : {"none", "refused", "failed", "AUDIT_FAILED", "done"}]

===========================================================================
