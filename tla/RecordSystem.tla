--------------------------- MODULE RecordSystem ---------------------------
(***************************************************************************)
(* The record-keeping parts together, over one ledger: the registry and    *)
(* dispatch_by_name, sessions, captures, receipts, the workspace, the      *)
(* archive and the audit.                                                  *)
(***************************************************************************)
EXTENDS Archive

vars == <<ledgerVars, registryVars, sessionVars, captureVars, receiptVars,
          workspaceVars, archiveVars>>

(* dispatch_by_name: the worker this process has under that name, or       *)
(* UNKNOWN_WORKER and nothing done; then dispatch_once.                    *)
DispatchByTable(i, n) ==      \* mutant: a name that was ever registered will do
  /\ n \in workers \/ workerTable[n] # NoId
  /\ ClaimIntent(i, n)

DispatchByName(i, n) ==
  /\ n \in workers
  /\ ClaimIntent(i, n)

Dispatch ==
  \E i \in Intents :
    \/ ClaimIntent(i, NoName)
    \/ \E n \in Names : DispatchByName(i, n)

Init ==
  /\ LedgerInit /\ RegistryInit /\ SessionInit /\ CaptureInit
  /\ ReceiptInit /\ WorkspaceInit /\ ArchiveInit

Next ==
  \/ /\ ClockStepsBack \/ RunStep \/ Dispatch
     /\ UNCHANGED <<registryVars, sessionVars, captureVars, receiptVars, workspaceVars, archiveVars>>
  \/ /\ RegistryStep
     /\ UNCHANGED <<sessionVars, captureVars, receiptVars, workspaceVars, archiveVars>>
  \/ /\ SessionStep
     /\ UNCHANGED <<registryVars, captureVars, receiptVars, workspaceVars, archiveVars>>
  \/ /\ CaptureStep
     /\ UNCHANGED <<registryVars, sessionVars, receiptVars, workspaceVars, archiveVars>>
  \/ /\ ReceiptStep
     /\ UNCHANGED <<registryVars, sessionVars, captureVars, workspaceVars, archiveVars>>
  \/ /\ WorkspaceStep
     /\ UNCHANGED <<registryVars, sessionVars, captureVars, receiptVars, archiveVars>>
  \/ /\ ArchiveStep
     /\ UNCHANGED <<registryVars, sessionVars, captureVars, receiptVars, workspaceVars>>

Spec == Init /\ [][Next]_vars

---------------------------------------------------------------------------
(*                              Properties                                 *)

TypeOK ==
  /\ LedgerTypeOK /\ RegistryTypeOK /\ SessionTypeOK /\ CaptureTypeOK
  /\ ReceiptTypeOK /\ WorkspaceTypeOK /\ ArchiveTypeOK

(* The registry's memory and the ledger agree: the names a process holds   *)
(* are those recorded since it started, each recorded once, whatever       *)
(* appends and table writes have failed.                                   *)
MemoryIsOnRecord ==
  LET recent == {k \in OfType(ledger, {"worker_registered"}) : k > boot}
  IN  /\ workers = {ledger[k].name : k \in recent}
      /\ \A j, k \in recent : ledger[j].name = ledger[k].name => j = k

(* dispatch_by_name never gives an intent to the worker of an earlier      *)
(* process, though ledger and table still list its name.                   *)
OnlyLiveWorkersAreNamed ==
  [][ \A k \in DOMAIN ledger' \ DOMAIN ledger :
        ledger'[k].type = "intent_claimed" /\ ledger'[k].name # NoName
          => \E j \in boot + 1 .. k - 1 :
               ledger[j].type = "worker_registered" /\ ledger[j].name = ledger'[k].name ]_vars

(* Nobody's data carry the id of an intent where an "intent_id" is looked  *)
(* for.                                                                    *)
NoForeignIds(L) ==
  \A k \in DOMAIN L :
    L[k].nested = {} /\ (L[k].type \in RunTypes => L[k].intent = NoIntent)

(* A session holds an intent once, and only one that existed when it was   *)
(* added: the auditor's history check is silent as long as no id is found  *)
(* in somebody else's data.                                                *)
SessionHistoryIsSound ==
  /\ \A j, k \in OfType(ledger, {"session_intent_added"}) :
       ledger[j].id = ledger[k].id /\ ledger[j].intent = ledger[k].intent => j = k
  /\ NoForeignIds(ledger) => CheckSessionHistory(ledger) = {}

(* The two session tables never contradict each other or the ledger's      *)
(* order, even if they missed members: the members are numbered 1, 2, ...  *)
(* as they were added, and the session row counts exactly them.            *)
SessionTablesAgree ==
  /\ \A s \in {row.session : row \in memberTable} :
       /\ {row.order : row \in MembersOf(s)} = 1 .. Cardinality(MembersOf(s))
       /\ \A a, b \in MembersOf(s) : (a.order < b.order) <=> (a.event < b.event)
  /\ \A row \in sessionTable : row.count = Cardinality(MembersOf(row.session))

(* A table that missed no write since its last rebuild says what a rebuild *)
(* would make of the ledger.                                               *)
LiveEqualsRebuilt ==
  /\ "workers" \notin stale => workerTable = RebuiltWorkerTable(ledger)
  /\ "sessions" \notin stale =>
       sessionTable = RebuiltSessionTable(ledger) /\ memberTable = RebuiltMemberTable(ledger)
  /\ "provenance" \notin stale => provenanceTable = RebuiltProvenanceTable(ledger)
  /\ "environment" \notin stale => environmentTable = RebuiltEnvironmentTable(ledger)
  /\ "artifacts" \notin stale => artifactTable = RebuiltArtifactTable(ledger)

(* The auditor, whose expectations come from walks of its own, accuses a   *)
(* table exactly when a rebuild would change it.                           *)
AuditMatchesRebuild ==
  /\ CheckWorkerProjection(ledger, workerTable) = {}
       <=> workerTable = RebuiltWorkerTable(ledger)
  /\ CheckSessionProjection(ledger, sessionTable, memberTable) = {}
       <=> sessionTable = RebuiltSessionTable(ledger) /\ memberTable = RebuiltMemberTable(ledger)
  /\ CheckArtifactProjection(ledger, artifactTable) = {}
       <=> artifactTable = RebuiltArtifactTable(ledger)

(* A stored receipt is the bundle of some earlier moment, and the auditor, *)
(* who attributes events by payload fields instead of text, accuses it     *)
(* exactly when it is out of date, unless an id is in somebody else's data.*)
Bundle(n, i) == Outline(ReceiptRows(SubSeq(ledger, 1, n), i))

ReceiptsAreOldBundles ==
  \A i \in Intents :
    /\ \E n \in 0 .. Len(ledger) : receiptTable[i] = Bundle(n, i)
    /\ (receiptTable[i] # NoReceipt /\ NoForeignIds(ledger))
         => (<<"RECEIPT_PROJECTION", i>> \in CheckReceiptProjection(ledger, receiptTable)
               <=> receiptTable[i] # Bundle(Len(ledger), i))

(* Every recorded artifact has its file, unchanged unless by somebody      *)
(* else, no path is recorded twice, and a file without an event is what a  *)
(* fault left.                                                             *)
FilesAreAccountedFor ==
  LET written == OfType(ledger, {"artifact_file_written"})
      orphans == {f \in Intents \X Paths :
                    /\ files[f[1]][f[2]] \in Contents \union {"partial"}
                    /\ \A k \in written : <<ledger[k].intent, ledger[k].path>> # f}
  IN  /\ \A k \in written :
           files[ledger[k].intent][ledger[k].path] \in {ledger[k].content, "damaged"}
      /\ \A j, k \in written :
           ledger[j].intent = ledger[k].intent /\ ledger[j].path = ledger[k].path => j = k
      /\ Cardinality(orphans) <= faults

(* Nothing in a workspace is ever overwritten, neither by a write nor by   *)
(* an import.                                                              *)
NeverOverwritten ==
  [][ \A i \in Intents, p \in Paths :
        /\ files[i][p] # NoContent => files'[i][p] \in {files[i][p], "damaged"}
        /\ targetFiles[i][p] # NoContent => targetFiles'[i][p] = targetFiles[i][p] ]_vars

(* The importing ledger holds the whole history of the archive or nothing. *)
TargetAllOrNothing == target \in {<<>>, archive.events}

(* An import that reports success has brought a history of the source and  *)
(* every file that history records, bit for bit.                           *)
ImportIsFaithful ==
  import.result = "done" =>
    /\ target # <<>>
    /\ \E n \in DOMAIN ledger : target = SubSeq(ledger, 1, n)
    /\ \A k \in OfType(target, {"artifact_file_written"}) :
         targetFiles[target[k].intent][target[k].path] = target[k].content

(* An import that got as far as the audit fails it only over what the      *)
(* source did: a name registered by two processes, a clock set back, or an *)
(* id in somebody else's data; never over its own files or tables.         *)
AuditFailureIsTheSources ==
  import.result = "AUDIT_FAILED" =>
    \/ CheckDuplicateWorkerRegistrations(target) # {}
    \/ \E k \in DOMAIN target : target[k].back
    \/ ~NoForeignIds(target)

(* The archive holds what the ledger records: "fail export if file hash    *)
(* does not match ledger".                                                 *)
ArchiveHoldsEveryArtifact ==
  archive.stage = "manifest" =>
    \A k \in OfType(archive.events, {"artifact_file_written"}) :
      archive.files[archive.events[k].intent][archive.events[k].path]
        = archive.events[k].content

===========================================================================
