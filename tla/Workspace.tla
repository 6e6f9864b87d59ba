----------------------------- MODULE Workspace -----------------------------
(***************************************************************************)
(* The workspace: files that workers leave behind, each written once under *)
(* the directory of its intent, then recorded on the ledger.  The file     *)
(* comes first: a write that breaks off, an append that fails or a crash   *)
(* in between leaves a file without an event.                              *)
(*                                                                         *)
(* Callers write a path as they like (Spellings); NormalForm is            *)
(* normalize_relative_path: a member of Paths, or why it is refused.       *)
(* Above says which paths are directories on the way to another.           *)
(***************************************************************************)
EXTENDS RecordLedger

CONSTANTS Paths, NormalForm, Above

ASSUME PathsAssumption ==
  /\ Paths \subseteq Spellings
  /\ NormalForm \in [Spellings -> Paths \union {"INVALID_PATH", "PATH_TRAVERSAL"}]
  /\ \A p \in Paths : NormalForm[p] = p
  /\ Above \in [Paths -> SUBSET Paths]
  /\ \A p \in Paths : p \notin Above[p]

VARIABLES
  files,          \* what is at each path of each intent
  artifactTable   \* artifact_projection: the events it has a row of

workspaceVars == <<files, artifactTable>>

(* A path holds nothing, a file as written, a file whose write broke off,  *)
(* a file that something outside Leira has changed, or a directory.        *)
FileStates == Contents \union {NoContent, "partial", "damaged", "directory"}
FileTree == [Intents -> [Paths -> FileStates]]

EmptyTree == [i \in Intents |-> [p \in Paths |-> NoContent]]

(* mkdir(parents=True, exist_ok=True) on the way to p, then p itself.      *)
Blocked(tree, i, p) == \E q \in Above[p] : tree[i][q] \notin {NoContent, "directory"}

WithFile(tree, i, p, state) ==
  [tree EXCEPT ![i] = [q \in Paths |->
     IF q = p THEN state ELSE IF q \in Above[p] THEN "directory" ELSE tree[i][q]]]

RejectWrite(i, raw) ==
  /\ Record([EventAbout("artifact_write_rejected", i) EXCEPT !.path = raw])
  /\ UNCHANGED workspaceVars

FileEvent(i, p, c) ==
  [EventAbout("artifact_file_written", i) EXCEPT !.path = p, !.content = c]

(* The file is there; now the event, then the table.                       *)
RecordFile(i, p, c) ==
  \/ /\ Append1(FileEvent(i, p, c))
     /\ TableWrite("artifacts", artifactTable' = artifactTable \union {Here},
                   UNCHANGED artifactTable)
  \/ AppendFails /\ UNCHANGED artifactTable

OverwriteNormalized(i, raw, p, c) ==      \* mutant: open(path, "wb")
  /\ ~Blocked(files, i, p)
  /\ files[i][p] # "directory"
  /\ files' = WithFile(files, i, p, c)
  /\ RecordFile(i, p, c)

WriteNormalized(i, raw, p, c) ==
  \/ files[i][p] # NoContent /\ ~Blocked(files, i, p) /\ RejectWrite(i, raw)
  \/ /\ files[i][p] = NoContent
     /\ ~Blocked(files, i, p)
     /\ \/ files' = WithFile(files, i, p, c) /\ RecordFile(i, p, c)
        \/ \E broken \in {NoContent, "partial"} :
             /\ files' = WithFile(files, i, p, broken)
             /\ AppendFails /\ UNCHANGED artifactTable

(* write_artifact.  A path that cannot be normalized and a path that is    *)
(* taken are refused and recorded; a file where a directory should be      *)
(* raises out of mkdir, unrecorded, and changes nothing.                   *)
WriteArtifact(i, raw, c) ==
  /\ CanCall("workspace")
  /\ \/ NormalForm[raw] \notin Paths /\ RejectWrite(i, raw)
     \/ NormalForm[raw] \in Paths /\ WriteNormalized(i, raw, NormalForm[raw], c)

(* Somebody changes a file behind Leira's back.                            *)
DamageFile(i, p) ==
  /\ "archive" \in scope.parts
  /\ files[i][p] \in Contents
  /\ files' = [files EXCEPT ![i][p] = "damaged"]
  /\ AppendFails
  /\ UNCHANGED artifactTable

RebuiltArtifactTable(L) == OfType(L, {"artifact_file_written"})

RebuildArtifactProjection ==
  /\ "workspace" \in scope.parts
  /\ Rebuild("artifacts")
  /\ artifactTable' = RebuiltArtifactTable(ledger)
  /\ UNCHANGED files

WorkspaceInit ==
  /\ files = EmptyTree
  /\ artifactTable = {}

WorkspaceStep ==
  \/ \E i \in Intents, raw \in Spellings, c \in Contents : WriteArtifact(i, raw, c)
  \/ \E i \in Intents, p \in Paths : DamageFile(i, p)
  \/ RebuildArtifactProjection

WorkspaceTypeOK ==
  /\ files \in FileTree
  /\ \A k \in artifactTable : k \in Nat

===========================================================================
