-------------------------- MODULE IntentRecords --------------------------
(***************************************************************************)
(* What the inbox, the dispatcher and the run lifecycle put on the ledger, *)
(* as far as the record-keeping parts read it; IntentDispatch and          *)
(* RunLifecycle are the models of those three.  And the two captures of    *)
(* dispatch_with_provenance, which anybody may also call directly, with    *)
(* their tables.                                                           *)
(***************************************************************************)
EXTENDS RecordLedger

VARIABLES
  provenanceTable,   \* provenance_projection: the events it has a row of
  environmentTable   \* environment_projection: likewise

captureVars == <<provenanceTable, environmentTable>>

RowsLike(L, i) == {k \in OfType(L, IntentTypes) : Mentions(L[k], i)}

(* get_intent_status: PENDING unless a later or a terminal event says else.*)
Pending(i) ==
  LET rows == RowsLike(ledger, i)
  IN  /\ rows # {}
      /\ ledger[LastOf(rows)].type = "intent_submitted"
      /\ \A k \in rows : ledger[k].type \in {"intent_submitted", "intent_claimed"}

Mentioned(L, i) == \E k \in DOMAIN L : Mentions(L[k], i) \/ L[k].op = i

(* The intents whose ids the data of a caller or a worker may carry.       *)
Nested == IF scope.nesting THEN {{}} \union {{i} : i \in {j \in Intents : Mentioned(ledger, j)}}
          ELSE {{}}

SubmitIntent(i, t, nested) ==
  /\ CanCall("intents")
  /\ ~Mentioned(ledger, i)
  /\ \/ Append1([EventAbout(t, i) EXCEPT !.nested = nested]) /\ UNCHANGED stale /\ NoFault
     \/ AppendFails

(* dispatch_once takes an intent: the claim carries the worker's name.     *)
ClaimIntent(i, n) ==
  /\ CanCall("intents")
  /\ Pending(i)
  /\ \/ Append1([EventAbout("intent_claimed", i) EXCEPT !.name = n])
        /\ UNCHANGED stale /\ NoFault
     \/ AppendFails

CreateRun(i) ==
  /\ CanCall("intents")
  /\ \/ Append1([EventAbout("run_created", NoIntent) EXCEPT !.op = i, !.id = Here])
        /\ UNCHANGED stale /\ NoFault
     \/ AppendFails

(* The next event of run r.  The artifact is a worker's: about is an       *)
(* "intent_id" right in its content, nested are those deeper down.         *)
AppendRunEvent(r, about, nested) ==
  LET rows == {k \in OfType(ledger, RunTypes) : ledger[k].id = r}
      next == CASE ledger[LastOf(rows)].type = "run_created"   -> "state_running"
                [] ledger[LastOf(rows)].type = "state_running" -> "artifact_written"
                [] OTHER                                       -> "state_completed"
  IN  /\ CanCall("intents")
      /\ rows # {}
      /\ ledger[LastOf(rows)].type # "state_completed"
      /\ next # "artifact_written" => about = NoIntent /\ nested = {}
      /\ \/ /\ Append1([EventAbout(next, about) EXCEPT !.id = r, !.nested = nested])
            /\ UNCHANGED stale /\ NoFault
         \/ AppendFails

---------------------------------------------------------------------------
(* Snapshots.  The event names the intent in its content.                  *)

CaptureProvenance(i, t) ==
  /\ CanCall("captures")
  /\ \/ /\ Append1(EventAbout(t, i))
        /\ TableWrite("provenance",
             provenanceTable' = provenanceTable \union {Here}, UNCHANGED provenanceTable)
     \/ AppendFails /\ UNCHANGED provenanceTable
  /\ UNCHANGED environmentTable

CaptureEnvironment(i, t) ==
  /\ CanCall("captures")
  /\ \/ /\ Append1(EventAbout(t, i))
        /\ TableWrite("environment",
             environmentTable' = environmentTable \union {Here}, UNCHANGED environmentTable)
     \/ AppendFails /\ UNCHANGED environmentTable
  /\ UNCHANGED provenanceTable

RebuiltProvenanceTable(L) == OfType(L, ProvenanceTypes)

RebuildProvenanceProjection ==
  /\ "captures" \in scope.parts
  /\ Rebuild("provenance")
  /\ provenanceTable' = RebuiltProvenanceTable(ledger)
  /\ UNCHANGED environmentTable

RebuiltEnvironmentTable(L) == OfType(L, EnvironmentTypes)

RebuildEnvironmentProjection ==
  /\ "captures" \in scope.parts
  /\ Rebuild("environment")
  /\ environmentTable' = RebuiltEnvironmentTable(ledger)
  /\ UNCHANGED provenanceTable

CaptureInit == provenanceTable = {} /\ environmentTable = {}

CaptureStep ==
  \/ \E i \in Intents :
       \/ \E t \in ProvenanceTypes : CaptureProvenance(i, t)
       \/ \E t \in EnvironmentTypes : CaptureEnvironment(i, t)
  \/ RebuildProvenanceProjection \/ RebuildEnvironmentProjection

RunStep ==
  \E i \in Intents :
    \/ \E t \in SubmissionTypes, nested \in Nested : SubmitIntent(i, t, nested)
    \/ CreateRun(i)
    \/ \E r \in OfType(ledger, {"run_created"}), nested \in Nested,
          about \in {NoIntent} \union UNION Nested :
         AppendRunEvent(r, about, nested)

CaptureTypeOK ==
  /\ \A k \in provenanceTable \union environmentTable : k \in Nat

===========================================================================
