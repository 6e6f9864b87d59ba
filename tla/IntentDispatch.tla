-------------------------- MODULE IntentDispatch --------------------------
(***************************************************************************)
(* One process that submits, claims, dispatches and releases intents: the  *)
(* inbox, the claim store, the run lifecycle and the dispatcher over one   *)
(* ledger and the SQLite tables derived from it.                           *)
(*                                                                         *)
(* The process is single-threaded.  A call made by the program runs to its *)
(* end, except that the worker a dispatch invokes is code of its own and   *)
(* may make calls itself: frames 1 .. depth are the dispatches in progress,*)
(* and only the innermost one takes steps.  A step is one ledger append    *)
(* with the projection write that follows it: nothing else runs between    *)
(* the two, and a crash there leaves what a failed projection write leaves.*)
(* A crash may happen between any two steps; it loses the frames and keeps *)
(* the database.                                                           *)
(*                                                                         *)
(* Bounds: calls start only while the ledger holds fewer than MaxEvents    *)
(* events, claims and releases that are going to be refused only while it  *)
(* holds fewer than MaxRefusals refusals, dispatches nest MaxDepth deep,   *)
(* and at most MaxFaults failed writes, unrecordable worker results and    *)
(* crashes happen.                                                         *)
(***************************************************************************)
EXTENDS LedgerAudit

CONSTANTS
  MaxEvents,   \* no call starts once the ledger is this long
  MaxRefusals, \* no doomed claim or release is tried once this many were
  MaxDepth,    \* dispatches in progress at once: workers that dispatch
  MaxFaults,   \* failed writes, unrecordable results and crashes
  NestedIds,   \* may a payload carry another intent's id under "intent_id"?
  Captures     \* subset of BOOLEAN: the values of "with provenance" to run

ASSUME MaxEventsAssumption == MaxEvents \in Nat
ASSUME MaxRefusalsAssumption == MaxRefusals \in Nat
ASSUME MaxDepthAssumption  == MaxDepth \in Nat \ {0}
ASSUME MaxFaultsAssumption == MaxFaults \in Nat
ASSUME NestedIdsAssumption == NestedIds \in BOOLEAN
ASSUME CapturesAssumption  == Captures \subseteq BOOLEAN

VARIABLES
  ledger,       \* ledger_events, in rowid order
  inbox,        \* inbox_entries.status of each intent
  intentProj,   \* intent_projection: status and last_event_id of each intent
  claimProj,    \* intent_claim_projection: claim id and owner of each intent
  runProj,      \* operation_state_projection: a set of rows, one per run
  frame,        \* the dispatch calls in progress
  depth,        \* how many there are
  stale,        \* the tables that missed a write since their last rebuild
  invocations,  \* how often a worker was invoked for each intent
  faults        \* faults so far (bounds the model)

db    == <<ledger, inbox, intentProj, claimProj, runProj, stale>>
calls == <<frame, depth>>
vars  == <<ledger, inbox, intentProj, claimProj, runProj,
           frame, depth, stale, invocations, faults>>

Tables == {"inbox", "intents", "claims", "runs"}

NoIntentRow == [status |-> "NONE", event |-> NoId]
NoClaimRow  == [claim |-> NoId, owner |-> NoOwner]

---------------------------------------------------------------------------
(* Call frames.  pc names the step the call takes next.  owner is NoOwner  *)
(* in a call that was not tracked, claim is the claim id that a tracked    *)
(* call was given, capture says whether it is dispatch_with_provenance.    *)

Steps == {"idle", "dispatch", "provenance", "environment", "abort",
          "run", "running", "invoke", "completed", "failed", "release"}

Frame == [pc : Steps, intent : Intents \union {NoIntent}, named : BOOLEAN,
          owner : Owners \union {NoOwner}, claim : Nat, capture : BOOLEAN, run : Nat]

Idle == [pc |-> "idle", intent |-> NoIntent, named |-> FALSE,
         owner |-> NoOwner, claim |-> NoId, capture |-> FALSE, run |-> NoId]

Top == IF depth = 0 THEN Idle ELSE frame[depth]

(* A call may start at top level, or from the code of an invoked worker.   *)
CanCall ==
  /\ Top.pc \in {"idle", "invoke"}
  /\ depth < MaxDepth
  /\ Len(ledger) < MaxEvents

Refusals ==
  {k \in DOMAIN ledger :
     ledger[k].type \in {"intent_claim_rejected", "intent_release_rejected"}}

CanRefuse == Cardinality(Refusals) < MaxRefusals

At(step) == Top.pc = step

Push(f) ==
  /\ depth' = depth + 1
  /\ frame' = [frame EXCEPT ![depth + 1] = f]

Pop ==
  /\ depth' = depth - 1
  /\ frame' = [frame EXCEPT ![depth] = Idle]

Goto(step) ==
  /\ frame' = [frame EXCEPT ![depth].pc = step]
  /\ UNCHANGED depth

(* The end of dispatch_once: a tracked call goes on to release its claim,  *)
(* whatever dispatch_once returned.                                        *)
EndDispatchUntracked == Pop      \* mutant: an early return past the release

EndDispatch == IF Top.owner = NoOwner THEN Pop ELSE Goto("release")

---------------------------------------------------------------------------
(* Writes.                                                                 *)

Fault   == faults < MaxFaults /\ faults' = faults + 1
NoFault == UNCHANGED faults

Append1(e) == ledger' = Append(ledger, e)
Here       == Len(ledger) + 1        \* position of the event being appended

(* update_intent_projection / the upsert of submit_intent.                 *)
UpsertIntentRow(i, s) ==
  intentProj' = [intentProj EXCEPT ![i] = [status |-> s, event |-> Here]]

(* ProjectionEngine.update_from_event.                                     *)
InsertRunRow(r, s) ==      \* mutant: no ON CONFLICT, one row per event
  runProj' = runProj \union {[run |-> r, state |-> s, event |-> Here]}

UpsertRunRow(r, s) ==
  runProj' = {row \in runProj : row.run # r}
               \union {[run |-> r, state |-> s, event |-> Here]}

(* A best-effort projection write: done, or lost and never retried.        *)
BestEffort(table, write, unchanged) ==
  \/ write /\ UNCHANGED stale /\ NoFault
  \/ unchanged /\ stale' = stale \union {table} /\ Fault

(* An append that fails leaves the whole database as it is.                *)
AppendFails == Fault /\ UNCHANGED db

AppendIntentEventToInbox(e) ==      \* mutant: keeps inbox_entries current too
  /\ Append1(e)
  /\ inbox' = [inbox EXCEPT ![e.intent] = StatusByType[e.type]]
  /\ BestEffort("intents", UpsertIntentRow(e.intent, StatusByType[e.type]),
                UNCHANGED intentProj)
  /\ UNCHANGED <<claimProj, runProj>>

AppendIntentEvent(e) ==
  /\ Append1(e)
  /\ BestEffort("intents", UpsertIntentRow(e.intent, StatusByType[e.type]),
                UNCHANGED intentProj)
  /\ UNCHANGED <<inbox, claimProj, runProj>>

AppendRunEvent(e) ==
  /\ Append1(e)
  /\ BestEffort("runs", UpsertRunRow(e.run, e.type), UNCHANGED runProj)
  /\ UNCHANGED <<inbox, intentProj, claimProj>>

(* An event with no table of this module behind it, written best-effort.   *)
AppendNote(e) ==
  /\ Append1(e)
  /\ NoFault
  /\ UNCHANGED <<inbox, intentProj, claimProj, runProj, stale>>

Note(e) == AppendNote(e) \/ AppendFails

---------------------------------------------------------------------------
(* InboxKernel.submit_intent.  The ledger comes first; inbox_entries and   *)
(* intent_projection follow in one transaction.  A failure of that second  *)
(* transaction is reported like a failed append, without the id.           *)

Known(i) == \E k \in DOMAIN ledger : Mentions(ledger[k], i)

Submit(i, type, nested) ==
  /\ CanCall
  /\ ~Known(i)
  /\ \/ /\ Append1(SubmitEvent(type, i, nested))
        /\ \/ /\ inbox' = [inbox EXCEPT ![i] = StatusByType[type]]
              /\ UpsertIntentRow(i, StatusByType[type])
              /\ UNCHANGED stale
              /\ NoFault
           \/ /\ stale' = stale \union {"inbox", "intents"}
              /\ UNCHANGED <<inbox, intentProj>>
              /\ Fault
        /\ UNCHANGED <<claimProj, runProj>>
     \/ AppendFails
  /\ UNCHANGED <<calls, invocations>>

(* What the caller's payload may carry: nothing, or another intent's id.   *)
Payloads == {{}} \union (IF NestedIds THEN {{j} : j \in {k \in Intents : Known(k)}} ELSE {})

SubmitAccepted(i) == \E nested \in Payloads : Submit(i, "intent_submitted", nested)
SubmitRejected(i) == \E nested \in Payloads : Submit(i, "intent_rejected", nested)

---------------------------------------------------------------------------
(* ClaimKernel.claim_intent and release_claim.                             *)

(* The status is read from the ledger, never from intent_projection.       *)
PendingByProjection(i) == intentProj[i].status = "PENDING"      \* mutant

Pending(i) == Status(ledger, i) = "PENDING"

ClaimableByProjection(i, o) ==      \* mutant: trusts intent_claim_projection
  o # NoOwner /\ Pending(i) /\ claimProj[i] = NoClaimRow

ClaimableAtAnyStatus(i, o) ==      \* mutant: an intent that runs may be claimed
  o # NoOwner /\ ActiveClaim(ledger, i) = NoId

Claimable(i, o) ==
  /\ o # NoOwner                       \* owner_id is a non-empty string
  /\ Pending(i)
  /\ ActiveClaim(ledger, i) = NoId

RejectClaim(i, o) == Note(ClaimEvent("intent_claim_rejected", i, NoId, o))

EstablishClaim(i, o) ==
  /\ Append1(ClaimEvent("intent_claim_established", i, Here, o))
  /\ BestEffort("claims",
                claimProj' = [claimProj EXCEPT ![i] = [claim |-> Here, owner |-> o]],
                UNCHANGED claimProj)
  /\ UNCHANGED <<inbox, intentProj, runProj>>

ClaimIntent(i, o) ==
  /\ CanCall
  /\ IF Claimable(i, o) THEN EstablishClaim(i, o) \/ AppendFails
     ELSE CanRefuse /\ RejectClaim(i, o)
  /\ UNCHANGED <<calls, invocations>>

Releasable(i, o) ==
  /\ o # NoOwner
  /\ ActiveClaim(ledger, i) # NoId
  /\ ledger[ActiveClaim(ledger, i)].owner = o

ReleaseClaim(i, o) ==
  LET active == ActiveClaim(ledger, i)
  IN  IF ~Releasable(i, o)
      THEN Note(ClaimEvent("intent_release_rejected", i, IF o = NoOwner THEN NoId ELSE active, o))
      ELSE \/ /\ Append1(ClaimEvent("intent_released", i, active, o))
              /\ BestEffort("claims",
                            claimProj' = [claimProj EXCEPT ![i] = NoClaimRow],
                            UNCHANGED claimProj)
              /\ UNCHANGED <<inbox, intentProj, runProj>>
           \/ AppendFails

CallRelease(i, o) ==
  /\ CanCall
  /\ Releasable(i, o) \/ CanRefuse
  /\ ReleaseClaim(i, o)
  /\ UNCHANGED <<calls, invocations>>

---------------------------------------------------------------------------
(* dispatch_once, dispatch_with_provenance and their tracked forms.        *)

NewFrame(i, named, o, c, capture) ==
  [pc |-> "dispatch", intent |-> i, named |-> named,
   owner |-> o, claim |-> c, capture |-> capture, run |-> NoId]

Dispatch(i, named, capture) ==
  /\ CanCall
  /\ Push(NewFrame(i, named, NoOwner, NoId, capture))
  /\ UNCHANGED <<db, invocations, faults>>

(* dispatch_and_track: a claim that is refused means no dispatch at all.   *)
DispatchAndTrack(i, named, o, capture) ==
  /\ CanCall
  /\ IF Claimable(i, o)
     THEN \/ EstablishClaim(i, o) /\ Push(NewFrame(i, named, o, Here, capture))
          \/ AppendFails /\ UNCHANGED calls
     ELSE CanRefuse /\ RejectClaim(i, o) /\ UNCHANGED calls
  /\ UNCHANGED invocations

(* Steps 1 to 5: an intent that is not PENDING (or not known), and a worker*)
(* without a usable name, are refused before anything is appended.         *)
BeginDispatchUnconfirmed ==      \* mutant: goes on though the append failed
  /\ At("dispatch")
  /\ IF Pending(Top.intent) /\ Top.named
     THEN /\ AppendIntentEvent(IntentEvent("intent_claimed", Top.intent)) \/ AppendFails
          /\ Goto(IF Top.capture THEN "provenance" ELSE "run")
     ELSE UNCHANGED <<db, faults>> /\ EndDispatch
  /\ UNCHANGED invocations

BeginDispatchProjectsFirst ==      \* mutant: the projection before the append
  /\ At("dispatch")
  /\ IF Pending(Top.intent) /\ Top.named
     THEN \/ /\ AppendIntentEvent(IntentEvent("intent_claimed", Top.intent))
             /\ Goto(IF Top.capture THEN "provenance" ELSE "run")
          \/ /\ UpsertIntentRow(Top.intent, "RUNNING")
             /\ Fault /\ EndDispatch
             /\ UNCHANGED <<ledger, inbox, claimProj, runProj, stale>>
     ELSE UNCHANGED <<db, faults>> /\ EndDispatch
  /\ UNCHANGED invocations

BeginDispatch ==
  /\ At("dispatch")
  /\ IF Pending(Top.intent) /\ Top.named
     THEN \/ /\ AppendIntentEvent(IntentEvent("intent_claimed", Top.intent))
             /\ Goto(IF Top.capture THEN "provenance" ELSE "run")
          \/ AppendFails /\ EndDispatch
     ELSE UNCHANGED <<db, faults>> /\ EndDispatch
  /\ UNCHANGED invocations

(* A capture step of dispatch_with_provenance: the snapshot is recorded,   *)
(* or its failure is, or neither can be; only the first goes on.           *)
Capture(step, captured, failed, next) ==
  /\ At(step)
  /\ \/ AppendNote(IntentEvent(captured, Top.intent)) /\ Goto(next)
     \/ AppendNote(IntentEvent(failed, Top.intent)) /\ Goto("abort")
     \/ AppendFails /\ Goto("abort")
  /\ UNCHANGED invocations

CaptureProvenance ==
  Capture("provenance", "provenance_captured", "provenance_capture_failed", "environment")

CaptureEnvironmentOrGiveUp ==      \* mutant: returns without failing the intent
  /\ At("environment")
  /\ \/ AppendNote(IntentEvent("environment_captured", Top.intent)) /\ Goto("run")
     \/ AppendNote(IntentEvent("environment_capture_failed", Top.intent)) /\ EndDispatch
     \/ AppendFails /\ EndDispatch
  /\ UNCHANGED invocations

CaptureEnvironment ==
  Capture("environment", "environment_captured", "environment_capture_failed", "run")

(* Step 6: create_run, then state_running, then straight into the worker.  *)
CreateRun ==
  /\ At("run")
  /\ \/ /\ AppendRunEvent(RunEvent("run_created", Top.intent, Here))
        /\ frame' = [frame EXCEPT ![depth].pc = "running", ![depth].run = Here]
        /\ UNCHANGED depth
     \/ AppendFails /\ EndDispatch
  /\ UNCHANGED invocations

(* append_lifecycle_event: only along ALLOWED_TRANSITIONS.                 *)
CanFollow(type, r) ==
  /\ RunState(ledger, r) \in RunTypes
  /\ type \in AllowedRunTransitions[RunState(ledger, r)]

StartRunning ==
  /\ At("running")
  /\ IF CanFollow("state_running", Top.run)
     THEN \/ /\ AppendRunEvent(RunEvent("state_running", NoIntent, Top.run))
             /\ invocations' = [invocations EXCEPT ![Top.intent] = @ + 1]
             /\ Goto("invoke")
          \/ AppendFails /\ EndDispatch /\ UNCHANGED invocations
     ELSE UNCHANGED <<db, faults, invocations>> /\ EndDispatch

(* Steps 7 to 9: the worker returns success, or failure (an exception      *)
(* counts as one), and the result is recorded; or it cannot be, because    *)
(* the append fails or because its outputs are not canonical JSON.         *)
RecordArtifactUnconfirmed ==      \* mutant: goes on though the append failed
  /\ At("invoke")
  /\ IF CanFollow("artifact_written", Top.run)
     THEN /\ AppendRunEvent(RunEvent("artifact_written", NoIntent, Top.run)) \/ AppendFails
          /\ \E outcome \in {"completed", "failed"} : Goto(outcome)
     ELSE UNCHANGED <<db, faults>> /\ EndDispatch
  /\ UNCHANGED invocations

RecordArtifact ==
  /\ At("invoke")
  /\ IF CanFollow("artifact_written", Top.run)
     THEN \/ /\ AppendRunEvent(RunEvent("artifact_written", NoIntent, Top.run))
             /\ \E outcome \in {"completed", "failed"} : Goto(outcome)
          \/ AppendFails /\ EndDispatch
     ELSE UNCHANGED <<db, faults>> /\ EndDispatch
  /\ UNCHANGED invocations

(* Step 10, and _fail_intent_after_provenance_failure.                     *)
Conclude(step, type) ==
  /\ At(step)
  /\ \/ AppendIntentEvent(IntentEvent(type, Top.intent))
     \/ AppendFails
  /\ EndDispatch
  /\ UNCHANGED invocations

CompleteIntent == Conclude("completed", "intent_completed")
FailIntent     == Conclude("failed", "intent_failed")

AbortIntentThenRun ==      \* mutant: a failed capture does not stop the run
  /\ At("abort")
  /\ AppendIntentEvent(IntentEvent("intent_failed", Top.intent)) \/ AppendFails
  /\ Goto("run")
  /\ UNCHANGED invocations

AbortIntent == Conclude("abort", "intent_failed")

(* The release of a tracked call: by owner, reported when it fails, never  *)
(* retried.                                                                *)
TrackedRelease ==
  /\ At("release")
  /\ ReleaseClaim(Top.intent, Top.owner)
  /\ Pop
  /\ UNCHANGED invocations

DispatchStep ==
  \/ BeginDispatch \/ CaptureProvenance \/ CaptureEnvironment
  \/ CreateRun \/ StartRunning \/ RecordArtifact
  \/ CompleteIntent \/ FailIntent \/ AbortIntent \/ TrackedRelease

---------------------------------------------------------------------------
(* A crash ends the process; the next one starts with no call in progress. *)

Crash ==
  /\ depth > 0
  /\ Fault
  /\ depth' = 0
  /\ frame' = [d \in 1 .. MaxDepth |-> Idle]
  /\ UNCHANGED <<db, invocations>>

(* The rebuilds that replay_history runs, each a transaction of its own:   *)
(* a replay that stops half-way has run some of them and not the others.   *)

Rebuild(table) ==
  /\ depth = 0
  /\ stale' = stale \ {table}
  /\ UNCHANGED <<ledger, calls, invocations, faults>>

RebuildInboxEntries ==
  /\ Rebuild("inbox")
  /\ inbox' = [i \in Intents |-> ExpectedInboxRow(ledger, i)]
  /\ UNCHANGED <<intentProj, claimProj, runProj>>

RebuildIntentProjection ==
  /\ Rebuild("intents")
  /\ intentProj' = [i \in Intents |-> ExpectedIntentRow(ledger, i)]
  /\ UNCHANGED <<inbox, claimProj, runProj>>

ClaimRow(i, c) ==
  IF c = NoId THEN NoClaimRow ELSE [claim |-> c, owner |-> ledger[c].owner]

RebuildClaimProjection ==
  /\ Rebuild("claims")
  /\ claimProj' = [i \in Intents |-> ClaimRow(i, ActiveClaim(ledger, i))]
  /\ UNCHANGED <<inbox, intentProj, runProj>>

RebuildProjection ==
  /\ Rebuild("runs")
  /\ runProj' = ExpectedRunRows(ledger)
  /\ UNCHANGED <<inbox, intentProj, claimProj>>

---------------------------------------------------------------------------

Init ==
  /\ ledger = <<>>
  /\ inbox = [i \in Intents |-> "NONE"]
  /\ intentProj = [i \in Intents |-> NoIntentRow]
  /\ claimProj = [i \in Intents |-> NoClaimRow]
  /\ runProj = {}
  /\ frame = [d \in 1 .. MaxDepth |-> Idle]
  /\ depth = 0
  /\ stale = {}
  /\ invocations = [i \in Intents |-> 0]
  /\ faults = 0

Call ==
  \E i \in Intents :
    \/ SubmitAccepted(i)
    \/ SubmitRejected(i)
    \/ \E o \in Owners \union {NoOwner} : ClaimIntent(i, o) \/ CallRelease(i, o)
    \/ \E named \in BOOLEAN, capture \in Captures :
         \/ Dispatch(i, named, capture)
         \/ \E o \in Owners \union {NoOwner} : DispatchAndTrack(i, named, o, capture)

Rebuilds ==
  RebuildInboxEntries \/ RebuildIntentProjection \/ RebuildClaimProjection \/ RebuildProjection

Next == Call \/ DispatchStep \/ Crash \/ Rebuilds

Spec == Init /\ [][Next]_vars

(* A started call is executed to its end by the thread that made it, and a *)
(* worker that was invoked returns: invoke_worker has no timeout, so this  *)
(* is an assumption about workers.  Nothing obliges a caller to call.      *)
FairSpec == Spec /\ WF_vars(DispatchStep)

---------------------------------------------------------------------------
(*                              Properties                                 *)

(* The possible values of every variable.                                  *)
TypeOK ==
  /\ ledger \in Seq(Event)
  /\ inbox \in [Intents -> {"NONE", "PENDING", "REJECTED"}]
  /\ intentProj \in [Intents -> [status : {"NONE", "PENDING", "RUNNING", "REJECTED",
                                          "COMPLETED", "FAILED"}, event : Nat]]
  /\ claimProj \in [Intents -> [claim : Nat, owner : Owners \union {NoOwner}]]
  /\ \A row \in runProj : row \in [run : Nat, state : RunTypes, event : Nat]
  /\ frame \in [1 .. MaxDepth -> Frame]
  /\ depth \in 0 .. MaxDepth
  /\ stale \subseteq Tables
  /\ invocations \in [Intents -> Nat]
  /\ faults \in 0 .. MaxFaults

(* No intent is claimed for execution twice (check_duplicate_claims): not  *)
(* after a crash, not by a worker that dispatches, not after a failed call.*)
SingleClaim ==
  \A i \in Intents, j, k \in DOMAIN ledger :
    (/\ ledger[j].type = "intent_claimed" /\ ledger[j].intent = i
     /\ ledger[k].type = "intent_claimed" /\ ledger[k].intent = i) => j = k

(* No worker runs twice for one intent, across crashes and restarts: what  *)
(* was interrupted is left RUNNING, never started again.                   *)
AtMostOneInvocation == \A i \in Intents : invocations[i] <= 1

(* The intent events of each intent follow ALLOWED_INTENT_TRANSITIONS from *)
(* a submission on: check_intent_transitions never reports anything.       *)
LegalIntentHistory ==
  \A i \in Intents : \A k \in RowsOf(ledger, i) :
    LET before == {m \in RowsOf(ledger, i) : m < k}
    IN  IF before = {} THEN ledger[k].type \in {"intent_submitted", "intent_rejected"}
        ELSE ledger[k].type \in AllowedIntentTransitions[ledger[LastOf(before)].type]

(* Ownership is exclusive: between two claims of an intent the first is    *)
(* released by its owner, and a release names a claim that was active:     *)
(* check_claim_history reports neither DUPLICATE_ACTIVE_CLAIM nor          *)
(* RELEASE_OWNER_MISMATCH.                                                 *)
ExclusiveClaims ==
  /\ \A i \in Intents, j, k \in DOMAIN ledger :
       (/\ j < k
        /\ ledger[j].type = "intent_claim_established" /\ ledger[j].intent = i
        /\ ledger[k].type = "intent_claim_established" /\ ledger[k].intent = i)
          => \E m \in DOMAIN ledger : m < k /\ Releases(ledger, m, j)
  /\ \A m \in DOMAIN ledger :
       ledger[m].type = "intent_released" =>
         \E k \in DOMAIN ledger :
           /\ ledger[k].type = "intent_claim_established" /\ Releases(ledger, m, k)
           /\ \A n \in DOMAIN ledger : Releases(ledger, n, k) => n = m

(* `leira audit` accuses nobody wrongly: what it works out with walks of   *)
(* its own agrees with how the kernels read the ledger, so the history is  *)
(* never reported, and a table only when it missed a write.                *)
AuditAccusesOnlyLostWrites ==
  /\ HistoryErrors(ledger) = {}
  /\ CheckIntents(ledger, inbox, intentProj) # {} => stale \cap {"inbox", "intents"} # {}
  /\ CheckClaimProjection(ledger, claimProj) # {} => "claims" \in stale
  /\ CheckProjections(ledger, runProj) # {} => "runs" \in stale

(* While dispatch_and_track works on an intent no claim but its own is     *)
(* active on it, even if the worker releases that one and claims again.    *)
NoForeignOwner ==
  \A d \in 1 .. depth :
    frame[d].owner # NoOwner =>
      ActiveClaim(ledger, frame[d].intent) \in {NoId, frame[d].claim}

(* An outcome rests on evidence: an intent is COMPLETED, or FAILED after   *)
(* its worker ran, only behind the artifact of a run made for it.          *)
OutcomeHasArtifact ==
  \A k \in DOMAIN ledger :
    ledger[k].type \in {"intent_completed", "intent_failed"} =>
      LET i == ledger[k].intent
      IN  \/ \E a, r \in 1 .. k - 1 :
               /\ ledger[a].type = "artifact_written" /\ ledger[a].run = r
               /\ ledger[r].type = "run_created" /\ ledger[r].intent = i
          \/ ledger[k].type = "intent_failed" /\ invocations[i] = 0

(* A table that missed no write since its last rebuild says what a rebuild *)
(* from the ledger would say: the live writes and the replay agree, so the *)
(* auditor's projection checks hold.                                       *)
LiveEqualsRebuilt ==
  /\ "inbox" \notin stale => \A i \in Intents : inbox[i] = ExpectedInboxRow(ledger, i)
  /\ "intents" \notin stale =>
       \A i \in Intents : intentProj[i] = ExpectedIntentRow(ledger, i)
  /\ "claims" \notin stale =>
       \A i \in Intents : claimProj[i] = ClaimRow(i, ActiveClaim(ledger, i))
  /\ "runs" \notin stale => runProj = ExpectedRunRows(ledger)

(* A table that did miss writes is only behind: each of its rows is what   *)
(* an event of the ledger once established, never something unrecorded.    *)
RowsWereRecorded ==
  /\ \A i \in Intents :
       /\ intentProj[i] # NoIntentRow =>
            LET k == intentProj[i].event
            IN  /\ k \in RowsOf(ledger, i)
                /\ StatusByType[ledger[k].type] = intentProj[i].status
       /\ claimProj[i] # NoClaimRow =>
            LET k == claimProj[i].claim
            IN  /\ k \in DOMAIN ledger
                /\ ledger[k] = ClaimEvent("intent_claim_established", i, k, claimProj[i].owner)
       /\ inbox[i] # "NONE" => inbox[i] = ExpectedInboxRow(ledger, i)
  /\ \A row \in runProj :
       /\ row.event \in RunRows(ledger, row.run)
       /\ row.state = ledger[row.event].type

(* The statuses that get_intent_status reads from the ledger move as the   *)
(* abstract specification allows: one legal step of one intent at a time.  *)
Abstract == INSTANCE IntentLifecycle WITH status <- [i \in Intents |-> Status(ledger, i)]

ImplementsLifecycle == Abstract!Spec

(* An intent that is RUNNING gets its outcome, unless something failed:    *)
(* the thread that claimed it carries the call to its end.                 *)
RunningEnds ==
  \A i \in Intents :
    (Status(ledger, i) = "RUNNING")
      ~> (Status(ledger, i) \in {"COMPLETED", "FAILED"} \/ faults > 0)

(* A tracked call gives its claim back, whatever dispatch_once returned,   *)
(* unless something failed: only a fault leaves an orphan.                 *)
TrackedClaimEnds ==
  \A i \in Intents :
    (\E d \in 1 .. depth : frame[d].intent = i /\ frame[d].owner # NoOwner)
      ~> (ActiveClaim(ledger, i) = NoId \/ faults > 0)

(* submit_intent's docstring: when the inbox_entries/intent_projection     *)
(* write fails and intent_id=None is returned, nothing was recorded.       *)
FailedSubmitRecordsNothing ==
  [][ "inbox" \in stale' \ stale => ledger' = ledger ]_vars

===========================================================================
