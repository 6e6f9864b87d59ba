--------------------------- MODULE LedgerEvents ---------------------------
(***************************************************************************)
(* The ledger as a sequence of events, and the views every part of Leira   *)
(* derives from it: the status of an intent, its active claim, the state   *)
(* of a run.  An event keeps the part of its payload those views read.     *)
(*                                                                         *)
(*   type    event_type                                                    *)
(*   intent  payload["intent_id"] (or operation_id of a run_created)       *)
(*   nested  ids of other intents that the caller's own payload carries    *)
(*           under a key "intent_id" (intent_submitted only)               *)
(*   run     payload["run_id"]                                             *)
(*   claim   payload["claim_id"], owner payload["owner_id"]                *)
(*                                                                         *)
(* A uuid4 is new whenever it is made.  An intent id is a member of        *)
(* Intents that no event mentions yet; a run id or a claim id is the       *)
(* position of the event that first carries it.  NoId = 0 is no id.        *)
(***************************************************************************)
EXTENDS Naturals, Sequences, FiniteSets

CONSTANTS Intents, Owners, NoIntent, NoOwner

ASSUME NoIntentAssumption == NoIntent \notin Intents
ASSUME NoOwnerAssumption == NoOwner \notin Owners

NoId == 0

---------------------------------------------------------------------------
(* Event types and what they establish.                                    *)

IntentTypes ==
  {"intent_submitted", "intent_rejected", "intent_claimed",
   "intent_completed", "intent_failed"}

StatusByType ==
  [t \in IntentTypes |->
     CASE t = "intent_submitted" -> "PENDING"
       [] t = "intent_rejected"  -> "REJECTED"
       [] t = "intent_claimed"   -> "RUNNING"
       [] t = "intent_completed" -> "COMPLETED"
       [] t = "intent_failed"    -> "FAILED"]

TerminalTypes == {"intent_rejected", "intent_completed", "intent_failed"}

AllowedIntentTransitions ==
  [t \in IntentTypes |->
     CASE t = "intent_submitted" -> {"intent_claimed"}
       [] t = "intent_claimed"   -> {"intent_completed", "intent_failed"}
       [] t \in TerminalTypes    -> {}]

RunTypes == {"run_created", "state_running", "artifact_written", "state_completed"}

AllowedRunTransitions ==
  [t \in RunTypes |->
     CASE t = "run_created"      -> {"state_running"}
       [] t = "state_running"    -> {"artifact_written"}
       [] t = "artifact_written" -> {"state_completed"}
       [] t = "state_completed"  -> {}]

OtherTypes ==
  {"intent_claim_established", "intent_released", "intent_claim_rejected",
   "intent_release_rejected", "provenance_captured", "provenance_capture_failed",
   "environment_captured", "environment_capture_failed"}

Event ==
  [type : IntentTypes \union RunTypes \union OtherTypes,
   intent : Intents \union {NoIntent}, nested : SUBSET Intents,
   run : Nat, claim : Nat, owner : Owners \union {NoOwner}]

IntentEvent(t, i) ==
  [type |-> t, intent |-> i, nested |-> {}, run |-> NoId, claim |-> NoId, owner |-> NoOwner]

SubmitEvent(t, i, nested) == [IntentEvent(t, i) EXCEPT !.nested = nested]

RunEvent(t, i, r) == [IntentEvent(t, i) EXCEPT !.run = r]

ClaimEvent(t, i, c, o) == [IntentEvent(t, i) EXCEPT !.claim = c, !.owner = o]

---------------------------------------------------------------------------
(* First and last position of a set of positions: ORDER BY rowid.          *)

FirstOf(S) == CHOOSE k \in S : \A m \in S : k <= m
LastOf(S)  == CHOOSE k \in S : \A m \in S : m <= k

(* The rows get_intent_status selects: payload_json LIKE '%"intent_id":"i"%'*)
(* also matches an id that sits inside the caller's own payload.           *)
Mentions(e, i) == e.intent = i \/ i \in e.nested

RowsLike(L, i) == {k \in DOMAIN L : L[k].type \in IntentTypes /\ Mentions(L[k], i)}

(* The rows a rebuild and the auditor attribute to i: payload["intent_id"].*)
RowsOf(L, i) == {k \in DOMAIN L : L[k].type \in IntentTypes /\ L[k].intent = i}

(* The walk over those rows: stop at the first terminal one, else the last.*)
Deciding(L, rows) ==
  LET terminal == {k \in rows : L[k].type \in TerminalTypes}
  IN  IF terminal # {} THEN FirstOf(terminal) ELSE LastOf(rows)

Status(L, i) ==
  IF RowsLike(L, i) = {} THEN "NONE"
  ELSE StatusByType[L[Deciding(L, RowsLike(L, i))].type]

(* One row of intent_projection as a rebuild computes it: status and       *)
(* last_event_id; event NoId is no row.                                    *)
ExpectedIntentRow(L, i) ==
  IF RowsOf(L, i) = {} THEN [status |-> "NONE", event |-> NoId]
  ELSE LET k == Deciding(L, RowsOf(L, i))
       IN  [status |-> StatusByType[L[k].type], event |-> k]

(* One row of inbox_entries: the submission's own status, kept for ever.   *)
ExpectedInboxRow(L, i) ==
  LET rows == {k \in RowsOf(L, i) : L[k].type \in {"intent_submitted", "intent_rejected"}}
  IN  IF rows = {} THEN "NONE" ELSE StatusByType[L[FirstOf(rows)].type]

---------------------------------------------------------------------------
(* Claims.  An established claim is active until a later release names its *)
(* claim id and its owner.  The models read the active claim that way;     *)
(* ReplayClaim is replay_claim_events itself, the loop that carries the    *)
(* active claim along (its claim id, NoId for None).  The auditor uses it, *)
(* so AuditAccusesOnlyLostWrites compares the two.                         *)

Releases(L, m, k) ==
  /\ m > k
  /\ L[m].type = "intent_released"
  /\ L[m].intent = L[k].intent
  /\ L[m].claim = L[k].claim
  /\ L[m].owner = L[k].owner

ActiveClaims(L, i) ==
  {k \in DOMAIN L :
     /\ L[k].type = "intent_claim_established"
     /\ L[k].intent = i
     /\ \A m \in DOMAIN L : ~Releases(L, m, k)}

ActiveClaim(L, i) == IF ActiveClaims(L, i) = {} THEN NoId ELSE FirstOf(ActiveClaims(L, i))

ReplayClaim(L, i) ==
  LET active[n \in 0 .. Len(L)] ==
        IF n = 0 THEN NoId
        ELSE LET was == active[n - 1]
             IN  CASE L[n].type = "intent_claim_established" /\ L[n].intent = i /\ was = NoId
                        -> L[n].claim
                   [] /\ L[n].type = "intent_released" /\ L[n].intent = i /\ was # NoId
                      /\ L[n].claim = was /\ L[n].owner = L[was].owner
                        -> NoId
                   [] OTHER -> was
  IN  active[Len(L)]

---------------------------------------------------------------------------
(* Runs: the type of the latest event that carries the run id.  Here only  *)
(* a run's own events carry it: get_run_state would also find the id in    *)
(* other people's payloads (lifecycle.py:295-303), and what that does to   *)
(* runs is the matter of RunLifecycle.                                     *)

RunRows(L, r) == {k \in DOMAIN L : L[k].type \in RunTypes /\ L[k].run = r}

RunState(L, r) == IF RunRows(L, r) = {} THEN "NONE" ELSE L[LastOf(RunRows(L, r))].type

RunIds(L) == {L[k].run : k \in {m \in DOMAIN L : L[m].type \in RunTypes}}

(* operation_state_projection as a rebuild computes it.                    *)
ExpectedRunRows(L) ==
  {[run |-> r, state |-> RunState(L, r), event |-> LastOf(RunRows(L, r))] : r \in RunIds(L)}

===========================================================================
