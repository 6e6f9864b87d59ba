--------------------------- MODULE RecordLedger ---------------------------
(***************************************************************************)
(* The ledger as the record-keeping parts of Leira share it: the worker    *)
(* registry, sessions, captures, receipts, the workspace and the archive   *)
(* all append to it, keep tables derived from it, and find their events by *)
(* their payloads.  Every module of those parts EXTENDS this one, and so   *)
(* they all speak of the same ledger; RecordSystem composes them.          *)
(*                                                                         *)
(* An event keeps the part of its payload that one of them reads:          *)
(*   type    event_type                                                    *)
(*   intent  intent_id, at the top of the payload or in its content        *)
(*   nested  ids of intents that a caller's or a worker's own data carries *)
(*           under a key "intent_id"                                       *)
(*   op      operation_id (read of run_created only)                       *)
(*   id      run_id or session_id                                          *)
(*   name    worker_name                                                   *)
(*   path, content   relative_path and the bytes behind sha256, size_bytes *)
(*   back    created_at lies before that of the preceding event            *)
(* A uuid4 is new whenever it is made: a run, a session, a snapshot or an  *)
(* artifact is known by the position of the event that first carries it,   *)
(* an intent by a member of Intents that nothing mentions yet.             *)
(*                                                                         *)
(* A step is one call: the process is single-threaded, and of what its     *)
(* calls leave behind only the appends and the files survive a crash.      *)
(* A crash between an append and the table write that follows it leaves    *)
(* what a failed write leaves, so it is not a step of its own.             *)
(*                                                                         *)
(* Bounds: scope, chosen at the start and never changed, says which parts  *)
(* a behaviour exercises, how many events its ledger may hold when a call  *)
(* starts, how many faults happen and whether data carries foreign ids;    *)
(* one run of TLC checks the small instances of Scopes side by side.       *)
(***************************************************************************)
EXTENDS Naturals, Sequences, FiniteSets

CONSTANTS
  Intents, NoIntent,
  Names, NoName,         \* worker names
  Spellings, NoPath,     \* relative paths as callers write them
  Contents, NoContent,   \* what a file holds
  Scopes                 \* the instances to check

ASSUME NoIntentAssumption  == NoIntent \notin Intents
ASSUME NoNameAssumption    == NoName \notin Names
ASSUME NoPathAssumption    == NoPath \notin Spellings
ASSUME NoContentAssumption ==
  /\ NoContent \notin Contents
  /\ {"partial", "damaged", "directory"} \intersect (Contents \union {NoContent}) = {}

Parts == {"intents", "registry", "sessions", "captures", "receipts",
          "workspace", "archive", "clock"}

Scope == [parts : SUBSET Parts, events : Nat, faults : Nat, nesting : BOOLEAN]

ASSUME ScopesAssumption == Scopes \subseteq Scope

VARIABLES
  ledger,  \* ledger_events, in rowid order
  stale,   \* the tables that missed a write since their last rebuild
  clock,   \* was the clock set back since the last append?
  faults,  \* faults so far (bounds the model)
  scope    \* the instance this behaviour belongs to

ledgerVars == <<ledger, stale, clock, faults, scope>>

NoId == 0

Tables == {"workers", "sessions", "provenance", "environment", "artifacts", "receipts"}

---------------------------------------------------------------------------
(* Events.                                                                 *)

SubmissionTypes == {"intent_submitted", "intent_rejected"}
IntentTypes     == SubmissionTypes \union {"intent_claimed", "intent_completed", "intent_failed"}
RunTypes        == {"run_created", "state_running", "artifact_written", "state_completed"}
ProvenanceTypes == {"provenance_captured", "provenance_capture_failed"}
EnvironmentTypes == {"environment_captured", "environment_capture_failed"}

EventTypes ==
  IntentTypes \union RunTypes \union ProvenanceTypes \union EnvironmentTypes
    \union {"worker_registered", "worker_registration_rejected",
            "session_created", "session_intent_added", "session_intent_rejected",
            "artifact_file_written", "artifact_write_rejected"}

Event ==
  [type : EventTypes, intent : Intents \union {NoIntent}, nested : SUBSET Intents,
   op : Intents \union {NoIntent}, id : Nat, name : Names \union {NoName},
   path : Spellings \union {NoPath}, content : Contents \union {NoContent},
   back : BOOLEAN]

EventAbout(t, i) ==
  [type |-> t, intent |-> i, nested |-> {}, op |-> NoIntent, id |-> NoId, name |-> NoName,
   path |-> NoPath, content |-> NoContent, back |-> FALSE]

FirstOf(S) == CHOOSE k \in S : \A m \in S : k <= m
LastOf(S)  == CHOOSE k \in S : \A m \in S : m <= k

OfType(L, types) == {k \in DOMAIN L : L[k].type \in types}

(* payload_json LIKE '%"intent_id":"i"%': at any depth of the payload.     *)
Mentions(e, i) == e.intent = i \/ i \in e.nested

---------------------------------------------------------------------------
(* Writes.                                                                 *)

CanCall(part) == part \in scope.parts /\ Len(ledger) < scope.events

Fault   == faults < scope.faults /\ faults' = faults + 1
NoFault == UNCHANGED faults

Here == Len(ledger) + 1        \* the position of the event being appended

Append1(e) ==
  /\ ledger' = Append(ledger, [e EXCEPT !.back = clock])
  /\ clock' = FALSE
  /\ UNCHANGED scope

(* An append that fails leaves the whole database as it is.                *)
AppendFails == Fault /\ UNCHANGED <<ledger, stale, clock, scope>>

(* A table write that follows an append: done, or lost and never retried.  *)
TableWrite(table, write, unchanged) ==
  \/ write /\ UNCHANGED stale /\ NoFault
  \/ unchanged /\ stale' = stale \union {table} /\ Fault

(* An append whose result nobody looks at: the record of a refusal.        *)
Record(e) == (Append1(e) /\ UNCHANGED stale /\ NoFault) \/ AppendFails

(* replay_history rebuilds one table after the other, each in a            *)
(* transaction of its own.                                                 *)
Rebuild(table) ==
  /\ stale' = stale \ {table}
  /\ UNCHANGED <<ledger, clock, faults, scope>>

(* created_at is wall-clock time.                                          *)
ClockStepsBack ==
  /\ CanCall("clock")
  /\ ledger # <<>>
  /\ ~clock
  /\ clock' = TRUE
  /\ Fault
  /\ UNCHANGED <<ledger, stale, scope>>

LedgerInit ==
  /\ ledger = <<>>
  /\ stale = {}
  /\ clock = FALSE
  /\ faults = 0
  /\ scope \in Scopes

LedgerTypeOK ==
  /\ ledger \in Seq(Event)
  /\ stale \subseteq Tables
  /\ clock \in BOOLEAN
  /\ faults \in Nat
  /\ scope \in Scopes

===========================================================================
