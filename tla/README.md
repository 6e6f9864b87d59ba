# Leira, specified, model-checked and proved

Leira (`src/leira/`, Python) keeps an append-only, hash-chained SQLite ledger
and derives everything else from it: the status of an intent, who has claimed
it, the state of a run, sessions, receipts, artifacts. This directory holds
TLA+ models of its core, the TLC runs that check them on small instances, and
TLAPS proofs of what matters most for instances of any size.

## 1. Inventory

| Component | Source | State | Operations | Depends on |
|---|---|---|---|---|
| Ledger kernel | `dispatcher/kernel.py`, `schema.sql` | `ledger_events` | `append_event`, `validate_chain` | SQLite |
| Inbox | `inbox/inbox.py` | `inbox_entries`, `intent_projection` | `submit_intent`, `get_intent_status`, `update_intent_projection`, `rebuild_intent_projection` | ledger |
| Claims | `claims/claims.py` | `intent_claim_projection` | `claim_intent`, `release_claim`, `get_claim`, `replay_claim_events`, `rebuild_claim_projection` | ledger, inbox status |
| Run lifecycle | `dispatcher/lifecycle.py`, `projection/` | `operation_state_projection` | `create_run`, `append_lifecycle_event`, `get_run_state`, `rebuild_projection` | ledger |
| Dispatcher | `dispatcher/dispatcher.py` | the call in progress | `dispatch_once`, `dispatch_with_provenance`, `dispatch_and_track`, `dispatch_with_provenance_and_track`, `dispatch_by_name` | all of the above, a worker |
| Captures | `provenance/`, `environment/` | two projections | `capture_provenance`, `capture_environment`, rebuilds | ledger, git, the interpreter |
| Workers | `workers/base.py` | none | `invoke_worker`, `run_worker_once` | foreign code |
| Run adapters | `dispatcher/{worker,shell,git,envelope}.py` | none | `run_worker_once`, `run_shell_once`, `run_git_status_once` | run lifecycle |
| Registry | `registry/registry.py` | a dictionary and a projection | `register_worker`, `resolve`, rebuild | ledger |
| Sessions | `sessions/sessions.py` | two projections | `create_session`, `add_intent_to_session`, rebuild | ledger |
| Workspace | `workspace/` | files and a projection | `write_artifact`, rebuild | ledger, file system |
| Receipts | `receipts/receipts.py` | a projection | `get_receipt_bundle`, update, rebuild | ledger |
| Replay, archive | `archive/` | none; files | `replay_history`, `export_archive`, `import_archive` | every rebuild |
| Auditor | `audit/auditor.py` | none | `audit` | everything, read-only |
| Evidence projections | `lifecycle_projection/`, `missing_evidence_projection/`, `flow_policy_projection/`, `engineering_state_projection/`, `engineering_kernel/`, `project_state/` | none (pure) | `build`, `evaluate`, `run` | each other |
| Gates | `human_decision*/`, `dispatch_draft/`, `dispatch_commit/`, `dispatch_record/`, `dispatcher_kernel/`, `review_*/` | immutable values | draft, decide, commit, record | evidence projections |
| Execution contracts | `execution_*/` | immutable values | build, select, validate | gates |
| Prompt and report records | `prompt_*/`, `verification_*/`, `implementation_report/`, `knowledge_gap/` | immutable values | build, write Markdown | none |

How they interact: one process, one thread, one connection. Every operation
that matters appends to the ledger first and then writes a table, in a
*separate* transaction and usually best-effort: a lost table write is never
retried, and a rebuild recomputes the table from the ledger. Decisions (is this
intent pending, is it claimed, what state is this run in) are read from the
ledger, never from a table. The dispatcher calls a worker, foreign code that
may call back into any of these operations.

What is hard: a crash or a failed append between any two steps of a dispatch; a
file written before its event; an import that stops half-way; memory that a
restart empties and a ledger that it does not; a table that missed writes; a worker that dispatches, claims or releases itself;
long sequences of claims and releases, refused ones included; payloads that
carry other events' ids and are found by a textual `LIKE`; accidents to the
ledger file with more appends on top of them. `PROJECT.json` lists each hazard
with its line and the properties that would notice it going wrong.

What makes each component correct:

* ledger kernel: an untouched ledger validates; what validates was recorded;
  damage does not go away;
* inbox and dispatcher: the events of an intent are a legal history; it is
  claimed and executed at most once; its outcome rests on an artifact; a running
  dispatch ends;
* claims: one owner at a time; a release ends exactly one claim, by its owner;
  a tracked dispatch gives its claim back;
* run lifecycle: a run's events follow the table, whatever its payloads say;
* tables: current, or behind and never ahead;
* registry: memory and ledger agree on the names of this process; nothing goes to
  a worker of an earlier one; projection and rebuild agree;
* sessions: an intent is in a session once; positions are distinct and in order;
* workspace, archive: an artifact event has its file, nothing is overwritten, an
  import brings everything or says so, and an export leaves nothing out;
* receipts, auditor: what they report is what the ledger says, and nothing
  intact is reported;
* gates: what a decision, a dispatch record or a plan says was entered by a caller or
  can be explained by the policy; a result that a kernel had a part in asks of an
  adapter only what it declared. That work was decided before it is planned is *not*
  among them: nothing in the code ties a record to a decision (section 4).

## 2. Modules

    IntentLifecycle           abstract: a status per intent
         ^ refined by
    LedgerEvents <-- LedgerAudit <-- IntentDispatch <-- IntentDispatchMC         (TLC)
                                          ^
                                          +-- IntentDispatchProofs <-- IntentTableProofs
                                                 <-- IntentAuditProofs           (TLAPS)
    LedgerChain   <--  LedgerChainMC (TLC)      <--  LedgerChainProofs           (TLAPS)
    RunLifecycle  <--  RunLifecycleMC (TLC)     <--  RunLifecycleProofs          (TLAPS)

    RecordLedger  <--  WorkerRegistry, Sessions, IntentRecords, Receipts, Workspace,
         ^             RecordAudit
         |                  ^
         +----  Archive ----+    composes them with export and import
                  ^
                  +-- RecordSystem <-- RecordSystemMC                            (TLC)
                           ^
                           +-- RecordProofs <-- ArchiveProofs                    (TLAPS)

    DecisionGates <--  DecisionGatesMC (TLC)    <--  DecisionGatesProofs         (TLAPS)

**LedgerEvents** is the ledger as a sequence of events and the views read from
it. An event keeps the fields those views read: its type, the intent, run,
claim and owner ids of its payload, and `nested`, the ids that the caller's own
payload carries under a key `"intent_id"`. `Status` is `get_intent_status`,
which selects rows by a `LIKE` over the whole payload (`RowsLike`), while a
rebuild and the auditor read `payload["intent_id"]` (`RowsOf`). An id made by
`uuid4` is taken to be new: a claim or run id is the position of the event that
introduces it, an intent id one that no event mentions.

`ActiveClaim` reads the active claim declaratively: an established claim that no
later release ended. `ReplayClaim` is the loop of `replay_claim_events` itself.
The actions use the first, the audit the second; that they agree is proved
(`ReplayFindsTheActiveClaim`, section 5).

**LedgerAudit** is the auditor's view of intents, claims and runs: each check of
`auditor.py` as an operator that returns its errors, worked out by walks along the
ledger of its own. `AuditAccusesOnlyLostWrites` relates it to the kernels: on every
ledger reached the history checks are silent, and a table is accused only if it
missed a write.

**IntentDispatch** is the process: the ledger, the four tables, the stack of
dispatch calls in progress, and three history variables: `stale` (tables that
missed a write since their last rebuild), `invocations` (worker invocations per
intent) and `faults`. One action is one ledger append together with the table
write that follows it. Nothing runs between the two in a single thread, and a
crash there leaves exactly what a failed table write leaves, so that outcome is
the second disjunct of `BestEffort`. A crash between steps (`Crash`) drops the
frames and keeps the database. A `KeyboardInterrupt` inside a worker, which
`invoke_worker` does not catch, has the effect of a crash.

| Code | Action |
|---|---|
| `submit_intent` | `SubmitAccepted`, `SubmitRejected` (rejected submissions are recorded too; both append first, then write two tables in one transaction) |
| `claim_intent`, `release_claim` | `ClaimIntent`, `CallRelease`; a refusal appends its own event |
| `dispatch_once` steps 1-5, 6, 6, 7-9, 10 | `BeginDispatch`, `CreateRun`, `StartRunning`, `RecordArtifact`, `CompleteIntent` / `FailIntent` |
| `dispatch_with_provenance` | the same with `CaptureProvenance`, `CaptureEnvironment` after `intent_claimed`, and `AbortIntent` for `_fail_intent_after_provenance_failure` |
| `dispatch_and_track`, `dispatch_with_provenance_and_track` | `DispatchAndTrack`, then `TrackedRelease` at the end whatever happened between |
| the worker's own code | frames whose `pc` is `"invoke"` may start any call above them |
| `rebuild_*`, `replay_history` | one action per rebuild, at top level, in any order |

`StartRunning` goes straight into the worker: `state_running` is the last thing
before `invoke_worker`, so `invocations` grows with it.

**IntentLifecycle** is the promise: a status per intent that moves along
`ALLOWED_INTENT_TRANSITIONS`. `IntentDispatch` implements it with `status[i]`
mapped to `Status(ledger, i)` (`ImplementsLifecycle`).

**LedgerChain** is the hash chain with its enemies: rows with a content (what
`compute_event_hash` covers), a label (`id` and `operation_id`, which it does
not), a parent and a hash; `append_event`; `validate_chain`; and accidents (a
stray UPDATE, a lost, displaced or merged row). SHA-256 is collision-free: the
hash of a row is the sequence of all contents hashed into it. An accident writes
what is lying around (a hash of the ledger, genesis, garbage) and never computes
a hash that fits, which the kernel's docstring puts out of scope.

**RunLifecycle** is a run by itself: `LifecycleKernel` and the four adapters that
drive a run, without the intents and claims around it (`IntentDispatch` has
`dispatch_once`'s own way of driving one). It keeps what that module leaves out: a
payload that carries another run's id (`nested`), direct calls of
`append_lifecycle_event`, and work that ends in exceptions. `RunState` is
`get_run_state`: the type of the last event, of any type, whose payload text
holds the id; `RunStateById` is what the rebuild goes by. The state is the ledger,
`operation_state_projection`, the adapter calls in progress (`frame`, `depth`), what
the last call returned (`last`), and the history variables `stale`, `woken` (how
often an adapter let something work on each run) and `faults`.

| Code | Action |
|---|---|
| `create_run`, `append_lifecycle_event`, `validate_operation_envelope` | `CreateRun`, `AppendLifecycleEvent`, `ValidateOperationEnvelope`; refused calls change nothing |
| any other append with a caller's data, as `submit_intent` | `OtherEvent` |
| `run_worker_once` (v0.3 and registry's), `run_shell_once`, `run_git_status_once` | `RunOnce` with a kind, then `StartRunning`, the work, `RecordArtifact`, `Complete`; the four bodies differ in `InvalidContext`, `WorkFails` and `Nested` only |
| `run_command`, `inspect_repo`, `_build_*_artifact` | `CommandResults`, `ArtifactRaises`: whether the result can be recorded at all |
| a worker's own code | frames at `"work"` of the two worker kinds may start any call above them |
| `rebuild_projection` | `RebuildProjection`, at top level |

The outcome of a command is data to these adapters, so its exit code is left out;
what matters is whether the artifact can be built. Artifacts are not shortened in
the model (section 6). A failed append is one outcome, whether the database or an
artifact that is not JSON-safe caused it; each such failure counts as a fault.

**RecordLedger** is the ledger as the record-keeping parts share it. Each of them is
a module with its tables as variables and one action per operation; a step is one
call, because nothing runs between its statements. Where a crash there leaves
something a finished call would not (an event without its row, a file without its
event), that is a disjunct of the action. A rebuild is written as the set its loop
computes; the auditor's expectation of the same table, in **RecordAudit**, is a walk.

| Code | Action |
|---|---|
| `register_worker`, a new process, `rebuild_worker_projection` | `RegisterInvalid`, `RegisterWorker`, `Restart`, `RebuildWorkerProjection` (WorkerRegistry) |
| `dispatch_by_name`, `dispatch_once` up to the claim | `DispatchByName`, `ClaimIntent`; the rest of a dispatch is `CreateRun`, `AppendRunEvent` (RecordSystem, IntentRecords) |
| `create_session`, `add_intent_to_session`, rebuild | `CreateSession`, `AddIntentToSession`, `RebuildSessionProjection`; their table writes raise instead of being swallowed, which leaves the same database |
| `capture_provenance`, `capture_environment`, rebuilds | the actions of those names (IntentRecords) |
| `get_receipt_bundle`, `export_receipt_bundle`, rebuild | `GetReceiptBundle`, `RebuildReceiptProjection`; `ReceiptRows` is `list_receipt_events` |
| `write_artifact`, rebuild | `WriteArtifact` with the refusals, a write that breaks off, an append that fails and a lost row as its disjuncts; `NormalForm` is what `normalize_relative_path` makes of a spelling, `Above` the directories on the way |
| `export_archive` | `ExportArchive`, finished or broken off |
| `import_archive` | `RefuseImport`, `ImportLedgerEvents`, `RestoreFile` once per file, `FinishImport`, and `ImportStops` between any two of them |
| the world | `ClockStepsBack`, `DamageFile`, `DamageArchive` |

The importing side has a ledger and a workspace of its own (`target`, `targetFiles`),
and the source goes on working meanwhile. Its tables are rebuilt before they are
audited, so they need no variables: `ReplayErrors` audits what a rebuild makes of the
target. Foreign ids (`nested`) are those of intents; what foreign run ids do is the
matter of RunLifecycle. `boot`, how long the ledger was when the process started, is
a history variable, and so is `stale`.

**DecisionGates** is the way from evidence to a request that an adapter may pick up.
Every stage is a pure function of frozen objects that its caller hands over, so the
state is the set of objects made so far, and a step makes one from any that exist: a
draft may be old, a dispatch id may be used twice. The engineering kernel is a function
here (`LifecycleProjection`, `EvaluateFlowPolicy`); its caller chooses the policy and
the labels for which it presents evidence (`Presentations`).

| Code | Action |
|---|---|
| `run_engineering_kernel` and `build_human_decision_draft` | `DraftDecision` |
| `commit_human_decision`, `build_dispatch_draft`, `commit_dispatch` | `CommitHumanDecision`, `DraftDispatch`, `CommitDispatch` |
| `create_human_decision`, `create_dispatch_record` called with data of the caller's own | `CreateHumanDecision`, `CreateDispatchRecord` |
| `run_dispatcher_kernel` | `RunDispatcherKernel` |
| `select_execution_adapters`, or an `AdapterSelection` made by hand | `Select`, `MakeSelection` |
| `build_execution_request`, `build_execution_manifest`, or either made by hand | `BuildRequest`, `MakeRequest` |
| the results of both | `BuildResult` |

No class is private, so a caller may make any of these objects instead of having them
made. A draft made by hand and then committed is a decision or record made by hand; a
plan made by hand is the plan of such a record, unless its type, kind, mode or target is
blank, and no adapter can declare a blank one; so drafts and plans have no such action. Where
properties need to know who made an object, history variables say so: `presented` and
`entered` (calls of the engineering kernel, what callers entered), `selected` and
`built` (what the adapter functions made).

## 3. Runs

| Run | Question | Bounds |
|---|---|---|
| `dispatch_core` | is every history legal, are claims exclusive, do live tables equal rebuilt ones, does the audit accuse only lost writes, is the abstract lifecycle implemented | 2 intents, 2 owners, calls start below 5 events, 1 fault |
| `dispatch_reentrant` | can a worker that calls back break "executed once, owned by one", or put into a table what the ledger does not say | 2 intents, depth 2, 7 events, 1 fault |
| `dispatch_liveness` | is a dispatch carried to its end and a tracked claim given back | 2 intents, 1 owner, 4 events, 1 fault |
| `dispatch_nested_ids` | the same execution guarantee when a payload carries another intent's id: violated | 2 intents, 6 events, 1 fault |
| `dispatch_failed_submit` | does a failed submission record nothing: violated | 2 intents, 4 events, 1 fault |
| `chain_accidents` | what does `validate_chain` promise after accidents and further appends | 4 rows, 2 contents, 2 accidents |
| `runs_core` | does nothing work on a run twice, are run histories legal, does a table that missed nothing agree with `get_run_state`, do adapters report the state the ledger has; data may carry run ids | 2 runs, depth 2, calls start below 5 events, 1 fault |
| `runs_liveness` | is a run that was started carried through | 2 runs, depth 1, 4 events, 1 fault |
| `runs_commands` | is every command recorded: violated | 2 runs, 4 events, no fault |
| `records_core` | do memory, tables, files, receipts, archives and audit agree with the ledger, through restarts, lost writes, damage and interrupted imports | nine scopes, below |
| `records_incomplete_archive` | does an archive hold every artifact its events record: violated | the same |
| `gates_core` | where does what a decision, record or plan says come from; does an adapter get only what it declared, if one part of a result was checked | 2 subjects, 2 policies of 2 rules, 2 presentations, 2 calls of the kernel, 1 decision, 2 records, 1 dispatch id, 3 targets, 1 selection, 1 request, 2 adapters |

The record-keeping parts interact in twos and threes, and one instance with all of
them would be all of their products. `Scopes` therefore holds small instances, and a
behaviour belongs to one of them, chosen at the start:

| Parts | Events | Faults | Foreign ids | What can go wrong there |
|---|---|---|---|---|
| intents, registry | 4 | 1 | no | a restart, a second registration, a dispatch to the worker that was |
| intents, sessions | 6 | 1 | no | two members of a session, one of them lost from the table |
| intents, sessions, archive | 4 | 0 | yes | a member nobody submitted, and its import |
| intents, receipts | 6 | 0 | no | a run's events in a receipt, stored and outdated |
| intents, captures, receipts | 3 | 1 | yes | snapshots in receipts and lost rows of both |
| workspace | 3 | 2 | no | orphans, paths that are taken, directories in the way |
| workspace, archive | 2 | 2 | no | damage at the source, in the archive, an import that stops, a target that is not empty |
| registry, archive, clock | 3 | 1 | no | histories that the audit rejects after an import |
| intents, receipts, archive | 3 | 0 | yes | an import whose receipts the audit attributes otherwise |

Bounds. `MaxEvents` limits where a *call may start*; a started call always runs to
its end, so no step is cut off by it and the longest ledgers are several events
longer (a tracked dispatch with captures appends eight). Two intents are enough for what one
intent's events can do to another, and every property speaks of at most two at
once; two owners for one to be refused because of the other, two names for one to be
registered twice and the other not, two spellings of one path and one path below it
for every way a path can be taken. `MaxRefusals` bounds
events that change nothing else. Two nested dispatches show what a worker can do
to the dispatch that called it; a deeper stack repeats that pair. One fault shows
what a crash, a failed append or a lost table write leaves to everything after it;
that faults in combination change nothing for the safety properties is proved
(section 5), and where files are involved the scopes below allow two. Two runs are
one whose data carry an id and one whose id it is. Two calls of the
engineering kernel and two records are a draft that is committed after another one was
built from other evidence or with the rules in another order, next to an entry of the
caller's own in the form of the policy's codes. Two records are also one dispatch id that
names two plans, of which one is compatible with an adapter and the other is not; one
selection and one request are the two parts of a result, of which either may be the one
that was checked, and for either plan. Symmetry is used over intents
and owners (contents and labels in the chain, runs in RunLifecycle, worker names in
the records), and never with liveness.

Deadlock is checked in the dispatch and lifecycle runs (a rebuild is always possible). It is
off in the chain runs, where the bounds on rows and accidents end every
behaviour, and in the record runs, where those on events, faults and imports do.
In `gates_core` a dispatch draft or plan may always be built again.

Fairness. `FairSpec` adds `WF_vars(DispatchStep)`: the thread that made a call
executes its next statement. That includes the return of the worker, an
assumption about foreign code, since `invoke_worker` has no timeout. Nothing
obliges callers to call or anyone to rebuild. `dispatch_liveness` has
`MaxDepth = 1`: a worker that starts calls for ever need not come back.
`RunningEnds` and `TrackedClaimEnds` promise nothing after a fault, because the
code does not: an intent whose dispatch was interrupted stays RUNNING, and a
claim whose release failed stays an orphan. `runs_liveness` assumes
`WF_vars(AdapterStep)` for the same reasons, and a shell or git command does
return: it has a timeout. `RunIsCarriedThrough` leaves out the v0.3 worker, whose
failures are meant to leave the run at `state_running`, and calls that raise,
as in `runs_commands`, and runs that somebody else moves or mentions.

## 4. Findings

* **Nested ids** (`dispatch_nested_ids`). `get_intent_status` matches
  `"intent_id":"<id>"` anywhere in a payload. If an intent was interrupted
  (RUNNING for ever) and somebody later submits an intent whose payload carries
  that id, as a follow-up request naturally would, the old one reads PENDING
  again, and the next dispatch executes it a second time.
  `dispatcher.py:31-37` promises that this cannot happen.
* **Failed submission** (`dispatch_failed_submit`). When only the table write
  fails, `submit_intent` returns `intent_id=None`; its docstring says nothing was
  recorded, but the event is durable and the intent PENDING.
* **Commands that time out** (`runs_commands`). `subprocess.TimeoutExpired` carries
  bytes, also with `text=True`, so a command that printed anything before its timeout
  cannot be canonicalized: `PayloadValidationError` leaves `run_shell_once` and the
  run stays at `state_running`. Output that is not UTF-8 raises in the same place.
  `shell.py:32-35` says that a timeout still completes the run.

* **Incomplete archives** (`records_incomplete_archive`). `export_archive` copies and
  verifies the files that `artifact_projection` lists, and that table is written
  best-effort. After one lost write the export succeeds without the file, although
  the archive's own events record it; nobody notices before `import_archive` ends in
  `MISSING_ARCHIVE_ARTIFACT`. `prompts/executed/18.txt:194-197` asks for an export
  that copies the workspace exactly and fails when a file does not match the ledger.

Four more facts have no run of their own:

* `id` and `operation_id` are not hashed (`kernel.py:180`): an UPDATE of either passes
  `validate_chain`, and receipts attribute runs by `operation_id`. LedgerChain speaks
  of it as the label of a row.
* `get_run_state` has the same `LIKE` as `get_intent_status`: when the artifact of run B
  carries the id of run A under `"run_id"`, A reads `artifact_written` and
  `state_completed` is accepted for it, whatever it did before, although
  `lifecycle.py:35-36` says that any such transition is rejected. A run can be
  completed or blocked this way but not restarted (`WokenOnce`, proved), and runs that
  nobody else mentions are not affected (`UnmentionedRunsAreLegal`, proved).
* An artifact whose append failed leaves a file that no event records; the same path
  is refused as ALREADY_EXISTS from then on. `FilesAreAccountedFor` counts such files
  against the faults that made them. And a name that two processes registered, or a
  clock that was set back, makes every import of that history end in AUDIT_FAILED,
  after events and files are in place (`AuditFailureIsTheSources`).
* `run_dispatcher_kernel` checks that the fields of a record are not blank, and plans it.
  `create_dispatch_record` makes one from any data, without a draft and without a
  decision, as `test_dispatcher_kernel.py:29-48` does, and nobody looks up the
  `human_decision_id` in it. `dispatcher.py:4` calls the input a committed record; that is
  for the caller to see to. So there is no property that planned work was decided.

## 5. Proofs

`tlapm` checks every theorem below for every value of the constants: any number
of intents, owners, events, nested dispatches, faults, rows, contents and
accidents.

| Module | Theorem | Says | Assumes |
|---|---|---|---|
| `IntentDispatchProofs` | `TypeCorrect` | `Spec => []TypeOK` | the constants' assumptions |
| | `HistoryCorrect` | the inductive invariant `HistoryInv` always holds | `NestedIds = FALSE` |
| | `InvokedOnce` | `[]AtMostOneInvocation` | `NestedIds = FALSE` |
| | `HistoryIsLegal` | `[]LegalIntentHistory` | `NestedIds = FALSE` |
| | `LifecycleImplemented` | `Spec => ImplementsLifecycle`, the refinement of `IntentLifecycle` | `NestedIds = FALSE` |
| `IntentTableProofs` | `ClaimsAreExclusive` | `[]ExclusiveClaims` | the constants' assumptions |
| | `LiveIsRebuilt` | `[]LiveEqualsRebuilt` | `NestedIds = FALSE` |
| | `RowsAreRecorded` | `[]RowsWereRecorded` | the constants' assumptions |
| `IntentAuditProofs` | `OwnersAreExclusive` | `[]NoForeignOwner` | `NestedIds = FALSE` |
| | `OutcomesHaveArtifacts` | `[]OutcomeHasArtifact` | `NestedIds = FALSE` |
| | `AuditIsFair` | `[]AuditAccusesOnlyLostWrites` | `NestedIds = FALSE` |
| `LedgerChainProofs` | `TypeCorrect` | `Spec => []TypeOK` | the constants' assumptions |
| | `IntactChainIsValid` | `[]IntactChainValidates` | the same |
| | `NothingIsRepaired` | `DetectionIsPermanent`, an action property | the same |
| | `VouchedHistoryWasRecorded` | `[]VouchedIsRecorded` | the same |
| | `OneAccidentShows` | `[]NoSilentLoss` | the same |
| `RunLifecycleProofs` | `TypeCorrect` | `Spec => []TypeOK` | the constants' assumptions |
| | `NeverWokenTwice` | `[]WokenOnce` | the same |
| | `RunHistoryIsLegal` | `[]UnmentionedRunsAreLegal` | the same |
| | `ProjectionIsFaithful` | `[]ProjectionIsState` | the same |
| | `ReportsAreHonest` | `HonestReport`, an action property | the same |
| `RecordProofs` | `TypeCorrect` | `Spec => []TypeOK`, of the nine modules together | the constants' assumptions |
| | `RegistryMemory` | `[]MemoryIsOnRecord` | the same |
| | `LiveWorkersOnly` | `OnlyLiveWorkersAreNamed`, an action property | the same |
| | `SoundSessionHistory` | `[]SessionHistoryIsSound` | the same |
| | `LiveIsRebuilt` | `[]LiveEqualsRebuilt` | the same |
| | `SessionTablesConsistent` | `[]SessionTablesAgree` | the same |
| `ArchiveProofs` | `NothingOverwritten` | `NeverOverwritten`, an action property | the same |
| | `FilesAccounted` | `[]FilesAreAccountedFor` | the same |
| | `AllOrNothing` | `[]TargetAllOrNothing` | the same |
| | `FaithfulImport` | `[]ImportIsFaithful` | the same |
| | `AuditFindsTheDifference` | `[]AuditMatchesRebuild` | the same |
| | `ReceiptsWereBundles` | `[]ReceiptsAreOldBundles` | the same |
| | `ImportsFailForTheSource` | `[]AuditFailureIsTheSources` | the same |
| `DecisionGatesProofs` | `TypeCorrect` | `Spec => []TypeOK` | the constants' assumptions |
| | `ExplainedWork` | `[]WorkIsExplained` | the same |
| | `CoveredRequests` | `[]RequestsAreCovered` | the same |

The constants' assumptions are the `ASSUME`s of the modules: the bounds are
natural numbers, `NoIntent` is no intent, `NoOwner` no owner, `NoRun` no run,
`Garbage` no content, the states of a file that are not contents are none; a
normalized path is its own normal form and not below itself; evidence is presented
for known labels, and a policy is a sequence of rules. `SingleClaim` is proved on the way to the histories (`ClaimedOnce`).

**Why `NestedIds = FALSE`.** It says that no caller puts another intent's id under
`"intent_id"` into a payload. Without it the first finding of section 4 is a
counterexample to `InvokedOnce` and the refinement. Claims and `RowsWereRecorded` do not
need it: `get_claim` compares the id in the rows its `LIKE` found, and a row that was
written says what its event says, whether that event should have been appended or not.
*Run* ids in foreign payloads are another matter: this module has none, so in it only a
run's own events carry its id, and what it says of runs (in `GroundedInv`, `AuditIsFair`)
is said for such ledgers. RunLifecycle is about the others.

**Histories.** None of the four properties is inductive. `claim` is appended when
the *status* is PENDING, and the status comes from a walk over rows; that at most
one claim was appended follows only if the walk and the history agree, and that a
worker runs once follows only if the calls in progress agree with both. Hence

    HistoryInv ==
      NoNesting /\ LegalIntentHistory /\ SubmissionFirst /\ SingleClaim     (ledger)
      /\ StackShape /\ WorkIsClaimed /\ WorkIsExclusive                     (calls)
      /\ InvokedAfterClaim /\ AtMostOneInvocation                           (workers)

`WorkIsClaimed`: the last row of the intent of a frame at work is its
`intent_claimed`. `WorkIsExclusive`: no two frames work on one intent.
`InvokedAfterClaim`: a worker ran only for a claimed intent, and not for one whose
dispatch has yet to reach its worker. `StackShape`: only the innermost frame moves;
the others wait in their worker. The lemma `StatusIsLast` shows that with a legal
history and no nesting the walk of `get_intent_status` returns what the last row
says. Then `StepShape` reduces every action to one of a few shapes (keep, push,
claim, work, leave, crash): what it appends about intents and what it does to
the stack. One lemma per shape shows that `HistoryInv` survives it. TLC checked
the parts first, as invariants of small instances.

**Refinement.** An event that `HistoryInv` allows is the next row of one intent; by
`StatusIsLast` its status is that row's, and no other intent's rows change. The
table of types maps to the table of statuses (`LifecycleTable`), so the step is one
`Advance` of `IntentLifecycle` or a stutter.

**Claims.** `ClaimInv` adds to `ExclusiveClaims` that a claim's id is its own
(`OwnIds`). `NextClaimStep`: a step says nothing about claims, establishes one where
none is active, or relinquishes the active one. In the second case each earlier
claim of the intent has been released already; in the third the release names, by
the uniqueness of ids, that claim and no other.

**Tables.** `NextWrites` reduces every step to what it writes: an event that no table
is about, a submission, an intent row, a run row, a claim, a release, or a rebuild; the
table behind it is written, or left and marked stale. For each table a lemma says what
one event more does to the row a rebuild expects, and `LiveIsRebuilt` follows shape by
shape. It needs `HistoryInv` because the live write of an intent replaces its row while
the rebuild replays the rows in order: they agree when the last row decides
(`LastRowDecides`). `RowsWereRecorded` needs only that the ledger `Grows` and that a
claim is an event with its own number (`ClaimsAreEvents`).

**Owners.** `NoForeignOwner` is inductive next to `HistoryInv` and `ClaimInv`. By
`OwnerStep` a step ends calls and claims, or begins an untracked call, or establishes a
claim, with a call that carries it or without one. The last is the one that could hurt: it
needs a PENDING intent, and an intent that some call works on is not (`WorkIsClaimed`).

**Evidence.** `Grounded` says what a call has by the step it is at: a run made for its
intent from `state_running` on, an artifact of such a run before an outcome, and no
invocation yet when it aborts after a capture. An outcome recorded is an outcome for
good, because `Evident` only gains events.

**Audit.** The auditor walks along the ledger; the kernels ask. `RowTo`,
`SubmissionTo` and `ClaimTo` state in closed form what a walk has found after k events,
and the step from k - 1 to k of each walk is shown to agree with the form. Two walks
that start alike and go on alike as long as they are alike end alike; this is not
induction over an operator but the least place at which they differ. The claim walk
gives `ReplayFindsTheActiveClaim`. The checks of histories are silent by
`LegalIntentHistory`, `ClaimInv`, `GroundedInv` and `RunHistory`: a run id is the
position of the `run_created` that made it (`RunsBegin`), and each later event was
allowed by the one before. The checks of tables compare with what `LiveIsRebuilt`
says of a table that is not stale.

**Chain.** `VouchedIsRecorded` rests on `HashesKnown`: every hash in the file was
issued by `append_event`, or is genesis, or goes back to garbage. Accidents move
hashes and make none. Walking from genesis, the rows that pass the check hash to
their own contents, so the last of them is an issued hash, which is its history.

`NoSilentLoss`: in a valid chain every hash is as long as the history it stands for
(`GoodChain`), so no two rows have the same place. A stray UPDATE, a lost row before the
last, an exchange of two rows or a merged row therefore leaves a row that does not fit
its parent, or a ledger that says what it said (`UpdateIsNoticed`, `LossIsNoticed`,
`SwapIsNoticed`, `MergeIsNoticed`). `OneAccident` carries this along the appends that
follow: they repair nothing, and they record what they add.

**Runs.** An adapter lets something work on a run only behind a `state_running` it
appended, and only `run_created` allows that event. `WokenInv` therefore says that a
run that was worked on has a `state_running` of its own (`WokenIsRecorded`), and that a
`run_created` carries no foreign id and is the first event that mentions its run
(`CreatedFirst`). So where `get_run_state` answers `run_created`, that event is the
first *and* the last that mentions the run, and nothing has worked on it: ids in
somebody's data do not matter. `UnmentionedRunsAreLegal` is inductive as it stands:
if only its own events mention a run after a step, then also before it, `get_run_state`
answered with the last of them, and the event that the table allows next extends a
legal history (`LegalAppend`).

For the projection, the latest event that mentions a run decides its state
(`LatestDecides`), and as long as nobody else mentions the run its own events are all
of those, so `get_run_state` and the rebuild see the same. For `HonestReport`, `CallsStand` says in which
state the run of each call in progress is while nothing has moved it since the call
began; what ends the call reports that state, or that it is unknown.

**Records.** `Typed` adds to the types that the table of members is finite (its
`Cardinality` is the next order number) and that a member is an intent. `Arrives` says
what an event that a step appends may be: a registration of a name the process does
not hold, which the memory then holds; a session with a new id; a member whose checks
succeeded; a claim by a worker that memory names. The lemma `LedgerStep` reduces every action
of the nine modules to one event that may arrive, a restart, or the same ledger and
the same memory, and the invariants are shown for those:

* `Memory`: `MemoryIsOnRecord`, and the process started within the ledger.
  `OnlyLiveWorkersAreNamed` follows for each claim from `Memory` before it.
* `Admissions`: an intent is in a session once, the session was created before, and
  without foreign ids every intent that has events was submitted. The last part makes
  the auditor's check silent: `add_intent_to_session` asks for any event that mentions
  the intent, the auditor for its submission.
* `Admitted`: the ledger is `Sound`, which collects what readers of a ledger rely on
  (a session's or a run's id is where it was created, members are admitted once and into sessions
  that exist, artifacts have a place and a content). It is about a ledger, not about
  the process, so it carries over to a history that is imported.

**Record tables.** `SessionsTo(L, k)` and `MembersTo(L, k)` are the tables as the first k
events make them. `Live` says that a table that is not stale is the one of the whole
ledger; the number that `add_intent_to_session` reads off its table, one more than the
members there, is then the number a rebuild counts. `SessionTablesAgree` is also about tables that
missed members, and there the two differ; `Consistent` says that the members a table does have are
numbered 1, 2, ... in the order of their events and that the session's row counts them,
which a new member continues and a rebuild establishes (`MembersNumbered`).

**Files.** `Accounts` adds to `FilesAreAccountedFor` that the set of orphans is finite and that
recorded paths are normalized. A write touches a path that held nothing and
directories on the way to it that were none or directories already, so recorded files stay;
one new orphan costs one fault.

**Imports.** `Imports` carries the archive through the source's further life: its events
are a prefix of the ledger for ever, the target is empty or equals them, and only an
audit without errors sets `done`. Errors of the file check are among those it looks
for, which gives the files.

`Restoring` explains a failed audit: the target's history is `Sound`, each file it
records is there or still to be restored, and the tables audited are what a rebuild
makes of that history, which `RebuiltIsAccepted` shows the audit to accept. What remains is a
name registered twice, a clock set back or a foreign id.

**Audit of the records, receipts.** The auditor's walks for workers and sessions are
matched with the rebuilt tables position by position (`WorkersExpected`,
`SessionsExpected`), as above; for the other tables it compares sets of the same
events. A receipt was `Bundle(n, i)` for the n events that there were, and a prefix of a
ledger stays (`OldBundles`). Without foreign ids the events that the auditor attributes to an
intent by payload fields are those that the receipt found by text (`AttributedRows`), so it
accuses a receipt exactly when the newer bundle differs.

**Gates.** `WalkOfThePolicy` is about the flow policy: `evaluate_flow_policy` tries rules
up to the first that matches, or all, and says so in its trace. `DraftIsExplained` turns
this into `Explains` for the call that the draft was made in. `Chain`, the inductive
invariant of `WorkIsExplained`, says that every draft is explained by a call, that every
decision, dispatch draft and record is explained or was entered, and that a plan is a
record: what an object says is copied from stage to stage, and calls and entries are
only added (`HistoryGrows`). `Coverage`, that of `RequestsAreCovered`, says that what the
adapter functions made is compatible and that the two parts of a result fit each other.
So the unchecked part borrows the plan from the checked one, or the capability: this
is where comparing whole plans matters, and with dispatch ids alone `Coverage` is not
inductive and the property false (the mutant of `Fits`).

Out of the prover's reach, and checked by TLC only: liveness under fairness
(`RunningEnds`, `TrackedClaimEnds`, `RunIsCarriedThrough`). Every invariant and every
action property that a passing run checks is also proved, under the assumptions of the table.

## 6. Not modelled, and what could follow

`PROJECT.json` names every component with its status. Abstracted away in the
modules above: payloads other than the ids, names, paths and contents that some
operation reads, timestamps but for their order, error texts, the content of captures, SQLite's
own atomicity (a transaction happens or does not). Two processes on one file are out
of scope for the code (`kernel.py:32-33`) and for the models. Left out altogether:

* **Artifact truncation** and the structural checks of an op.yaml (`shell.py`,
  `git.py`, `workers/base.py`, `envelope.py`): arithmetic on the length of strings and
  tests of single fields, without state.
* **Prompt and report records**, the Markdown writers, `project_state`,
  `DispatchPlanReceipt`, `review_policy`: each turns one value into another or into a
  file, and nothing else reads it. The writers name files after a subject or dispatch
  id and replace what is there.
* The auditor's checks of single events (required fields, schemas and ids of
  snapshots, duplicate event ids) and of worker names, which the dispatcher reads once
  per dispatch.
* The **Jai port** of the hashing.

What could follow: the parts above that are left out; `NestedIds = TRUE` with the
weaker promises that remain (what is still true of an intent that no data mention, as
`UnmentionedRunsAreLegal` says for runs); and a refinement that has the record-keeping
parts implement one abstract table, rebuilt or written live.
