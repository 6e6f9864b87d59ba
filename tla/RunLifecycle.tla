---------------------------- MODULE RunLifecycle ----------------------------
(***************************************************************************)
(* Runs as LifecycleKernel records them, and the four adapters that drive  *)
(* a run: the v0.3 worker, the worker registry's worker ("invoke"), the    *)
(* shell command and the git inspection.  IntentDispatch drives runs with  *)
(* steps of its own; this module is the rest of the run lifecycle, with    *)
(* what IntentDispatch leaves out: payloads that carry the id of another   *)
(* run, direct calls of append_lifecycle_event, and commands that end in   *)
(* ways nobody expected.                                                   *)
(*                                                                         *)
(* The state of a run is a query: get_run_state takes the type of the last *)
(* event, of any type, whose payload text holds "run_id":"<id>", at any    *)
(* depth.  The projection and its rebuild go by payload["run_id"].         *)
(*                                                                         *)
(* Workers are foreign code and may call back while they are awake: frames *)
(* 1 .. depth are the adapter calls in progress, only the innermost one    *)
(* takes steps.  A step is one append with its projection write.           *)
(*                                                                         *)
(* Bounds: no call starts once the ledger holds MaxEvents events, adapter  *)
(* calls nest MaxDepth deep, MaxFaults failed writes, results that cannot  *)
(* be recorded, and crashes happen.                                        *)
(***************************************************************************)
EXTENDS Naturals, Sequences, FiniteSets

CONSTANTS
  Runs,    \* the ids that create_run may hand out
  NoRun,   \* in an event about no run
  MaxEvents, MaxDepth, MaxFaults

ASSUME NoRunAssumption == NoRun \notin Runs
ASSUME BoundsAssumption ==
  MaxEvents \in Nat /\ MaxDepth \in Nat \ {0} /\ MaxFaults \in Nat

VARIABLES
  ledger,   \* ledger_events, in rowid order
  proj,     \* operation_state_projection: state and last event of each run
  frame,    \* the adapter calls in progress
  depth,    \* how many there are
  last,     \* what the adapter call that ended last returned
  stale,    \* did proj miss a write since its last rebuild?
  woken,    \* how often an adapter let something work on each run
  faults    \* faults so far (bounds the model)

vars == <<ledger, proj, frame, depth, last, stale, woken, faults>>

---------------------------------------------------------------------------
(* The ledger.  by is the adapter call that appended the event, 0 for a    *)
(* direct call.  "other" stands for the event types that are none of runs. *)

RunTypes   == {"run_created", "state_running", "artifact_written", "state_completed"}
Appendable == RunTypes \ {"run_created"}

AllowedTransitions ==
  [t \in RunTypes \union {"other"} |->
     CASE t = "run_created"      -> {"state_running"}
       [] t = "state_running"    -> {"artifact_written"}
       [] t = "artifact_written" -> {"state_completed"}
       [] OTHER                  -> {}]

Event ==
  [type : RunTypes, run : Runs, nested : SUBSET Runs, by : Nat]
    \union [type : {"other"}, run : {NoRun}, nested : SUBSET Runs, by : {0}]

LastOf(S) == CHOOSE k \in S : \A m \in S : m <= k

Mentions(e, r) == e.run = r \/ r \in e.nested
RowsLike(L, r) == {k \in DOMAIN L : Mentions(L[k], r)}
RowsOf(L, r)   == {k \in DOMAIN L : L[k].run = r}

(* get_run_state; "NONE" is RUN_NOT_FOUND.                                 *)
RunStateAmong(L, rows) == IF rows = {} THEN "NONE" ELSE L[LastOf(rows)].type

RunStateById(L, r) == RunStateAmong(L, RowsOf(L, r))      \* what it means to be

RunState(L, r) == RunStateAmong(L, RowsLike(L, r))

CanAppendAny(t, r) == t \in Appendable /\ RunState(ledger, r) # "NONE"      \* mutant: no table

CanAppendTwice(t, r) ==      \* mutant: a repeated event is let through
  /\ t \in Appendable
  /\ RunState(ledger, r) # "NONE"
  /\ t = RunState(ledger, r) \/ t \in AllowedTransitions[RunState(ledger, r)]

CanAppend(t, r) ==
  /\ t \in Appendable
  /\ RunState(ledger, r) # "NONE"
  /\ t \in AllowedTransitions[RunState(ledger, r)]

---------------------------------------------------------------------------
(* Writes.                                                                 *)

NoRow == [state |-> "NONE", event |-> 0]

Fault   == faults < MaxFaults /\ faults' = faults + 1
NoFault == UNCHANGED faults

AppendFails == Fault /\ UNCHANGED <<ledger, proj, stale>>

InsertProjection(r, t) ==      \* mutant: an existing row is not updated
  \/ proj' = [proj EXCEPT ![r] = IF @ = NoRow THEN [state |-> t, event |-> Len(ledger) + 1] ELSE @]
     /\ UNCHANGED stale /\ NoFault
  \/ UNCHANGED proj /\ stale' = TRUE /\ Fault

(* _update_projection: whatever becomes of it, the append has succeeded.   *)
UpdateProjection(r, t) ==
  \/ proj' = [proj EXCEPT ![r] = [state |-> t, event |-> Len(ledger) + 1]]
     /\ UNCHANGED stale /\ NoFault
  \/ UNCHANGED proj /\ stale' = TRUE /\ Fault

AppendRunEvent(t, r, nested, by) ==
  /\ ledger' = Append(ledger, [type |-> t, run |-> r, nested |-> nested, by |-> by])
  /\ UpdateProjection(r, t)

(* The run ids that the data of a caller carry under "run_id".             *)
Payloads == {{}} \union {{r} : r \in {s \in Runs : RowsOf(ledger, s) # {}}}

---------------------------------------------------------------------------
(* Adapter calls.  began is the length of the ledger when the call began.  *)

Kinds == {"worker", "invoke", "shell", "git"}
Frame == [pc : {"start", "work", "complete"}, run : Runs, kind : Kinds, began : Nat]

Idle     == [pc |-> "idle", run |-> NoRun, kind |-> "none", began |-> 0]
NoResult == [run |-> NoRun, kind |-> "none", outcome |-> "none", state |-> "unknown"]

Top == IF depth = 0 THEN Idle ELSE frame[depth]
At(step) == Top.pc = step

(* The program may call at top level, and a worker while it is awake; what *)
(* the shell and git run is another process and does not call back.        *)
CanCall ==
  /\ depth = 0 \/ (At("work") /\ Top.kind \in {"worker", "invoke"})
  /\ Len(ledger) < MaxEvents

Goto(step) == frame' = [frame EXCEPT ![depth].pc = step] /\ UNCHANGED <<depth, last>>

(* The call ends, with a WorkerRunResult or an exception; state is the     *)
(* current_state of the result, "unknown" for None.                        *)
Return(outcome, state) ==
  /\ depth' = depth - 1
  /\ frame' = [frame EXCEPT ![depth] = Idle]
  /\ last' = [run |-> Top.run, kind |-> Top.kind, outcome |-> outcome, state |-> state]

Raise == Return("raised", "unknown")

Calls == <<frame, depth, last>>

---------------------------------------------------------------------------
(* LifecycleKernel, called directly.                                       *)

(* validate_operation_envelope: an event about no run; a document that is  *)
(* not valid appends nothing.                                              *)
ValidateOperationEnvelope ==
  /\ CanCall
  /\ ledger' = Append(ledger, [type |-> "other", run |-> NoRun, nested |-> {}, by |-> 0])
  /\ UNCHANGED <<proj, stale, woken, faults, Calls>>

(* Any other event whose payload is a caller's data: submit_intent.        *)
OtherEvent(nested) ==
  /\ CanCall
  /\ nested # {}
  /\ ledger' = Append(ledger, [type |-> "other", run |-> NoRun, nested |-> nested, by |-> 0])
  /\ UNCHANGED <<proj, stale, woken, faults, Calls>>

CreateRun(r) ==
  /\ CanCall
  /\ RowsLike(ledger, r) = {}            \* uuid4 is new
  /\ AppendRunEvent("run_created", r, {}, 0) \/ AppendFails
  /\ UNCHANGED <<woken, Calls>>

(* append_lifecycle_event; a call that is refused changes nothing.         *)
AppendLifecycleEvent(r, t, nested) ==
  /\ CanCall
  /\ CanAppend(t, r)
  /\ AppendRunEvent(t, r, nested, 0) \/ AppendFails
  /\ UNCHANGED <<woken, Calls>>

---------------------------------------------------------------------------
(* run_worker_once (twice), run_shell_once, run_git_status_once.           *)

RunOnce(r, kind) ==
  /\ CanCall
  /\ depth < MaxDepth
  /\ depth' = depth + 1
  /\ frame' = [frame EXCEPT ![depth + 1] =
                 [pc |-> "start", run |-> r, kind |-> kind, began |-> Len(ledger)]]
  /\ UNCHANGED <<ledger, proj, last, stale, woken, faults>>

(* A context that is not JSON-safe is refused before anything is appended. *)
InvalidContext ==
  /\ At("start") /\ Top.kind = "worker"
  /\ Return("failed", "unknown")
  /\ UNCHANGED <<ledger, proj, stale, woken, faults>>

ReportedRaw(r) == RunState(ledger, r)      \* mutant: a run not found has a state

Reported(r) == IF RunState(ledger, r) = "NONE" THEN "unknown" ELSE RunState(ledger, r)

StartRunning ==
  /\ At("start")
  /\ \/ /\ CanAppend("state_running", Top.run)
        /\ AppendRunEvent("state_running", Top.run, {}, depth)
        /\ woken' = [woken EXCEPT ![Top.run] = @ + 1]
        /\ Goto("work")
     \/ /\ CanAppend("state_running", Top.run)
        /\ AppendFails
        /\ Return("failed", Reported(Top.run))
        /\ UNCHANGED woken
     \/ /\ ~CanAppend("state_running", Top.run)
        /\ Return("failed", Reported(Top.run))
        /\ UNCHANGED <<ledger, proj, stale, woken, faults>>

(* run_command.  An exception of its own is RAISED: output that is not     *)
(* UTF-8.  What a command had written when it timed out comes as bytes.    *)
CommandResults ==
  [error : {"none", "INVALID_COMMAND", "COMMAND_NOT_FOUND", "EXECUTION_ERROR", "RAISED"},
   stdout : {"text"}, stderr : {"text"}]
  \union [error : {"TIMEOUT"}, stdout : {"text", "bytes"}, stderr : {"text", "bytes"}]

(* _build_command_artifact canonicalizes both outputs; inspect_repo stops  *)
(* at the first command with an error, and keeps only its stderr.          *)
ArtifactRaises(kind, c) ==
  CASE kind = "shell" -> c.error = "RAISED" \/ "bytes" \in {c.stdout, c.stderr}
    [] kind = "git"   -> c.error = "RAISED" \/ c.stderr = "bytes"
    [] OTHER          -> FALSE

(* What may come of the work, apart from a result that is recorded: the    *)
(* v0.3 worker reports failure, returns no valid artifact, or raises, and  *)
(* nobody catches it; the text of a worker is no valid Unicode; a command  *)
(* ends in something that cannot be put into an artifact.                  *)
WorkFails ==
  /\ At("work")
  /\ \/ Top.kind = "worker" /\ Return("failed", "state_running")
     \/ Top.kind \in {"worker", "invoke"} /\ Raise
     \/ (\E c \in CommandResults : ArtifactRaises(Top.kind, c)) /\ Raise
  /\ UNCHANGED <<ledger, proj, stale, woken, faults>>

(* Commands produce text, workers data that may carry the id of a run.     *)
Nested(kind) == IF kind \in {"shell", "git"} THEN {{}} ELSE Payloads

RecordArtifactThenReturn ==      \* mutant: the run is never completed
  /\ At("work")
  /\ \/ /\ CanAppend("artifact_written", Top.run)
        /\ \/ \E nested \in Nested(Top.kind) :
                AppendRunEvent("artifact_written", Top.run, nested, depth)
           \/ AppendFails
     \/ /\ ~CanAppend("artifact_written", Top.run)
        /\ UNCHANGED <<ledger, proj, stale, faults>>
  /\ Return("failed", "state_running")
  /\ UNCHANGED woken

RecordArtifact ==
  /\ At("work")
  /\ \/ /\ CanAppend("artifact_written", Top.run)
        /\ \E nested \in Nested(Top.kind) :
             AppendRunEvent("artifact_written", Top.run, nested, depth)
        /\ Goto("complete")
     \/ /\ CanAppend("artifact_written", Top.run)
        /\ AppendFails
        /\ Return("failed", "state_running")
     \/ /\ ~CanAppend("artifact_written", Top.run)
        /\ Return("failed", "state_running")
        /\ UNCHANGED <<ledger, proj, stale, faults>>
  /\ UNCHANGED woken

(* Nothing can come between the artifact and this append: it is refused    *)
(* only by the database.                                                   *)
CompleteUnconditionally ==      \* mutant: the result of the append is not looked at
  /\ At("complete")
  /\ (CanAppend("state_completed", Top.run)
        /\ AppendRunEvent("state_completed", Top.run, {}, depth)) \/ AppendFails
  /\ Return("completed", "state_completed")
  /\ UNCHANGED woken

Complete ==
  /\ At("complete")
  /\ \/ /\ CanAppend("state_completed", Top.run)
        /\ AppendRunEvent("state_completed", Top.run, {}, depth)
        /\ Return("completed", "state_completed")
     \/ /\ AppendFails
        /\ Return("failed", "artifact_written")
  /\ UNCHANGED woken

AdapterStep == InvalidContext \/ StartRunning \/ WorkFails \/ RecordArtifact \/ Complete

---------------------------------------------------------------------------
(* A crash, and rebuild_projection.                                        *)

Crash ==
  /\ depth > 0
  /\ Fault
  /\ depth' = 0
  /\ frame' = [d \in 1 .. MaxDepth |-> Idle]
  /\ last' = NoResult
  /\ UNCHANGED <<ledger, proj, stale, woken>>

ExpectedRow(r) ==
  IF RowsOf(ledger, r) = {} THEN NoRow
  ELSE [state |-> RunStateById(ledger, r), event |-> LastOf(RowsOf(ledger, r))]

RebuildProjection ==
  /\ depth = 0
  /\ proj' = [r \in Runs |-> ExpectedRow(r)]
  /\ stale' = FALSE
  /\ UNCHANGED <<ledger, woken, faults, Calls>>

Init ==
  /\ ledger = <<>>
  /\ proj = [r \in Runs |-> NoRow]
  /\ frame = [d \in 1 .. MaxDepth |-> Idle]
  /\ depth = 0
  /\ last = NoResult
  /\ stale = FALSE
  /\ woken = [r \in Runs |-> 0]
  /\ faults = 0

Call ==
  \/ ValidateOperationEnvelope
  \/ \E nested \in Payloads : OtherEvent(nested)
  \/ \E r \in Runs :
       \/ CreateRun(r)
       \/ \E t \in RunTypes, nested \in Payloads : AppendLifecycleEvent(r, t, nested)
       \/ \E kind \in Kinds : RunOnce(r, kind)

Next == Call \/ AdapterStep \/ Crash \/ RebuildProjection

Spec == Init /\ [][Next]_vars

(* The thread that made a call executes it; worker and command return.     *)
FairSpec == Spec /\ WF_vars(AdapterStep)

---------------------------------------------------------------------------
(*                              Properties                                 *)

(* The possible values of every variable.                                  *)
TypeOK ==
  /\ ledger \in Seq(Event)
  /\ proj \in [Runs -> [state : RunTypes \union {"NONE"}, event : Nat]]
  /\ frame \in [1 .. MaxDepth -> Frame \union {Idle}]
  /\ depth \in 0 .. MaxDepth
  /\ last \in [run : Runs \union {NoRun}, kind : Kinds \union {"none"},
               outcome : {"none", "completed", "failed", "raised"},
               state : RunTypes \union {"unknown", "other"}]
  /\ stale \in BOOLEAN
  /\ woken \in [Runs -> Nat]
  /\ faults \in 0 .. MaxFaults

(* The events of r follow ALLOWED_TRANSITIONS from run_created on.         *)
LegalHistory(r) ==
  \A k \in RowsOf(ledger, r) :
    LET before == {m \in RowsOf(ledger, r) : m < k}
    IN  IF before = {} THEN ledger[k].type = "run_created"
        ELSE ledger[k].type \in AllowedTransitions[ledger[LastOf(before)].type]

(* What get_run_state finds for r are the events of r.                     *)
Unmentioned(r) == RowsLike(ledger, r) = RowsOf(ledger, r)

(* They do for every run whose id is in nobody else's data, whatever is    *)
(* mentioned, moved or interrupted elsewhere.                              *)
UnmentionedRunsAreLegal == \A r \in Runs : Unmentioned(r) => LegalHistory(r)

(* Nothing works on a run twice, whichever adapter, worker or restart      *)
(* tries, and whatever ids the data of callers carry.                      *)
WokenOnce == \A r \in Runs : woken[r] <= 1

(* A table that missed no write says what get_run_state says: "identical   *)
(* to how get_run_state() derives state directly from the ledger".         *)
ProjectionIsState ==
  ~stale => \A r \in Runs : Unmentioned(r) => proj[r].state = RunState(ledger, r)

(* Did the worker itself, or a call it made, append something that         *)
(* mentions the run of f?                                                  *)
Moved(f) ==
  \E k \in f.began + 1 .. Len(ledger) : Mentions(ledger[k], f.run) /\ ledger[k].by # depth

(* The state an adapter reports is the state the ledger has: a result      *)
(* never claims a completion that was not recorded, and never hides one,   *)
(* unless the worker meddled with its own run.                             *)
HonestReport ==
  [][ depth' = depth - 1 /\ last' # NoResult /\ ~Moved(Top)
        => last'.state \in {"unknown", RunState(ledger', Top.run)} ]_vars

(* Once something works on a run the run is completed, unless something    *)
(* failed: the v0.3 worker, the database, the encoding of a command's or a *)
(* worker's output, or somebody else moved or mentioned the run.           *)
RunIsCarriedThrough ==
  \A r \in Runs :
    (\E d \in 1 .. depth : frame[d].run = r /\ frame[d].pc # "start" /\ frame[d].kind # "worker")
      ~> (\/ RunState(ledger, r) = "state_completed"
          \/ last.run = r /\ last.outcome = "raised"
          \/ faults > 0
          \/ ~Unmentioned(r)
          \/ \E k \in RowsOf(ledger, r) : ledger[k].type \in Appendable /\ ledger[k].by = 0)

(* The shell adapter's docstring: a non-zero exit or a timeout is recorded *)
(* honestly and still completes the run; only a failed append does not.    *)
CommandsAreRecorded == last.kind = "shell" => last.outcome # "raised"

===========================================================================
