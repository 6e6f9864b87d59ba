------------------------- MODULE RunLifecycleProofs -------------------------
(***************************************************************************)
(* Theorems about RunLifecycle, for any runs, depth, and number of faults. *)
(*                                                                         *)
(* That nothing works on a run twice needs no assumption about the data of *)
(* callers: a state that was read off another run's event is never         *)
(* run_created, the only one that lets a run start.  That its history is   *)
(* legal holds for the runs that nobody else's data mention.               *)
(***************************************************************************)
EXTENDS RunLifecycle, SequenceTheorems, WellFoundedInduction, TLAPS

---------------------------------------------------------------------------
(* LastOf finds the greatest position.                                     *)

LEMMA LeastPosition ==
  ASSUME NEW S \in SUBSET Nat, S # {}
  PROVE  \E k \in S : \A m \in S : k <= m
<1>1. PICK k \in S : \A m \in S : <<m, k>> \notin OpToRel(<, Nat)
  BY WFMin, NatLessThanWellFounded
<1>2. \A m \in S : ~(m < k)
  BY <1>1 DEF OpToRel
<1> QED
  BY <1>2

LEMMA LastOfIsGreatest ==
  ASSUME NEW n \in Nat, NEW S \in SUBSET (1 .. n), S # {}
  PROVE  LastOf(S) \in S /\ \A m \in S : m <= LastOf(S)
<1> DEFINE Distances == {n - k : k \in S}
<1>1. Distances \in SUBSET Nat /\ Distances # {}
  <2>1. \A k \in S : n - k \in Nat
    OBVIOUS
  <2> QED
    BY <2>1
<1>2. PICK d \in Distances : \A e \in Distances : d <= e
  <2> HIDE DEF Distances
  <2> QED
    BY <1>1, LeastPosition
<1>3. PICK k \in S : d = n - k
  BY <1>2
<1>4. \A m \in S : m <= k
  <2> TAKE m \in S
  <2>1. d <= n - m
    BY <1>2
  <2> QED
    BY <1>3, <2>1
<1> QED
  BY <1>4 DEF LastOf

---------------------------------------------------------------------------
(* The ledger.                                                             *)

RunEvent(t, r, nested, by) == [type |-> t, run |-> r, nested |-> nested, by |-> by]

LEMMA EventTyped ==
  ASSUME NEW nested \in SUBSET Runs
  PROVE  /\ \A t \in RunTypes, r \in Runs, by \in Nat : RunEvent(t, r, nested, by) \in Event
         /\ RunEvent("other", NoRun, nested, 0) \in Event
BY DEF RunEvent, Event

LEMMA EventFields ==
  ASSUME NEW e \in Event
  PROVE  /\ e.type \in RunTypes \union {"other"} /\ e.nested \in SUBSET Runs
         /\ e.type \in RunTypes <=> e.run \in Runs
         /\ e.type = "other" <=> e.run = NoRun
BY NoRunAssumption DEF Event, RunTypes

LEMMA LedgerTyped ==
  ASSUME ledger \in Seq(Event)
  PROVE  /\ Len(ledger) \in Nat /\ DOMAIN ledger = 1 .. Len(ledger)
         /\ \A k \in 1 .. Len(ledger) : ledger[k] \in Event
         /\ \A r : RowsLike(ledger, r) \in SUBSET (1 .. Len(ledger))
         /\ \A r : RowsOf(ledger, r) \in SUBSET (1 .. Len(ledger))
<1>1. /\ Len(ledger) \in Nat /\ DOMAIN ledger = 1 .. Len(ledger)
      /\ \A k \in 1 .. Len(ledger) : ledger[k] \in Event
  BY LenProperties, ElementOfSeq
<1> QED
  BY <1>1 DEF RowsLike, RowsOf

LEMMA StateTyped ==
  ASSUME ledger \in Seq(Event), NEW rows \in SUBSET (1 .. Len(ledger))
  PROVE  /\ rows = {} => RunStateAmong(ledger, rows) = "NONE"
         /\ rows # {} => /\ LastOf(rows) \in rows /\ \A m \in rows : m <= LastOf(rows)
                         /\ RunStateAmong(ledger, rows) = ledger[LastOf(rows)].type
                         /\ RunStateAmong(ledger, rows) \in RunTypes \union {"other"}
BY LedgerTyped, LastOfIsGreatest, EventFields DEF RunStateAmong

LEMMA TransitionTable ==
  \A s \in RunTypes \union {"other"} :
    /\ "run_created" \notin AllowedTransitions[s]
    /\ "state_running" \in AllowedTransitions[s] => s = "run_created"
BY DEF AllowedTransitions, RunTypes

LEMMA AppendedLedger ==
  ASSUME ledger \in Seq(Event), NEW e \in Event, ledger' = Append(ledger, e)
  PROVE  /\ ledger' \in Seq(Event)
         /\ Len(ledger) \in Nat /\ DOMAIN ledger = 1 .. Len(ledger)
         /\ DOMAIN ledger' = 1 .. Len(ledger) + 1
         /\ \A k \in 1 .. Len(ledger) : ledger'[k] = ledger[k]
         /\ ledger'[Len(ledger) + 1] = e
OBVIOUS

---------------------------------------------------------------------------
(* What a step says, and what it lets work.                                *)

Says(t, r, nested, by) == ledger' = Append(ledger, RunEvent(t, r, nested, by))

Silent == UNCHANGED <<ledger, woken>>

SaysOther == \E nested \in SUBSET Runs : Says("other", NoRun, nested, 0) /\ UNCHANGED woken

Creates ==
  \E r \in Runs :
    RowsLike(ledger, r) = {} /\ Says("run_created", r, {}, 0) /\ UNCHANGED woken

Advances ==
  \E r \in Runs, t \in Appendable, nested \in SUBSET Runs, by \in Nat :
    /\ CanAppend(t, r)
    /\ Says(t, r, nested, by)
    /\ \/ UNCHANGED woken
       \/ t = "state_running" /\ woken' = [woken EXCEPT ![r] = @ + 1]

StepShape == Silent \/ SaysOther \/ Creates \/ Advances

LEMMA PayloadsTyped ==
  \A nested \in Payloads : nested \in SUBSET Runs
BY DEF Payloads

LEMMA NestedTyped ==
  ASSUME NEW kind, NEW nested \in Nested(kind)
  PROVE  nested \in SUBSET Runs
BY PayloadsTyped DEF Nested

LEMMA TopTyped ==
  ASSUME TypeOK, NEW step \in {"start", "work", "complete"}, At(step)
  PROVE  /\ depth \in 1 .. MaxDepth /\ Top = frame[depth] /\ Top \in Frame
         /\ Top.run \in Runs /\ Top.kind \in Kinds
<1>1. depth # 0
  BY DEF At, Top, Idle
<1>2. depth \in 1 .. MaxDepth /\ Top = frame[depth] /\ Top \in Frame \union {Idle}
  BY <1>1, BoundsAssumption DEF TypeOK, Top
<1>3. Top \in Frame
  BY <1>2 DEF At, Idle
<1> QED
  BY <1>2, <1>3 DEF Frame

LEMMA CallShape == ASSUME TypeOK, Call PROVE StepShape
<1>1. CASE ValidateOperationEnvelope
  <2>1. Says("other", NoRun, {}, 0) /\ UNCHANGED woken
    BY <1>1 DEF ValidateOperationEnvelope, Says, RunEvent
  <2> QED
    BY <2>1 DEF StepShape, SaysOther
<1>2. ASSUME NEW nested \in Payloads, OtherEvent(nested) PROVE StepShape
  <2>1. Says("other", NoRun, nested, 0) /\ UNCHANGED woken
    BY <1>2, PayloadsTyped DEF OtherEvent, Says, RunEvent
  <2> QED
    BY <2>1, PayloadsTyped DEF StepShape, SaysOther
<1>3. ASSUME NEW r \in Runs, CreateRun(r) PROVE StepShape
  <2>1. RowsLike(ledger, r) = {} /\ UNCHANGED woken
    BY <1>3 DEF CreateRun
  <2>2. Says("run_created", r, {}, 0) \/ UNCHANGED ledger
    BY <1>3 DEF CreateRun, AppendRunEvent, AppendFails, Says, RunEvent
  <2> QED
    BY <2>1, <2>2 DEF StepShape, Silent, Creates
<1>4. ASSUME NEW r \in Runs, NEW t \in RunTypes, NEW nested \in Payloads,
             AppendLifecycleEvent(r, t, nested)
      PROVE  StepShape
  <2>1. CanAppend(t, r) /\ t \in Appendable /\ UNCHANGED woken
    BY <1>4 DEF AppendLifecycleEvent, CanAppend
  <2>2. Says(t, r, nested, 0) \/ UNCHANGED ledger
    BY <1>4, PayloadsTyped DEF AppendLifecycleEvent, AppendRunEvent, AppendFails, Says, RunEvent
  <2> QED
    BY <2>1, <2>2, PayloadsTyped DEF StepShape, Silent, Advances
<1>5. ASSUME NEW r, NEW kind, RunOnce(r, kind) PROVE StepShape
  BY <1>5 DEF RunOnce, StepShape, Silent
<1> QED
  BY <1>1, <1>2, <1>3, <1>4, <1>5 DEF Call

LEMMA AdapterShape == ASSUME TypeOK, AdapterStep PROVE StepShape
<1>1. ASSUME NEW step \in {"start", "work", "complete"}, At(step),
             NEW t \in Appendable, NEW nested \in SUBSET Runs,
             CanAppend(t, Top.run), AppendRunEvent(t, Top.run, nested, depth),
             \/ UNCHANGED woken
             \/ t = "state_running" /\ woken' = [woken EXCEPT ![Top.run] = @ + 1]
      PROVE  StepShape
  <2>1. Top.run \in Runs /\ depth \in Nat
    BY <1>1, TopTyped DEF TypeOK
  <2>2. Says(t, Top.run, nested, depth)
    BY <1>1 DEF AppendRunEvent, Says, RunEvent
  <2> QED
    BY <1>1, <2>1, <2>2 DEF StepShape, Advances
<1>2. CASE InvalidContext \/ WorkFails
  BY <1>2 DEF InvalidContext, WorkFails, StepShape, Silent
<1>3. CASE StartRunning
  <2>1. CASE CanAppend("state_running", Top.run)
             /\ AppendRunEvent("state_running", Top.run, {}, depth)
             /\ woken' = [woken EXCEPT ![Top.run] = @ + 1]
    <3>1. At("start") /\ "state_running" \in Appendable /\ {} \in SUBSET Runs
      BY <1>3 DEF StartRunning, Appendable, RunTypes
    <3> QED
      BY <1>1, <2>1, <3>1
  <2>2. CASE UNCHANGED <<ledger, woken>>
    BY <2>2 DEF StepShape, Silent
  <2> QED
    BY <1>3, <2>1, <2>2 DEF StartRunning, AppendFails
<1>4. CASE RecordArtifact
  <2>1. ASSUME NEW nested \in Nested(Top.kind), CanAppend("artifact_written", Top.run),
               AppendRunEvent("artifact_written", Top.run, nested, depth)
        PROVE  StepShape
    <3>1. At("work") /\ "artifact_written" \in Appendable /\ UNCHANGED woken
      BY <1>4 DEF RecordArtifact, Appendable, RunTypes
    <3> QED
      BY <1>1, <2>1, <3>1, NestedTyped
  <2>2. CASE UNCHANGED <<ledger, woken>>
    BY <2>2 DEF StepShape, Silent
  <2> QED
    BY <1>4, <2>1, <2>2 DEF RecordArtifact, AppendFails
<1>5. CASE Complete
  <2>1. CASE CanAppend("state_completed", Top.run)
             /\ AppendRunEvent("state_completed", Top.run, {}, depth)
    <3>1. /\ At("complete") /\ "state_completed" \in Appendable
          /\ {} \in SUBSET Runs /\ UNCHANGED woken
      BY <1>5 DEF Complete, Appendable, RunTypes
    <3> QED
      BY <1>1, <2>1, <3>1
  <2>2. CASE UNCHANGED <<ledger, woken>>
    BY <2>2 DEF StepShape, Silent
  <2> QED
    BY <1>5, <2>1, <2>2 DEF Complete, AppendFails
<1> QED
  BY <1>2, <1>3, <1>4, <1>5 DEF AdapterStep

LEMMA NextShape == ASSUME TypeOK, [Next]_vars PROVE StepShape
<1>1. CASE Crash \/ RebuildProjection \/ UNCHANGED vars
  BY <1>1 DEF Crash, RebuildProjection, vars, StepShape, Silent
<1> QED
  BY <1>1, CallShape, AdapterShape DEF Next

---------------------------------------------------------------------------
(* Type correctness.                                                       *)

DbOK ==
  /\ ledger \in Seq(Event)
  /\ proj \in [Runs -> [state : RunTypes \union {"NONE"}, event : Nat]]
  /\ stale \in BOOLEAN
  /\ faults \in 0 .. MaxFaults

CallsOK ==
  /\ frame \in [1 .. MaxDepth -> Frame \union {Idle}]
  /\ depth \in 0 .. MaxDepth
  /\ last \in [run : Runs \union {NoRun}, kind : Kinds \union {"none"},
               outcome : {"none", "completed", "failed", "raised"},
               state : RunTypes \union {"unknown", "other"}]

LEMMA TypeParts == TypeOK <=> DbOK /\ CallsOK /\ woken \in [Runs -> Nat]
BY DEF TypeOK, DbOK, CallsOK

LEMMA TypePartsNext ==
  ASSUME DbOK', CallsOK', (woken \in [Runs -> Nat])'
  PROVE  TypeOK'
BY DEF TypeOK, DbOK, CallsOK

LEMMA AppendTyped ==
  ASSUME DbOK, NEW t \in RunTypes, NEW r \in Runs, NEW nested \in SUBSET Runs, NEW by \in Nat,
         AppendRunEvent(t, r, nested, by)
  PROVE  DbOK'
<1>1. RunEvent(t, r, nested, by) \in Event
  BY EventTyped
<1>2. ledger' \in Seq(Event)
  BY <1>1, AppendedLedger DEF DbOK, AppendRunEvent, RunEvent
<1>3. [state |-> t, event |-> Len(ledger) + 1] \in [state : RunTypes \union {"NONE"}, event : Nat]
  BY LenProperties DEF DbOK
<1>4. proj' \in [Runs -> [state : RunTypes \union {"NONE"}, event : Nat]] /\ stale' \in BOOLEAN
  BY <1>3 DEF DbOK, AppendRunEvent, UpdateProjection
<1>5. faults' \in 0 .. MaxFaults
  BY BoundsAssumption DEF DbOK, AppendRunEvent, UpdateProjection, Fault, NoFault
<1> QED
  BY <1>2, <1>4, <1>5 DEF DbOK

LEMMA AppendFailsTyped == ASSUME DbOK, AppendFails PROVE DbOK'
BY BoundsAssumption DEF DbOK, AppendFails, Fault

LEMMA GotoTyped ==
  ASSUME CallsOK, depth # 0, frame[depth] \in Frame,
         NEW step \in {"start", "work", "complete"}, Goto(step)
  PROVE  CallsOK'
<1>1. [frame[depth] EXCEPT !.pc = step] \in Frame
  BY DEF Frame
<1>2. frame' = [frame EXCEPT ![depth] = [frame[depth] EXCEPT !.pc = step]]
  BY DEF Goto
<1> QED
  BY <1>1, <1>2 DEF CallsOK, Goto

LEMMA ReturnTyped ==
  ASSUME CallsOK, depth # 0, Top.run \in Runs, Top.kind \in Kinds,
         NEW outcome \in {"completed", "failed", "raised"},
         NEW state \in RunTypes \union {"unknown", "other"}, Return(outcome, state)
  PROVE  CallsOK'
<1>1. depth' \in 0 .. MaxDepth
  BY BoundsAssumption DEF CallsOK, Return
<1>2. frame' \in [1 .. MaxDepth -> Frame \union {Idle}]
  BY DEF CallsOK, Return
<1>3. last' \in [run : Runs \union {NoRun}, kind : Kinds \union {"none"},
                outcome : {"none", "completed", "failed", "raised"},
                state : RunTypes \union {"unknown", "other"}]
  BY DEF Return
<1> QED
  BY <1>1, <1>2, <1>3 DEF CallsOK

LEMMA ReportedTyped ==
  ASSUME ledger \in Seq(Event), NEW r
  PROVE  Reported(r) \in RunTypes \union {"unknown", "other"}
BY LedgerTyped, StateTyped DEF Reported, RunState

LEMMA TypeInit == Init => TypeOK
<1> SUFFICES ASSUME Init PROVE TypeOK
  OBVIOUS
<1>1. ledger \in Seq(Event) /\ depth \in 0 .. MaxDepth /\ faults \in 0 .. MaxFaults
      /\ stale \in BOOLEAN /\ woken \in [Runs -> Nat]
  <2>1. 0 \in 0 .. MaxDepth /\ 0 \in 0 .. MaxFaults
    BY BoundsAssumption
  <2>2. <<>> \in Seq(Event) /\ [r \in Runs |-> 0] \in [Runs -> Nat]
    OBVIOUS
  <2> QED
    BY <2>1, <2>2 DEF Init
<1>2. proj \in [Runs -> [state : RunTypes \union {"NONE"}, event : Nat]]
  BY DEF Init, NoRow
<1>3. frame \in [1 .. MaxDepth -> Frame \union {Idle}]
  BY DEF Init
<1>4. last \in [run : Runs \union {NoRun}, kind : Kinds \union {"none"},
               outcome : {"none", "completed", "failed", "raised"},
               state : RunTypes \union {"unknown", "other"}]
  BY DEF Init, NoResult
<1> QED
  BY <1>1, <1>2, <1>3, <1>4 DEF TypeOK

LEMMA TypeCall == ASSUME TypeOK, Call PROVE TypeOK'
<1>1. DbOK /\ CallsOK /\ woken \in [Runs -> Nat]
  BY TypeParts
<1>2. ASSUME UNCHANGED <<woken, Calls>>, DbOK' PROVE TypeOK'
  <2>1. CallsOK' /\ (woken \in [Runs -> Nat])'
    BY <1>1, <1>2 DEF CallsOK, Calls
  <2> QED
    BY <1>2, <2>1, TypePartsNext
<1>3. ASSUME NEW nested \in SUBSET Runs,
             ledger' = Append(ledger, RunEvent("other", NoRun, nested, 0)),
             UNCHANGED <<proj, stale, faults>>
      PROVE  DbOK'
  <2>1. ledger' \in Seq(Event)
    BY <1>1, <1>3, EventTyped, AppendedLedger DEF DbOK
  <2> QED
    BY <1>1, <1>3, <2>1 DEF DbOK
<1>4. CASE ValidateOperationEnvelope
  BY <1>2, <1>3, <1>4 DEF ValidateOperationEnvelope, RunEvent
<1>5. ASSUME NEW nested \in Payloads, OtherEvent(nested) PROVE TypeOK'
  BY <1>2, <1>3, <1>5, PayloadsTyped DEF OtherEvent, RunEvent
<1>6. ASSUME NEW r \in Runs, CreateRun(r) PROVE TypeOK'
  <2>1. DbOK'
    BY <1>1, <1>6, AppendTyped, AppendFailsTyped DEF CreateRun, RunTypes
  <2> QED
    BY <1>2, <1>6, <2>1 DEF CreateRun
<1>7. ASSUME NEW r \in Runs, NEW t \in RunTypes, NEW nested \in Payloads,
             AppendLifecycleEvent(r, t, nested)
      PROVE  TypeOK'
  <2>1. DbOK'
    BY <1>1, <1>7, AppendTyped, AppendFailsTyped, PayloadsTyped DEF AppendLifecycleEvent
  <2> QED
    BY <1>2, <1>7, <2>1 DEF AppendLifecycleEvent
<1>8. ASSUME NEW r \in Runs, NEW kind \in Kinds, RunOnce(r, kind) PROVE TypeOK'
  <2>1. [pc |-> "start", run |-> r, kind |-> kind, began |-> Len(ledger)] \in Frame
    BY <1>1, LenProperties DEF Frame, DbOK
  <2>2. CallsOK'
    BY <1>1, <1>8, <2>1, BoundsAssumption DEF CallsOK, RunOnce
  <2>3. DbOK' /\ (woken \in [Runs -> Nat])'
    BY <1>1, <1>8 DEF DbOK, RunOnce
  <2> QED
    BY <2>2, <2>3, TypePartsNext
<1> QED
  BY <1>4, <1>5, <1>6, <1>7, <1>8 DEF Call

LEMMA TypeAdapterStep == ASSUME TypeOK, AdapterStep PROVE TypeOK'
<1>1. DbOK /\ CallsOK /\ woken \in [Runs -> Nat] /\ ledger \in Seq(Event)
  BY TypeParts DEF DbOK
<1>2. PICK step \in {"start", "work", "complete"} : At(step)
  BY DEF AdapterStep, InvalidContext, StartRunning, WorkFails, RecordArtifact, Complete
<1>3. /\ depth # 0 /\ depth \in Nat /\ frame[depth] \in Frame
      /\ Top.run \in Runs /\ Top.kind \in Kinds
  BY <1>2, TopTyped
<1>4. ASSUME NEW outcome \in {"completed", "failed", "raised"},
             NEW state \in RunTypes \union {"unknown", "other"}, Return(outcome, state)
      PROVE  CallsOK'
  BY <1>1, <1>3, <1>4, ReturnTyped
<1>5. ASSUME NEW next \in {"start", "work", "complete"}, Goto(next) PROVE CallsOK'
  BY <1>1, <1>3, <1>5, GotoTyped
<1>6. ASSUME NEW t \in RunTypes, NEW nested \in SUBSET Runs,
             AppendRunEvent(t, Top.run, nested, depth)
      PROVE  DbOK'
  BY <1>1, <1>3, <1>6, AppendTyped
<1>7. ASSUME AppendFails \/ UNCHANGED <<ledger, proj, stale, faults>> PROVE DbOK'
  BY <1>1, <1>7, AppendFailsTyped DEF DbOK
<1>8. ASSUME UNCHANGED woken, DbOK', CallsOK' PROVE TypeOK'
  BY <1>1, <1>8, TypePartsNext
<1>9. CASE InvalidContext
  <2>1. Return("failed", "unknown") /\ UNCHANGED <<ledger, proj, stale, woken, faults>>
    BY <1>9 DEF InvalidContext
  <2> QED
    BY <1>4, <1>7, <1>8, <2>1
<1>10. CASE WorkFails
  <2>1. /\ \/ Return("failed", "state_running")
           \/ Return("raised", "unknown")
        /\ UNCHANGED <<ledger, proj, stale, woken, faults>>
    BY <1>10 DEF WorkFails, Raise
  <2>2. "state_running" \in RunTypes
    BY DEF RunTypes
  <2>3. CallsOK'
    BY <1>4, <2>1, <2>2
  <2> QED
    BY <1>7, <1>8, <2>1, <2>3
<1>11. CASE StartRunning
  <2>1. Reported(Top.run) \in RunTypes \union {"unknown", "other"}
    BY <1>1, ReportedTyped
  <2>2. "state_running" \in RunTypes /\ {} \in SUBSET Runs
    BY DEF RunTypes
  <2>3. CallsOK'
    BY <1>4, <1>5, <1>11, <2>1 DEF StartRunning
  <2>4. DbOK'
    BY <1>6, <1>7, <1>11, <2>2 DEF StartRunning
  <2>5. (woken \in [Runs -> Nat])'
    BY <1>1, <1>3, <1>11 DEF StartRunning
  <2> QED
    BY <2>3, <2>4, <2>5, TypePartsNext
<1>12. CASE RecordArtifact
  <2>1. "artifact_written" \in RunTypes /\ "state_running" \in RunTypes
    BY DEF RunTypes
  <2>2. CallsOK'
    BY <1>4, <1>5, <1>12, <2>1 DEF RecordArtifact
  <2>3. DbOK'
    <3>1. CASE \E nested \in Nested(Top.kind) :
                 AppendRunEvent("artifact_written", Top.run, nested, depth)
      BY <1>6, <2>1, <3>1, NestedTyped
    <3>2. CASE AppendFails \/ UNCHANGED <<ledger, proj, stale, faults>>
      BY <1>7, <3>2
    <3> QED
      BY <1>12, <3>1, <3>2 DEF RecordArtifact
  <2>4. UNCHANGED woken
    BY <1>12 DEF RecordArtifact
  <2> QED
    BY <1>8, <2>2, <2>3, <2>4
<1>13. CASE Complete
  <2>1. {"state_completed", "artifact_written"} \subseteq RunTypes /\ {} \in SUBSET Runs
    BY DEF RunTypes
  <2>2. CallsOK'
    BY <1>4, <1>13, <2>1 DEF Complete
  <2>3. DbOK'
    BY <1>6, <1>7, <1>13, <2>1 DEF Complete
  <2>4. UNCHANGED woken
    BY <1>13 DEF Complete
  <2> QED
    BY <1>8, <2>2, <2>3, <2>4
<1> QED
  BY <1>9, <1>10, <1>11, <1>12, <1>13 DEF AdapterStep

LEMMA TypeNext == TypeOK /\ [Next]_vars => TypeOK'
<1> SUFFICES ASSUME TypeOK, [Next]_vars PROVE TypeOK'
  OBVIOUS
<1>1. CASE Crash
  <2>1. depth' = 0 /\ frame' \in [1 .. MaxDepth -> Frame \union {Idle}] /\ last' = NoResult
    BY <1>1 DEF Crash
  <2>2. CallsOK'
    BY <2>1, BoundsAssumption DEF CallsOK, NoResult
  <2>3. DbOK' /\ (woken \in [Runs -> Nat])'
    BY <1>1, BoundsAssumption DEF Crash, Fault, TypeOK, DbOK
  <2> QED
    BY <2>2, <2>3, TypePartsNext
<1>2. CASE RebuildProjection
  <2>1. \A r \in Runs : ExpectedRow(r) \in [state : RunTypes \union {"NONE"}, event : Nat]
    <3> TAKE r \in Runs
    <3>1. CASE RowsOf(ledger, r) = {}
      BY <3>1 DEF ExpectedRow, NoRow
    <3>2. CASE RowsOf(ledger, r) # {}
      <4>1. LastOf(RowsOf(ledger, r)) \in RowsOf(ledger, r)
            /\ RunStateById(ledger, r) = ledger[LastOf(RowsOf(ledger, r))].type
        BY <3>2, LedgerTyped, StateTyped DEF TypeOK, RunStateById
      <4>2. LastOf(RowsOf(ledger, r)) \in Nat /\ RunStateById(ledger, r) \in RunTypes
        BY <4>1, LedgerTyped, EventFields DEF RowsOf, TypeOK
      <4> QED
        BY <3>2, <4>2 DEF ExpectedRow
    <3> QED
      BY <3>1, <3>2
  <2>2. DbOK'
    BY <1>2, <2>1 DEF RebuildProjection, TypeOK, DbOK
  <2>3. CallsOK' /\ (woken \in [Runs -> Nat])'
    BY <1>2 DEF RebuildProjection, TypeOK, CallsOK, Calls
  <2> QED
    BY <2>2, <2>3, TypePartsNext
<1>3. CASE UNCHANGED vars
  BY <1>3 DEF vars, TypeOK
<1> QED
  BY <1>1, <1>2, <1>3, TypeCall, TypeAdapterStep DEF Next

(* Every variable keeps to its possible values.                            *)
THEOREM TypeCorrect == Spec => []TypeOK
BY TypeInit, TypeNext, PTL DEF Spec

---------------------------------------------------------------------------
(* Nothing works on a run twice.                                           *)

(* What makes it so: a run_created is the first thing ever said of its run,*)
(* and what was woken is on record.                                        *)
CreatedFirst ==
  \A k \in DOMAIN ledger : ledger[k].type = "run_created" =>
    /\ ledger[k].nested = {}
    /\ \A j \in RowsLike(ledger, ledger[k].run) : k <= j

WokenIsRecorded ==
  \A r \in Runs : woken[r] > 0 =>
    \E k \in DOMAIN ledger : ledger[k].type = "state_running" /\ ledger[k].run = r

WokenInv == CreatedFirst /\ WokenIsRecorded /\ WokenOnce

LEMMA StartsOnlyNew ==
  ASSUME ledger \in Seq(Event), CreatedFirst, NEW r \in Runs, CanAppend("state_running", r)
  PROVE  \A k \in DOMAIN ledger : ~(ledger[k].type = "state_running" /\ ledger[k].run = r)
<1> DEFINE rows == RowsLike(ledger, r)
<1>1. rows \in SUBSET (1 .. Len(ledger)) /\ rows # {}
  BY LedgerTyped, StateTyped DEF CanAppend, RunState
<1>2. /\ LastOf(rows) \in rows /\ \A m \in rows : m <= LastOf(rows)
      /\ RunState(ledger, r) = ledger[LastOf(rows)].type
      /\ RunState(ledger, r) \in RunTypes \union {"other"}
  BY <1>1, StateTyped DEF RunState
<1>3. ledger[LastOf(rows)].type = "run_created"
  BY <1>2, TransitionTable DEF CanAppend
<1>4. LastOf(rows) \in DOMAIN ledger /\ ledger[LastOf(rows)].run = r
  BY <1>2, <1>3 DEF CreatedFirst, RowsLike, Mentions
<1>5. SUFFICES ASSUME NEW k \in DOMAIN ledger,
                      ledger[k].type = "state_running", ledger[k].run = r
               PROVE  FALSE
  OBVIOUS
<1>6. k \in rows
  BY <1>5 DEF RowsLike, Mentions
<1>7. k <= LastOf(rows) /\ LastOf(rows) <= k
  BY <1>2, <1>3, <1>4, <1>6 DEF CreatedFirst
<1>8. k = LastOf(rows)
  BY <1>1, <1>2, <1>6, <1>7
<1> QED
  BY <1>3, <1>5, <1>8

LEMMA CreatedFirstKept ==
  ASSUME ledger \in Seq(Event), CreatedFirst, NEW e \in Event, ledger' = Append(ledger, e),
         e.type = "run_created" => e.nested = {} /\ RowsLike(ledger, e.run) = {}
  PROVE  CreatedFirst'
<1> DEFINE n == Len(ledger)
<1>1. /\ n \in Nat /\ DOMAIN ledger = 1 .. n /\ DOMAIN ledger' = 1 .. n + 1
      /\ ledger'[n + 1] = e /\ \A k \in 1 .. n : ledger'[k] = ledger[k]
  BY AppendedLedger
<1> HIDE DEF n
<1>2. SUFFICES ASSUME NEW k \in 1 .. n + 1, ledger'[k].type = "run_created"
               PROVE  /\ ledger'[k].nested = {}
                      /\ \A j \in RowsLike(ledger', ledger'[k].run) : k <= j
  BY <1>1 DEF CreatedFirst
<1>3. \A r : RowsLike(ledger', r) \ {n + 1} = RowsLike(ledger, r)
             /\ RowsLike(ledger', r) \in SUBSET (1 .. n + 1)
  BY <1>1 DEF RowsLike
<1>4. CASE k = n + 1
  BY <1>1, <1>2, <1>3, <1>4
<1>5. CASE k # n + 1
  <2>1. k \in 1 .. n /\ ledger'[k] = ledger[k]
    BY <1>1, <1>5
  <2>2. ledger[k].nested = {} /\ \A j \in RowsLike(ledger, ledger[k].run) : k <= j
    BY <1>1, <1>2, <2>1 DEF CreatedFirst
  <2>3. k <= n + 1
    BY <1>1, <2>1
  <2> QED
    BY <1>3, <2>1, <2>2, <2>3
<1> QED
  BY <1>4, <1>5

LEMMA RecordKept ==
  ASSUME ledger \in Seq(Event), WokenIsRecorded, NEW e \in Event, ledger' = Append(ledger, e),
         UNCHANGED woken
  PROVE  WokenIsRecorded'
<1>1. /\ DOMAIN ledger \subseteq DOMAIN ledger'
      /\ \A k \in DOMAIN ledger : ledger'[k] = ledger[k]
  BY AppendedLedger
<1> QED
  BY <1>1 DEF WokenIsRecorded

LEMMA SaidEvent ==
  ASSUME NEW t, NEW r, NEW nested \in SUBSET Runs, NEW by, Says(t, r, nested, by),
         \/ t \in RunTypes /\ r \in Runs /\ by \in Nat
         \/ t = "other" /\ r = NoRun /\ by = 0
  PROVE  \E e \in Event :
           /\ ledger' = Append(ledger, e)
           /\ e.type = t /\ e.run = r /\ e.nested = nested
<1> DEFINE e == RunEvent(t, r, nested, by)
<1>1. e \in Event
  BY EventTyped
<1>2. e.type = t /\ e.run = r /\ e.nested = nested
  BY DEF RunEvent
<1> QED
  BY <1>1, <1>2 DEF Says

LEMMA WokenInit == Init => WokenInv
BY DEF Init, WokenInv, CreatedFirst, WokenIsRecorded, WokenOnce

LEMMA WokenNext == TypeOK /\ WokenInv /\ [Next]_vars => WokenInv'
<1> SUFFICES ASSUME TypeOK, WokenInv, [Next]_vars PROVE WokenInv'
  OBVIOUS
<1>1. StepShape /\ ledger \in Seq(Event) /\ woken \in [Runs -> Nat]
  BY NextShape DEF TypeOK
<1>2. CreatedFirst /\ WokenIsRecorded /\ WokenOnce
  BY DEF WokenInv
<1>3. CASE Silent
  BY <1>2, <1>3 DEF Silent, WokenInv, CreatedFirst, WokenIsRecorded, WokenOnce
<1>4. ASSUME NEW e \in Event, ledger' = Append(ledger, e), UNCHANGED woken,
             e.type = "run_created" => e.nested = {} /\ RowsLike(ledger, e.run) = {}
      PROVE  WokenInv'
  BY <1>1, <1>2, <1>4, CreatedFirstKept, RecordKept DEF WokenInv, WokenOnce
<1>5. CASE SaysOther
  <2>1. PICK nested \in SUBSET Runs : Says("other", NoRun, nested, 0) /\ UNCHANGED woken
    BY <1>5 DEF SaysOther
  <2>2. PICK e \in Event : ledger' = Append(ledger, e) /\ e.type = "other"
    BY <2>1, SaidEvent
  <2> QED
    BY <1>4, <2>1, <2>2
<1>6. CASE Creates
  <2>1. PICK r \in Runs :
          RowsLike(ledger, r) = {} /\ Says("run_created", r, {}, 0) /\ UNCHANGED woken
    BY <1>6 DEF Creates
  <2>2. PICK e \in Event : ledger' = Append(ledger, e) /\ e.run = r /\ e.nested = {}
    <3> DEFINE x == RunEvent("run_created", r, {}, 0)
    <3>1. "run_created" \in RunTypes /\ {} \in SUBSET Runs /\ 0 \in Nat
      BY DEF RunTypes
    <3>2. x \in Event
      BY <3>1, EventTyped
    <3>3. ledger' = Append(ledger, x) /\ x.type = "run_created" /\ x.run = r /\ x.nested = {}
      BY <2>1 DEF Says, RunEvent
    <3> QED
      BY <3>2, <3>3
  <2> QED
    BY <1>4, <2>1, <2>2
<1>7. CASE Advances
  <2>1. PICK r \in Runs, t \in Appendable, nested \in SUBSET Runs, by \in Nat :
          /\ CanAppend(t, r) /\ Says(t, r, nested, by)
          /\ \/ UNCHANGED woken
             \/ t = "state_running" /\ woken' = [woken EXCEPT ![r] = @ + 1]
    BY <1>7 DEF Advances
  <2>2. PICK e \in Event : ledger' = Append(ledger, e) /\ e.type = t /\ e.run = r
    <3> DEFINE x == RunEvent(t, r, nested, by)
    <3>1. x \in Event
      BY EventTyped DEF Appendable
    <3>2. ledger' = Append(ledger, x) /\ x.type = t /\ x.run = r /\ x.nested = nested
      BY <2>1 DEF Says, RunEvent
    <3> QED
      BY <3>1, <3>2
  <2>3. e.type # "run_created"
    BY <2>2 DEF Appendable
  <2>4. CASE UNCHANGED woken
    BY <1>4, <2>2, <2>3, <2>4
  <2>5. CASE t = "state_running" /\ woken' = [woken EXCEPT ![r] = @ + 1]
    <3>1. woken[r] = 0
      BY <1>1, <1>2, <2>1, <2>5, StartsOnlyNew DEF WokenIsRecorded
    <3>2. WokenOnce'
      BY <1>1, <1>2, <2>5, <3>1 DEF WokenOnce
    <3>3. /\ DOMAIN ledger \subseteq DOMAIN ledger'
          /\ \A k \in DOMAIN ledger : ledger'[k] = ledger[k]
          /\ Len(ledger) + 1 \in DOMAIN ledger' /\ ledger'[Len(ledger) + 1] = e
      BY <1>1, <2>2, AppendedLedger
    <3>4. WokenIsRecorded'
      <4> SUFFICES ASSUME NEW x \in Runs, woken'[x] > 0
                   PROVE  \E k \in DOMAIN ledger' :
                            ledger'[k].type = "state_running" /\ ledger'[k].run = x
        BY DEF WokenIsRecorded
      <4>1. CASE x = r
        BY <2>2, <2>5, <3>3, <4>1
      <4>2. CASE x # r
        <5>1. woken[x] > 0
          BY <1>1, <2>5, <4>2
        <5> QED
          BY <1>2, <3>3, <5>1 DEF WokenIsRecorded
      <4> QED
        BY <4>1, <4>2
    <3> QED
      BY <1>1, <1>2, <2>2, <2>3, <3>2, <3>4, CreatedFirstKept DEF WokenInv
  <2> QED
    BY <2>1, <2>4, <2>5
<1> QED
  BY <1>1, <1>3, <1>5, <1>6, <1>7 DEF StepShape

(* Whatever crashes, fails or calls back, and whatever ids the data of     *)
(* callers carry, no adapter lets anything work on a run a second time.    *)
THEOREM NeverWokenTwice == Spec => []WokenOnce
<1>1. WokenInv => WokenOnce
  BY DEF WokenInv
<1> QED
  BY <1>1, WokenInit, WokenNext, TypeCorrect, PTL DEF Spec

---------------------------------------------------------------------------
(* The history of every run that only its own events mention is legal.     *)

NextInHistory(e) ==
  IF RowsOf(ledger, e.run) = {} THEN e.type = "run_created"
  ELSE e.type \in AllowedTransitions[ledger[LastOf(RowsOf(ledger, e.run))].type]

LEMMA LegalAppend ==
  ASSUME ledger \in Seq(Event), UnmentionedRunsAreLegal,
         NEW e \in Event, ledger' = Append(ledger, e),
         e.type \in RunTypes /\ Unmentioned(e.run) => NextInHistory(e)
  PROVE  UnmentionedRunsAreLegal'
<1> DEFINE n == Len(ledger)
           Before(r, k) == {m \in RowsOf(ledger, r) : m < k}
           After(r, k) == {m \in RowsOf(ledger', r) : m < k}
<1>1. /\ n \in Nat /\ DOMAIN ledger = 1 .. n /\ DOMAIN ledger' = 1 .. n + 1
      /\ ledger'[n + 1] = e /\ \A k \in 1 .. n : ledger'[k] = ledger[k]
  BY AppendedLedger
<1>2. SUFFICES ASSUME NEW r \in Runs, RowsLike(ledger', r) = RowsOf(ledger', r),
                      NEW k \in RowsOf(ledger', r)
               PROVE  IF After(r, k) = {} THEN ledger'[k].type = "run_created"
                      ELSE ledger'[k].type
                             \in AllowedTransitions[ledger'[LastOf(After(r, k))].type]
  BY DEF UnmentionedRunsAreLegal, Unmentioned, LegalHistory
<1>3. RowsOf(ledger, r) \in SUBSET (1 .. n) /\ RowsLike(ledger, r) \in SUBSET (1 .. n)
  BY LedgerTyped
<1> HIDE DEF n
<1>4. \A m : m \in RowsOf(ledger', r) <=> m \in RowsOf(ledger, r) \/ (m = n + 1 /\ e.run = r)
  BY <1>1 DEF RowsOf
<1>5. Unmentioned(r)
  <2>1. \A m \in 1 .. n : m \in RowsLike(ledger', r) <=> m \in RowsLike(ledger, r)
    BY <1>1 DEF RowsLike
  <2>2. n + 1 \notin 1 .. n
    BY <1>1
  <2>3. \A m \in 1 .. n : m \in RowsLike(ledger, r) <=> m \in RowsOf(ledger, r)
    BY <1>2, <1>4, <2>1, <2>2
  <2>4. RowsLike(ledger, r) = RowsOf(ledger, r)
    BY <1>3, <2>3
  <2> QED
    BY <2>4 DEF Unmentioned
<1>6. CASE k \in RowsOf(ledger, r)
  <2>1. k \in 1 .. n /\ After(r, k) = Before(r, k)
    BY <1>1, <1>3, <1>4, <1>6
  <2>2. Before(r, k) # {} => LastOf(Before(r, k)) \in 1 .. n
    <3>1. Before(r, k) \in SUBSET (1 .. n)
      BY <1>3
    <3> HIDE DEF Before
    <3> QED
      BY <1>1, <3>1, LastOfIsGreatest
  <2>3. IF Before(r, k) = {} THEN ledger[k].type = "run_created"
        ELSE ledger[k].type \in AllowedTransitions[ledger[LastOf(Before(r, k))].type]
    BY <1>5, <1>6 DEF UnmentionedRunsAreLegal, LegalHistory
  <2> HIDE DEF Before, After
  <2> QED
    BY <1>1, <2>1, <2>2, <2>3
<1>7. CASE k \notin RowsOf(ledger, r)
  <2>1. k = n + 1 /\ e.run = r
    BY <1>2, <1>4, <1>7
  <2>2. After(r, k) = RowsOf(ledger, r)
    BY <1>1, <1>3, <1>4, <2>1
  <2>3. RowsOf(ledger, r) # {} => LastOf(RowsOf(ledger, r)) \in 1 .. n
    BY <1>1, <1>3, LastOfIsGreatest
  <2>4. NextInHistory(e)
    BY <1>5, <2>1, EventFields
  <2> HIDE DEF Before, After
  <2> QED
    BY <1>1, <2>1, <2>2, <2>3, <2>4 DEF NextInHistory
<1> QED
  BY <1>6, <1>7

LEMMA RunHistoryNext == TypeOK /\ UnmentionedRunsAreLegal /\ [Next]_vars => UnmentionedRunsAreLegal'
<1> SUFFICES ASSUME TypeOK, UnmentionedRunsAreLegal, [Next]_vars PROVE UnmentionedRunsAreLegal'
  OBVIOUS
<1>1. StepShape /\ ledger \in Seq(Event)
  BY NextShape DEF TypeOK
<1>2. CASE Silent
  BY <1>2 DEF Silent, UnmentionedRunsAreLegal, Unmentioned, LegalHistory
<1>3. ASSUME NEW e \in Event, ledger' = Append(ledger, e),
             e.type \in RunTypes /\ Unmentioned(e.run) => NextInHistory(e)
      PROVE  UnmentionedRunsAreLegal'
  BY <1>1, <1>3, LegalAppend
<1>4. CASE SaysOther
  <2>1. PICK nested \in SUBSET Runs : Says("other", NoRun, nested, 0)
    BY <1>4 DEF SaysOther
  <2>2. PICK e \in Event : ledger' = Append(ledger, e) /\ e.type = "other"
    BY <2>1, SaidEvent
  <2> QED
    BY <1>3, <2>2 DEF RunTypes
<1>5. CASE Creates
  <2>1. PICK r \in Runs : RowsLike(ledger, r) = {} /\ Says("run_created", r, {}, 0)
    BY <1>5 DEF Creates
  <2>2. PICK e \in Event : ledger' = Append(ledger, e) /\ e.type = "run_created" /\ e.run = r
    <3> DEFINE x == RunEvent("run_created", r, {}, 0)
    <3>1. "run_created" \in RunTypes /\ {} \in SUBSET Runs /\ 0 \in Nat
      BY DEF RunTypes
    <3>2. x \in Event
      BY <3>1, EventTyped
    <3>3. ledger' = Append(ledger, x) /\ x.type = "run_created" /\ x.run = r
      BY <2>1 DEF Says, RunEvent
    <3> QED
      BY <3>2, <3>3
  <2>3. NextInHistory(e)
    BY <2>1, <2>2 DEF NextInHistory, RowsOf, RowsLike, Mentions
  <2> QED
    BY <1>3, <2>2, <2>3
<1>6. CASE Advances
  <2>1. PICK r \in Runs, t \in Appendable, nested \in SUBSET Runs, by \in Nat :
          CanAppend(t, r) /\ Says(t, r, nested, by)
    BY <1>6 DEF Advances
  <2>2. PICK e \in Event : ledger' = Append(ledger, e) /\ e.type = t /\ e.run = r
    <3> DEFINE x == RunEvent(t, r, nested, by)
    <3>1. x \in Event
      BY EventTyped DEF Appendable
    <3>2. ledger' = Append(ledger, x) /\ x.type = t /\ x.run = r
      BY <2>1 DEF Says, RunEvent
    <3> QED
      BY <3>1, <3>2
  <2>3. ASSUME Unmentioned(r) PROVE NextInHistory(e)
    <3>1. /\ RowsOf(ledger, r) # {}
          /\ RunState(ledger, r) = ledger[LastOf(RowsOf(ledger, r))].type
      BY <1>1, <2>1, <2>3, LedgerTyped, StateTyped DEF CanAppend, RunState, Unmentioned
    <3> QED
      BY <2>1, <2>2, <3>1 DEF NextInHistory, CanAppend
  <2> QED
    BY <1>3, <2>2, <2>3
<1> QED
  BY <1>1, <1>2, <1>4, <1>5, <1>6 DEF StepShape

(* Any transition outside ALLOWED_TRANSITIONS is mechanically rejected for *)
(* a run that nobody else's data mention under "run_id".                   *)
THEOREM RunHistoryIsLegal == Spec => []UnmentionedRunsAreLegal
<1>1. Init => UnmentionedRunsAreLegal
  BY DEF Init, UnmentionedRunsAreLegal, LegalHistory, RowsOf
<1> QED
  BY <1>1, RunHistoryNext, TypeCorrect, PTL DEF Spec

---------------------------------------------------------------------------
(* The projection.                                                         *)

(* The latest event about a run decides its state.                         *)
LEMMA LatestDecides ==
  ASSUME NEW L \in Seq(Event), NEW e \in Event, NEW rows \in SUBSET (1 .. Len(L))
  PROVE  /\ LastOf(rows \union {Len(L) + 1}) = Len(L) + 1
         /\ RunStateAmong(Append(L, e), rows \union {Len(L) + 1}) = e.type
         /\ RunStateAmong(Append(L, e), rows) = RunStateAmong(L, rows)
<1> DEFINE n == Len(L)
           M == Append(L, e)
           new == rows \union {n + 1}
<1>1. n \in Nat /\ DOMAIN L = 1 .. n /\ M[n + 1] = e /\ \A k \in 1 .. n : M[k] = L[k]
  OBVIOUS
<1>2. rows \in SUBSET (1 .. n)
  OBVIOUS
<1> HIDE DEF n, M
<1>3. new \in SUBSET (1 .. n + 1) /\ n + 1 \in new /\ n + 1 \in Nat
  BY <1>1, <1>2
<1> HIDE DEF new
<1>4. LastOf(new) \in new /\ \A m \in new : m <= LastOf(new)
  BY <1>3, LastOfIsGreatest
<1>5. LastOf(new) = n + 1
  <2>1. LastOf(new) \in 1 .. n + 1 /\ n + 1 <= LastOf(new)
    BY <1>3, <1>4
  <2> QED
    BY <1>1, <2>1
<1>6. RunStateAmong(M, new) = e.type
  BY <1>1, <1>3, <1>5 DEF RunStateAmong
<1>7. rows # {} => LastOf(rows) \in 1 .. n
  BY <1>1, <1>2, LastOfIsGreatest
<1>8. RunStateAmong(M, rows) = RunStateAmong(L, rows)
  BY <1>1, <1>7 DEF RunStateAmong
<1> QED
  BY <1>5, <1>6, <1>8 DEF n, M, new

LEMMA AppendedState ==
  ASSUME ledger \in Seq(Event), NEW e \in Event, ledger' = Append(ledger, e), NEW r
  PROVE  /\ Mentions(e, r) => RunState(ledger', r) = e.type
         /\ ~Mentions(e, r) => RunState(ledger', r) = RunState(ledger, r)
         /\ e.run = r => /\ RunStateById(ledger', r) = e.type /\ RowsOf(ledger', r) # {}
                         /\ LastOf(RowsOf(ledger', r)) = Len(ledger) + 1
         /\ e.run # r => /\ RunStateById(ledger', r) = RunStateById(ledger, r)
                         /\ RowsOf(ledger', r) = RowsOf(ledger, r)
<1> DEFINE n == Len(ledger)
<1>1. /\ n \in Nat /\ DOMAIN ledger = 1 .. n /\ DOMAIN ledger' = 1 .. n + 1
      /\ ledger'[n + 1] = e /\ \A k \in 1 .. n : ledger'[k] = ledger[k]
  BY AppendedLedger
<1> HIDE DEF n
<1>2. RowsLike(ledger', r) =
        IF Mentions(e, r) THEN RowsLike(ledger, r) \union {n + 1} ELSE RowsLike(ledger, r)
  BY <1>1 DEF RowsLike
<1>3. RowsOf(ledger', r) =
        IF e.run = r THEN RowsOf(ledger, r) \union {n + 1} ELSE RowsOf(ledger, r)
  BY <1>1 DEF RowsOf
<1>4. ASSUME NEW rows \in SUBSET (1 .. n)
      PROVE  /\ LastOf(rows \union {n + 1}) = n + 1
             /\ RunStateAmong(ledger', rows \union {n + 1}) = e.type
             /\ RunStateAmong(ledger', rows) = RunStateAmong(ledger, rows)
  BY <1>4, LatestDecides DEF n
<1>5. RowsLike(ledger, r) \in SUBSET (1 .. n) /\ RowsOf(ledger, r) \in SUBSET (1 .. n)
  BY <1>1 DEF RowsLike, RowsOf
<1>6. /\ Mentions(e, r) => RunState(ledger', r) = e.type
      /\ ~Mentions(e, r) => RunState(ledger', r) = RunState(ledger, r)
  BY <1>2, <1>4, <1>5 DEF RunState
<1>7. /\ e.run = r => /\ RunStateById(ledger', r) = e.type /\ RowsOf(ledger', r) # {}
                      /\ LastOf(RowsOf(ledger', r)) = Len(ledger) + 1
      /\ e.run # r => /\ RunStateById(ledger', r) = RunStateById(ledger, r)
                      /\ RowsOf(ledger', r) = RowsOf(ledger, r)
  BY <1>3, <1>4, <1>5 DEF RunStateById, n
<1> QED
  BY <1>6, <1>7

ProjectionIsRebuild == ~stale => \A r \in Runs : proj[r] = ExpectedRow(r)

(* What a step writes.                                                     *)
WritesNothing == UNCHANGED <<ledger, proj, stale>>

WritesOther ==
  \E nested \in SUBSET Runs : Says("other", NoRun, nested, 0) /\ UNCHANGED <<proj, stale>>

WritesRunEvent ==
  \E r \in Runs, t \in RunTypes, nested \in SUBSET Runs, by \in Nat :
    AppendRunEvent(t, r, nested, by)

LEMMA NextWrites ==
  ASSUME TypeOK, [Next]_vars
  PROVE  WritesNothing \/ WritesOther \/ WritesRunEvent \/ RebuildProjection
<1> DEFINE Writes == WritesNothing \/ WritesOther \/ WritesRunEvent \/ RebuildProjection
<1>1. ASSUME Call PROVE Writes
  <2>1. CASE ValidateOperationEnvelope
    <3>1. {} \in SUBSET Runs /\ Says("other", NoRun, {}, 0) /\ UNCHANGED <<proj, stale>>
      BY <2>1 DEF ValidateOperationEnvelope, Says, RunEvent
    <3> QED
      BY <3>1 DEF WritesOther
  <2>2. ASSUME NEW nested \in Payloads, OtherEvent(nested) PROVE Writes
    BY <2>2, PayloadsTyped DEF OtherEvent, WritesOther, Says, RunEvent
  <2>3. ASSUME NEW r \in Runs, CreateRun(r) PROVE Writes
    BY <2>3 DEF CreateRun, AppendFails, WritesNothing, WritesRunEvent, RunTypes
  <2>4. ASSUME NEW r \in Runs, NEW t \in RunTypes, NEW nested \in Payloads,
               AppendLifecycleEvent(r, t, nested)
        PROVE  Writes
    BY <2>4, PayloadsTyped
    DEF AppendLifecycleEvent, AppendFails, WritesNothing, WritesRunEvent
  <2>5. ASSUME NEW r, NEW kind, RunOnce(r, kind) PROVE Writes
    BY <2>5 DEF RunOnce, WritesNothing
  <2> HIDE DEF Writes
  <2> QED
    BY <1>1, <2>1, <2>2, <2>3, <2>4, <2>5 DEF Call
<1>2. ASSUME AdapterStep PROVE Writes
  <2>1. ASSUME NEW step \in {"start", "work", "complete"}, At(step), NEW t \in RunTypes,
               NEW nested \in SUBSET Runs, AppendRunEvent(t, Top.run, nested, depth)
        PROVE  Writes
    <3>1. Top.run \in Runs /\ depth \in Nat
      BY <2>1, TopTyped DEF TypeOK
    <3> QED
      BY <2>1, <3>1 DEF WritesRunEvent
  <2>2. CASE InvalidContext \/ WorkFails
    BY <2>2 DEF InvalidContext, WorkFails, WritesNothing
  <2>3. CASE StartRunning
    <3>1. CASE AppendRunEvent("state_running", Top.run, {}, depth)
      BY <2>1, <2>3, <3>1 DEF StartRunning, RunTypes
    <3> QED
      BY <2>3, <3>1 DEF StartRunning, AppendFails, WritesNothing
  <2>4. CASE RecordArtifact
    <3>1. ASSUME NEW nested \in Nested(Top.kind),
                 AppendRunEvent("artifact_written", Top.run, nested, depth)
          PROVE  Writes
      <4>1. At("work")
        BY <2>4 DEF RecordArtifact
      <4> QED
        BY <2>1, <3>1, <4>1, NestedTyped DEF RunTypes
    <3>2. CASE UNCHANGED <<ledger, proj, stale>>
      BY <3>2 DEF WritesNothing
    <3> HIDE DEF Writes
    <3> QED
      BY <2>4, <3>1, <3>2 DEF RecordArtifact, AppendFails
  <2>5. CASE Complete
    <3>1. CASE AppendRunEvent("state_completed", Top.run, {}, depth)
      BY <2>1, <2>5, <3>1 DEF Complete, RunTypes
    <3> QED
      BY <2>5, <3>1 DEF Complete, AppendFails, WritesNothing
  <2> HIDE DEF Writes
  <2> QED
    BY <1>2, <2>2, <2>3, <2>4, <2>5 DEF AdapterStep
<1>3. CASE Crash \/ UNCHANGED vars
  BY <1>3 DEF Crash, vars, WritesNothing
<1> QED
  BY <1>1, <1>2, <1>3 DEF Next

LEMMA ProjectionNext == TypeOK /\ ProjectionIsRebuild /\ [Next]_vars => ProjectionIsRebuild'
<1> SUFFICES ASSUME TypeOK, ProjectionIsRebuild, [Next]_vars, ~stale', NEW x \in Runs
             PROVE  proj'[x] = ExpectedRow(x)'
  BY DEF ProjectionIsRebuild
<1>1. ledger \in Seq(Event) /\ proj \in [Runs -> [state : RunTypes \union {"NONE"}, event : Nat]]
  BY DEF TypeOK
<1>2. ~stale => proj[x] = ExpectedRow(x)
  BY DEF ProjectionIsRebuild
<1>3. CASE WritesNothing
  BY <1>2, <1>3 DEF WritesNothing, ExpectedRow
<1>4. CASE WritesOther
  <2>1. PICK nested \in SUBSET Runs : Says("other", NoRun, nested, 0) /\ UNCHANGED <<proj, stale>>
    BY <1>4 DEF WritesOther
  <2>2. PICK e \in Event : ledger' = Append(ledger, e) /\ e.run = NoRun
    <3> DEFINE e == RunEvent("other", NoRun, nested, 0)
    <3>1. e \in Event /\ ledger' = Append(ledger, e) /\ e.run = NoRun
      BY <2>1, EventTyped DEF Says, RunEvent
    <3> QED
      BY <3>1
  <2>3. e.run # x
    BY <2>2, NoRunAssumption
  <2> QED
    BY <1>1, <1>2, <2>1, <2>2, <2>3, AppendedState DEF ExpectedRow
<1>5. CASE WritesRunEvent
  <2>1. PICK r \in Runs, t \in RunTypes, nested \in SUBSET Runs, by \in Nat :
          AppendRunEvent(t, r, nested, by)
    BY <1>5 DEF WritesRunEvent
  <2>2. /\ proj' = [proj EXCEPT ![r] = [state |-> t, event |-> Len(ledger) + 1]]
        /\ ~stale
    BY <2>1 DEF AppendRunEvent, UpdateProjection
  <2> DEFINE e == RunEvent(t, r, nested, by)
  <2>3. e \in Event /\ ledger' = Append(ledger, e) /\ e.run = r /\ e.type = t
    BY <2>1, EventTyped DEF AppendRunEvent, RunEvent
  <2> HIDE DEF e
  <2>4. CASE x = r
    BY <1>1, <2>2, <2>3, <2>4, AppendedState DEF ExpectedRow
  <2>5. CASE x # r
    BY <1>1, <1>2, <2>2, <2>3, <2>5, AppendedState DEF ExpectedRow
  <2> QED
    BY <2>4, <2>5
<1>6. CASE RebuildProjection
  BY <1>6 DEF RebuildProjection, ExpectedRow
<1> QED
  BY <1>3, <1>4, <1>5, <1>6, NextWrites

(* A projection that missed no write agrees with get_run_state about every *)
(* run that nobody else's data mention.                                    *)
THEOREM ProjectionIsFaithful == Spec => []ProjectionIsState
<1>1. Init => ProjectionIsRebuild
  BY DEF Init, ProjectionIsRebuild, ExpectedRow, RowsOf
<1>2. ASSUME ProjectionIsRebuild, ~stale, NEW r \in Runs, Unmentioned(r)
      PROVE  proj[r].state = RunState(ledger, r)
  <2>1. proj[r] = ExpectedRow(r) /\ RunState(ledger, r) = RunStateById(ledger, r)
    BY <1>2 DEF ProjectionIsRebuild, Unmentioned, RunState, RunStateById
  <2>2. CASE RowsOf(ledger, r) = {}
    BY <2>1, <2>2 DEF ExpectedRow, NoRow, RunStateById, RunStateAmong
  <2>3. CASE RowsOf(ledger, r) # {}
    BY <2>1, <2>3 DEF ExpectedRow
  <2> QED
    BY <2>2, <2>3
<1>3. ProjectionIsRebuild => ProjectionIsState
  BY <1>2 DEF ProjectionIsState
<1> QED
  BY <1>1, <1>3, ProjectionNext, TypeCorrect, PTL DEF Spec

---------------------------------------------------------------------------
(* What an adapter reports.                                                *)

Shifted(L, d, f) ==
  \E k \in f.began + 1 .. Len(L) : Mentions(L[k], f.run) /\ L[k].by # d

(* Where a call stands its run stands, unless somebody else moved it.      *)
StandsIn(L, d, f) ==
  f.pc # "idle" =>
    /\ f.began <= Len(L)
    /\ ~Shifted(L, d, f) =>
         /\ f.pc = "work" => RunState(L, f.run) = "state_running"
         /\ f.pc = "complete" => RunState(L, f.run) = "artifact_written"

CallsStand == \A d \in 1 .. MaxDepth : StandsIn(ledger, d, frame[d])

LEMMA FrameTyped ==
  ASSUME TypeOK, NEW d \in 1 .. MaxDepth
  PROVE  frame[d].pc # "idle" => frame[d] \in Frame /\ frame[d].began \in Nat
<1>1. frame[d] \in Frame \union {Idle}
  BY DEF TypeOK
<1>2. Idle.pc = "idle" /\ \A f \in Frame : f.began \in Nat
  BY DEF Idle, Frame
<1> QED
  BY <1>1, <1>2

(* What moved a run before an event was appended still did.                *)
LEMMA ShiftedStays ==
  ASSUME ledger \in Seq(Event), NEW e \in Event, ledger' = Append(ledger, e),
         NEW d, NEW f \in Frame, f.began <= Len(ledger), ~Shifted(ledger', d, f)
  PROVE  /\ ~Shifted(ledger, d, f)
         /\ f.began <= Len(ledger')
         /\ ~(Mentions(e, f.run) /\ e.by # d)
<1> DEFINE n == Len(ledger)
<1>1. /\ n \in Nat /\ DOMAIN ledger = 1 .. n /\ Len(ledger') = n + 1
      /\ ledger'[n + 1] = e /\ \A k \in 1 .. n : ledger'[k] = ledger[k]
  BY AppendedLedger
<1>2. f.began \in Nat /\ f.began <= n
  BY DEF Frame
<1>3. \A k \in f.began + 1 .. n + 1 : ~(Mentions(ledger'[k], f.run) /\ ledger'[k].by # d)
  BY <1>1 DEF Shifted
<1> HIDE DEF n
<1>4. \A k \in f.began + 1 .. n : k \in 1 .. n /\ k \in f.began + 1 .. n + 1
  BY <1>1, <1>2
<1>5. n + 1 \in f.began + 1 .. n + 1 /\ f.began <= n + 1
  BY <1>1, <1>2
<1>6. \A k \in f.began + 1 .. n : ~(Mentions(ledger[k], f.run) /\ ledger[k].by # d)
  BY <1>1, <1>3, <1>4
<1> QED
  BY <1>1, <1>3, <1>5, <1>6 DEF Shifted, n

(* An event of another call leaves a call standing.                        *)
LEMMA StandsAside ==
  ASSUME TypeOK, NEW d \in 1 .. MaxDepth, StandsIn(ledger, d, frame[d]),
         NEW e \in Event, ledger' = Append(ledger, e), e.by # d
  PROVE  StandsIn(ledger', d, frame[d])
<1> DEFINE f == frame[d]
<1>1. ledger \in Seq(Event) /\ (f.pc # "idle" => f \in Frame)
  BY FrameTyped DEF TypeOK
<1>2. StandsIn(ledger, d, f)
  OBVIOUS
<1> HIDE DEF f
<1>3. SUFFICES ASSUME f.pc # "idle" PROVE StandsIn(ledger', d, f)
  BY DEF f, StandsIn
<1>4. f \in Frame /\ f.began <= Len(ledger) /\ f.began <= Len(ledger')
  BY <1>1, <1>2, <1>3, AppendedLedger DEF StandsIn, Frame
<1>5. ASSUME ~Shifted(ledger', d, f)
      PROVE  RunState(ledger', f.run) = RunState(ledger, f.run) /\ ~Shifted(ledger, d, f)
  BY <1>1, <1>4, <1>5, ShiftedStays, AppendedState
<1> QED
  BY <1>2, <1>3, <1>4, <1>5 DEF StandsIn

(* A call that appends about its own run stands where that event puts it.  *)
LEMMA StandsWhereItPut ==
  ASSUME TypeOK, NEW f \in Frame, f.began <= Len(ledger),
         NEW e \in Event, ledger' = Append(ledger, e), e.run = f.run,
         NEW d, NEW g, g.began = f.began, g.run = f.run,
         \/ g.pc = "work" /\ e.type = "state_running"
         \/ g.pc = "complete" /\ e.type = "artifact_written"
  PROVE  StandsIn(ledger', d, g)
<1>1. ledger \in Seq(Event)
  BY DEF TypeOK
<1>2. f.began <= Len(ledger')
  BY <1>1, AppendedLedger DEF Frame
<1>3. RunState(ledger', f.run) = e.type
  BY <1>1, AppendedState DEF Mentions
<1> QED
  BY <1>2, <1>3 DEF StandsIn

---------------------------------------------------------------------------
(* What a step does to the calls.                                          *)

Quiet ==
  /\ UNCHANGED ledger
  /\ \A d \in 1 .. MaxDepth :
       \/ frame'[d] = frame[d] \/ frame'[d] = Idle
       \/ frame'[d].pc = "start" /\ frame'[d].began = Len(ledger)

Outside ==
  \E e \in Event : ledger' = Append(ledger, e) /\ e.by = 0 /\ UNCHANGED frame

Works(d, e) ==
  /\ frame[d].pc # "idle"
  /\ ledger' = Append(ledger, e)
  /\ e.by = d /\ e.run = frame[d].run
  /\ \A c \in 1 .. MaxDepth \ {d} : frame'[c] = frame[c]
  /\ \/ frame'[d] = Idle
     \/ e.type = "state_running" /\ frame'[d] = [frame[d] EXCEPT !.pc = "work"]
     \/ e.type = "artifact_written" /\ frame'[d] = [frame[d] EXCEPT !.pc = "complete"]

Inside == \E d \in 1 .. MaxDepth, e \in Event : Works(d, e)

LEMMA CallFrames == ASSUME TypeOK, Call PROVE Quiet \/ Outside
<1>1. ASSUME NEW r \in Runs \union {NoRun}, NEW t, NEW nested \in SUBSET Runs,
             RunEvent(t, r, nested, 0) \in Event,
             ledger' = Append(ledger, RunEvent(t, r, nested, 0)), UNCHANGED Calls
      PROVE  Outside
  <2>1. RunEvent(t, r, nested, 0).by = 0
    BY DEF RunEvent
  <2> QED
    BY <1>1, <2>1 DEF Outside, Calls
<1>2. {} \in SUBSET Runs /\ 0 \in Nat
  OBVIOUS
<1>3. ASSUME UNCHANGED ledger, UNCHANGED Calls PROVE Quiet
  BY <1>3 DEF Quiet, Calls
<1>4. CASE ValidateOperationEnvelope
  BY <1>1, <1>2, <1>4, EventTyped DEF ValidateOperationEnvelope, RunEvent
<1>5. ASSUME NEW nested \in Payloads, OtherEvent(nested) PROVE Outside
  BY <1>1, <1>5, EventTyped, PayloadsTyped DEF OtherEvent, RunEvent
<1>6. ASSUME NEW r \in Runs, CreateRun(r) PROVE Quiet \/ Outside
  <2>1. RunEvent("run_created", r, {}, 0) \in Event
    BY <1>2, EventTyped DEF RunTypes
  <2> QED
    BY <1>1, <1>2, <1>3, <1>6, <2>1 DEF CreateRun, AppendRunEvent, AppendFails, RunEvent
<1>7. ASSUME NEW r \in Runs, NEW t \in RunTypes, NEW nested \in Payloads,
             AppendLifecycleEvent(r, t, nested)
      PROVE  Quiet \/ Outside
  <2>1. RunEvent(t, r, nested, 0) \in Event /\ nested \in SUBSET Runs
    BY <1>2, EventTyped, PayloadsTyped
  <2> QED
    BY <1>1, <1>3, <1>7, <2>1 DEF AppendLifecycleEvent, AppendRunEvent, AppendFails, RunEvent
<1>8. ASSUME NEW r \in Runs, NEW kind \in Kinds, RunOnce(r, kind) PROVE Quiet
  <2> DEFINE new == [pc |-> "start", run |-> r, kind |-> kind, began |-> Len(ledger)]
  <2>1. UNCHANGED ledger /\ frame' = [frame EXCEPT ![depth + 1] = new]
    BY <1>8 DEF RunOnce
  <2>2. new.pc = "start" /\ new.began = Len(ledger)
    OBVIOUS
  <2> HIDE DEF new
  <2> QED
    BY <2>1, <2>2 DEF Quiet, TypeOK
<1> QED
  BY <1>4, <1>5, <1>6, <1>7, <1>8 DEF Call

LEMMA AdapterFrames == ASSUME TypeOK, AdapterStep PROVE Quiet \/ Inside
<1>1. ASSUME NEW outcome, NEW state, Return(outcome, state), UNCHANGED ledger PROVE Quiet
  BY <1>1 DEF Return, Quiet, TypeOK
<1>2. ASSUME NEW step \in {"start", "work", "complete"}, At(step), NEW t \in RunTypes,
             NEW nested \in SUBSET Runs,
             AppendRunEvent(t, Top.run, nested, depth),
             \/ \E outcome, state : Return(outcome, state)
             \/ t = "state_running" /\ Goto("work")
             \/ t = "artifact_written" /\ Goto("complete")
      PROVE  Inside
  <2> DEFINE e == RunEvent(t, Top.run, nested, depth)
  <2>1. /\ depth \in 1 .. MaxDepth /\ Top = frame[depth] /\ Top.run \in Runs
        /\ frame[depth].pc # "idle" /\ depth \in Nat
    BY <1>2, TopTyped DEF TypeOK, Frame
  <2>2. e \in Event
    BY <2>1, EventTyped
  <2>3. e.by = depth /\ e.run = frame[depth].run /\ e.type = t /\ ledger' = Append(ledger, e)
    BY <1>2, <2>1 DEF AppendRunEvent, RunEvent
  <2> HIDE DEF e
  <2>4. /\ \A c \in 1 .. MaxDepth \ {depth} : frame'[c] = frame[c]
        /\ \/ frame'[depth] = Idle
           \/ t = "state_running" /\ frame'[depth] = [frame[depth] EXCEPT !.pc = "work"]
           \/ t = "artifact_written" /\ frame'[depth] = [frame[depth] EXCEPT !.pc = "complete"]
    BY <1>2, <2>1 DEF Return, Goto, TypeOK
  <2>5. Works(depth, e)
    BY <2>1, <2>3, <2>4 DEF Works
  <2> QED
    BY <2>1, <2>2, <2>5 DEF Inside
<1>3. "state_running" \in RunTypes /\ "artifact_written" \in RunTypes
      /\ "state_completed" \in RunTypes /\ {} \in SUBSET Runs
  BY DEF RunTypes
<1>4. CASE InvalidContext
  BY <1>1, <1>4 DEF InvalidContext
<1>5. CASE WorkFails
  BY <1>1, <1>5 DEF WorkFails, Raise
<1>6. CASE StartRunning
  <2>1. CASE AppendRunEvent("state_running", Top.run, {}, depth) /\ Goto("work")
    BY <1>2, <1>3, <1>6, <2>1 DEF StartRunning
  <2>2. CASE UNCHANGED ledger /\ Return("failed", Reported(Top.run))
    BY <1>1, <2>2
  <2> QED
    BY <1>6, <2>1, <2>2 DEF StartRunning, AppendFails
<1>7. CASE RecordArtifact
  <2>1. ASSUME NEW nested \in Nested(Top.kind),
               AppendRunEvent("artifact_written", Top.run, nested, depth), Goto("complete")
        PROVE  Inside
    BY <1>2, <1>3, <1>7, <2>1, NestedTyped DEF RecordArtifact
  <2>2. CASE UNCHANGED ledger /\ Return("failed", "state_running")
    BY <1>1, <2>2
  <2> QED
    BY <1>7, <2>1, <2>2 DEF RecordArtifact, AppendFails
<1>8. CASE Complete
  <2>1. CASE AppendRunEvent("state_completed", Top.run, {}, depth)
             /\ Return("completed", "state_completed")
    BY <1>2, <1>3, <1>8, <2>1 DEF Complete
  <2>2. CASE UNCHANGED ledger /\ Return("failed", "artifact_written")
    BY <1>1, <2>2
  <2> QED
    BY <1>8, <2>1, <2>2 DEF Complete, AppendFails
<1> QED
  BY <1>4, <1>5, <1>6, <1>7, <1>8 DEF AdapterStep

LEMMA StandNext == TypeOK /\ CallsStand /\ [Next]_vars => CallsStand'
<1> SUFFICES ASSUME TypeOK, CallsStand, [Next]_vars, NEW d \in 1 .. MaxDepth
             PROVE  StandsIn(ledger', d, frame'[d])
  BY DEF CallsStand
<1>1. StandsIn(ledger, d, frame[d]) /\ ledger \in Seq(Event) /\ d \in Nat /\ d # 0
  BY BoundsAssumption DEF CallsStand, TypeOK
<1>2. Quiet \/ Outside \/ Inside
  <2>1. CASE Crash \/ RebuildProjection \/ UNCHANGED vars
    BY <2>1 DEF Crash, RebuildProjection, vars, Calls, Quiet
  <2> QED
    BY <2>1, CallFrames, AdapterFrames DEF Next
<1>3. CASE Quiet
  <2>1. frame'[d] = Idle => StandsIn(ledger', d, frame'[d])
    BY DEF StandsIn, Idle
  <2>2. ASSUME frame'[d].pc = "start", frame'[d].began = Len(ledger)
        PROVE  StandsIn(ledger', d, frame'[d])
    BY <1>1, <1>3, <2>2, LedgerTyped DEF StandsIn, Quiet
  <2> QED
    BY <1>1, <1>3, <2>1, <2>2 DEF Quiet
<1>4. CASE Outside
  BY <1>1, <1>4, StandsAside DEF Outside
<1>5. CASE Inside
  <2>1. PICK c \in 1 .. MaxDepth, e \in Event : Works(c, e)
    BY <1>5 DEF Inside
  <2>2. CASE c # d
    <3>1. frame'[d] = frame[d] /\ e.by # d /\ ledger' = Append(ledger, e)
      BY <2>1, <2>2 DEF Works
    <3> QED
      BY <1>1, <3>1, StandsAside
  <2>3. CASE c = d /\ frame'[d] = Idle
    BY <2>3 DEF StandsIn, Idle
  <2>4. CASE c = d /\ frame'[d] # Idle
    <3>1. frame[d].pc # "idle" /\ ledger' = Append(ledger, e) /\ e.run = frame[d].run
      BY <2>1, <2>4 DEF Works
    <3>2. /\ frame'[d].began = frame[d].began /\ frame'[d].run = frame[d].run
          /\ \/ frame'[d].pc = "work" /\ e.type = "state_running"
             \/ frame'[d].pc = "complete" /\ e.type = "artifact_written"
      <4>1. ASSUME NEW step, NEW g, g = [frame[d] EXCEPT !.pc = step]
            PROVE  g.began = frame[d].began /\ g.run = frame[d].run /\ g.pc = step
        <5>1. frame[d] \in Frame
          BY <3>1, FrameTyped
        <5> QED
          BY <4>1, <5>1 DEF Frame
      <4>2. CASE e.type = "state_running" /\ frame'[d] = [frame[d] EXCEPT !.pc = "work"]
        BY <4>1, <4>2
      <4>3. CASE e.type = "artifact_written" /\ frame'[d] = [frame[d] EXCEPT !.pc = "complete"]
        BY <4>1, <4>3
      <4> QED
        BY <2>1, <2>4, <4>2, <4>3 DEF Works
    <3>3. frame[d] \in Frame /\ frame[d].began <= Len(ledger)
      BY <1>1, <3>1, FrameTyped DEF StandsIn
    <3> QED
      BY <3>1, <3>2, <3>3, StandsWhereItPut
  <2> QED
    BY <2>1, <2>2, <2>3, <2>4
<1> QED
  BY <1>2, <1>3, <1>4, <1>5

Honest ==
  depth' = depth - 1 /\ last' # NoResult /\ ~Moved(Top)
    => last'.state \in {"unknown", RunState(ledger', Top.run)}

LEMMA ReportIsHonest == ASSUME TypeOK, CallsStand, [Next]_vars PROVE Honest
<1> SUFFICES ASSUME depth' = depth - 1, last' # NoResult, ~Moved(Top)
             PROVE  last'.state \in {"unknown", RunState(ledger', Top.run)}
  BY DEF Honest
<1>1. depth \in Nat /\ depth' # depth /\ depth' # depth + 1 /\ ledger \in Seq(Event)
  BY DEF TypeOK
<1>2. AdapterStep
  <2>1. ~Crash
    BY DEF Crash
  <2>2. UNCHANGED depth \/ depth' = depth + 1 \/ AdapterStep
    <3>1. CASE Call
      BY <3>1 DEF Call, ValidateOperationEnvelope, OtherEvent, CreateRun, AppendLifecycleEvent,
                  RunOnce, Calls
    <3>2. CASE RebuildProjection \/ UNCHANGED vars
      BY <3>2 DEF RebuildProjection, vars, Calls
    <3> QED
      BY <2>1, <3>1, <3>2 DEF Next
  <2> QED
    BY <1>1, <2>2
<1>3. ASSUME NEW step \in {"work", "complete"}, At(step)
      PROVE  /\ step = "work" => RunState(ledger, Top.run) = "state_running"
             /\ step = "complete" => RunState(ledger, Top.run) = "artifact_written"
  <2>1. depth \in 1 .. MaxDepth /\ Top = frame[depth] /\ Top.pc = step
    BY <1>3, TopTyped DEF At
  <2>2. StandsIn(ledger, depth, Top) /\ ~Shifted(ledger, depth, Top)
    BY <2>1 DEF CallsStand, Moved, Shifted
  <2> QED
    BY <2>1, <2>2 DEF StandsIn
<1>4. ASSUME NEW outcome, NEW state, Return(outcome, state) PROVE last'.state = state
  BY <1>4 DEF Return
<1>5. CASE InvalidContext
  BY <1>4, <1>5 DEF InvalidContext
<1>6. CASE StartRunning
  <2>1. UNCHANGED ledger /\ Return("failed", Reported(Top.run))
    BY <1>1, <1>6 DEF StartRunning, AppendFails, Goto
  <2> QED
    BY <1>4, <2>1 DEF Reported
<1>7. CASE WorkFails
  <2>1. UNCHANGED ledger /\ (Return("failed", "state_running") \/ Return("raised", "unknown"))
    BY <1>7 DEF WorkFails, Raise
  <2>2. RunState(ledger, Top.run) = "state_running"
    BY <1>3, <1>7 DEF WorkFails
  <2> QED
    BY <1>4, <2>1, <2>2
<1>8. CASE RecordArtifact
  <2>1. UNCHANGED ledger /\ Return("failed", "state_running")
    BY <1>1, <1>8 DEF RecordArtifact, AppendFails, Goto
  <2>2. RunState(ledger, Top.run) = "state_running"
    BY <1>3, <1>8 DEF RecordArtifact
  <2> QED
    BY <1>4, <2>1, <2>2
<1>9. CASE Complete
  <2>1. CASE UNCHANGED ledger /\ Return("failed", "artifact_written")
    <3>1. RunState(ledger, Top.run) = "artifact_written"
      BY <1>3, <1>9 DEF Complete
    <3> QED
      BY <1>4, <2>1, <3>1
  <2>2. CASE AppendRunEvent("state_completed", Top.run, {}, depth)
             /\ Return("completed", "state_completed")
    <3> DEFINE e == RunEvent("state_completed", Top.run, {}, depth)
    <3>1. Top.run \in Runs /\ {} \in SUBSET Runs /\ "state_completed" \in RunTypes
      BY <1>9, TopTyped DEF Complete, RunTypes
    <3>2. e \in Event
      BY <1>1, <3>1, EventTyped
    <3>3. e.run = Top.run /\ e.type = "state_completed" /\ ledger' = Append(ledger, e)
      BY <2>2 DEF AppendRunEvent, RunEvent
    <3> HIDE DEF e
    <3>4. RunState(ledger', Top.run) = "state_completed"
      BY <1>1, <3>2, <3>3, AppendedState DEF Mentions
    <3> QED
      BY <1>4, <2>2, <3>4
  <2> QED
    BY <1>9, <2>1, <2>2 DEF Complete, AppendFails
<1> QED
  BY <1>2, <1>5, <1>6, <1>7, <1>8, <1>9 DEF AdapterStep

(* The state an adapter reports is the state the ledger has, unless        *)
(* somebody else moved its run while the call was in progress.             *)
THEOREM ReportsAreHonest == Spec => HonestReport
<1>1. Init => CallsStand
  BY DEF Init, CallsStand, StandsIn, Idle
<1>2. TypeOK /\ CallsStand /\ [Next]_vars => [Honest]_vars
  BY ReportIsHonest
<1> QED
  BY <1>1, <1>2, StandNext, TypeCorrect, PTL DEF Spec, HonestReport, Honest

===========================================================================
