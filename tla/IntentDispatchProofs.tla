----------------------- MODULE IntentDispatchProofs -----------------------
(***************************************************************************)
(* Theorems about IntentDispatch, for any number of intents, owners,       *)
(* events, nested dispatches and faults: the types of its state, and what  *)
(* a ledger says about an intent.                                          *)
(*                                                                         *)
(* The theorems about histories hold where no payload carries the id of    *)
(* another intent under the key "intent_id" (NestedIds = FALSE):           *)
(* get_intent_status selects rows by LIKE, so that such a payload is read  *)
(* as history of the other intent, and the run dispatch_nested_ids shows   *)
(* an intent executed twice.                                               *)
(***************************************************************************)
EXTENDS IntentDispatch, SequenceTheorems, WellFoundedInduction, TLAPS

---------------------------------------------------------------------------
(* FirstOf and LastOf find what they are named for.                        *)

LEMMA LeastPosition ==
  ASSUME NEW S \in SUBSET Nat, S # {}
  PROVE  \E k \in S : \A m \in S : k <= m
<1>1. PICK k \in S : \A m \in S : <<m, k>> \notin OpToRel(<, Nat)
  BY WFMin, NatLessThanWellFounded
<1>2. \A m \in S : ~(m < k)
  BY <1>1 DEF OpToRel
<1> QED
  BY <1>2

LEMMA FirstOfIsLeast ==
  ASSUME NEW S \in SUBSET Nat, S # {}
  PROVE  FirstOf(S) \in S /\ \A m \in S : FirstOf(S) <= m
BY LeastPosition DEF FirstOf

(* The greatest position is the least distance from the end.               *)
LEMMA LastOfIsGreatest ==
  ASSUME NEW n \in Nat, NEW S \in SUBSET (1 .. n), S # {}
  PROVE  LastOf(S) \in S /\ \A m \in S : m <= LastOf(S)
<1> DEFINE T == {n - k : k \in S}
<1>1. T \in SUBSET Nat /\ T # {}
  <2>1. \A k \in S : n - k \in Nat
    OBVIOUS
  <2>2. PICK k \in S : TRUE
    OBVIOUS
  <2> QED
    BY <2>1, <2>2
<1>2. PICK d \in T : \A e \in T : d <= e
  <2> HIDE DEF T
  <2> QED
    BY <1>1, LeastPosition
<1>3. PICK k \in S : d = n - k
  BY <1>2
<1>4. \A m \in S : m <= k
  <2> TAKE m \in S
  <2>1. d <= n - m
    BY <1>2
  <2> QED
    BY <1>3, <2>1
<1> QED
  BY <1>4 DEF LastOf

---------------------------------------------------------------------------
(* Type correctness.                                                       *)

LEMMA LedgerTyped ==
  ASSUME TypeOK
  PROVE  /\ Len(ledger) \in Nat
         /\ DOMAIN ledger = 1 .. Len(ledger)
         /\ \A k \in 1 .. Len(ledger) : ledger[k] \in Event
BY LenProperties, ElementOfSeq DEF TypeOK

LEMMA EventFields ==
  ASSUME NEW e \in Event
  PROVE  /\ e.type \in IntentTypes \union RunTypes \union OtherTypes
         /\ e.intent \in Intents \union {NoIntent}
         /\ e.nested \in SUBSET Intents
         /\ e.run \in Nat
         /\ e.claim \in Nat
         /\ e.owner \in Owners \union {NoOwner}
BY DEF Event

LEMMA StatusTyped ==
  ASSUME NEW t \in IntentTypes
  PROVE  StatusByType[t] \in {"PENDING", "REJECTED", "RUNNING", "COMPLETED", "FAILED"}
BY DEF StatusByType, IntentTypes

LEMMA EventsTyped ==
  ASSUME NEW t \in IntentTypes \union RunTypes \union OtherTypes,
         NEW i \in Intents \union {NoIntent}
  PROVE  /\ IntentEvent(t, i) \in Event
         /\ \A s \in SUBSET Intents : SubmitEvent(t, i, s) \in Event
         /\ \A r \in Nat : RunEvent(t, i, r) \in Event
         /\ \A c \in Nat, o \in Owners \union {NoOwner} : ClaimEvent(t, i, c, o) \in Event
<1> DEFINE e == IntentEvent(t, i)
<1>1. e \in Event
  BY DEF IntentEvent, Event, NoId
<1>2. /\ \A s \in SUBSET Intents : [e EXCEPT !.nested = s] \in Event
      /\ \A r \in Nat : [e EXCEPT !.run = r] \in Event
      /\ \A c \in Nat, o \in Owners \union {NoOwner} :
           [e EXCEPT !.claim = c, !.owner = o] \in Event
  <2> HIDE DEF e
  <2> QED
    BY <1>1 DEF Event
<1> QED
  BY <1>1, <1>2 DEF SubmitEvent, RunEvent, ClaimEvent

(* What the events of each kind say, field by field.                       *)
LEMMA IntentEventSays ==
  ASSUME NEW t, NEW i
  PROVE  LET e == IntentEvent(t, i)
         IN  /\ e.type = t /\ e.intent = i /\ e.nested = {}
             /\ e.run = NoId /\ e.claim = NoId /\ e.owner = NoOwner
BY DEF IntentEvent

LEMMA SubmitEventSays ==
  ASSUME NEW t, NEW i, NEW s
  PROVE  LET e == SubmitEvent(t, i, s)
         IN  e.type = t /\ e.intent = i /\ e.nested = s
BY DEF IntentEvent, SubmitEvent

LEMMA RunEventSays ==
  ASSUME NEW t, NEW i, NEW r
  PROVE  LET e == RunEvent(t, i, r)
         IN  e.type = t /\ e.intent = i /\ e.nested = {} /\ e.run = r
BY DEF IntentEvent, RunEvent

LEMMA ClaimEventSays ==
  ASSUME NEW t, NEW i, NEW c, NEW o
  PROVE  LET e == ClaimEvent(t, i, c, o)
         IN  /\ e.type = t /\ e.intent = i /\ e.nested = {}
             /\ e.claim = c /\ e.owner = o
BY DEF IntentEvent, ClaimEvent

(* The top frame: nothing when no call is in progress.                     *)
LEMMA TopTyped ==
  ASSUME TypeOK
  PROVE  /\ Top \in Frame
         /\ \A step \in Steps \ {"idle"} : At(step) => depth \in 1 .. MaxDepth /\ Top = frame[depth]
<1>1. Idle \in Frame
  BY DEF Idle, Frame, Steps, NoId
<1> QED
  BY <1>1, MaxDepthAssumption DEF TypeOK, Top, At, Idle

LEMMA FrameFields ==
  ASSUME NEW f \in Frame
  PROVE  /\ f.pc \in Steps
         /\ f.intent \in Intents \union {NoIntent}
         /\ f.named \in BOOLEAN
         /\ f.owner \in Owners \union {NoOwner}
         /\ f.claim \in Nat
         /\ f.capture \in BOOLEAN
         /\ f.run \in Nat
BY DEF Frame

(* TypeOK in two parts: the database with the fault counter, and the calls.*)
DbOK ==
  /\ ledger \in Seq(Event)
  /\ inbox \in [Intents -> {"NONE", "PENDING", "REJECTED"}]
  /\ intentProj \in [Intents -> [status : {"NONE", "PENDING", "RUNNING", "REJECTED",
                                          "COMPLETED", "FAILED"}, event : Nat]]
  /\ claimProj \in [Intents -> [claim : Nat, owner : Owners \union {NoOwner}]]
  /\ \A row \in runProj : row \in [run : Nat, state : RunTypes, event : Nat]
  /\ stale \subseteq Tables
  /\ faults \in 0 .. MaxFaults

CallsOK == frame \in [1 .. MaxDepth -> Frame] /\ depth \in 0 .. MaxDepth

LEMMA TypeParts ==
  TypeOK <=> DbOK /\ CallsOK /\ invocations \in [Intents -> Nat]
BY DEF TypeOK, DbOK, CallsOK

LEMMA TypePartsNext ==
  ASSUME DbOK', CallsOK', (invocations \in [Intents -> Nat])'
  PROVE  TypeOK'
BY DEF TypeOK, DbOK, CallsOK

LEMMA FaultTyped ==
  ASSUME DbOK, Fault \/ NoFault
  PROVE  faults' \in 0 .. MaxFaults
BY MaxFaultsAssumption DEF DbOK, Fault, NoFault

LEMMA AppendTyped ==
  ASSUME DbOK, NEW e \in Event, Append1(e)
  PROVE  ledger' \in Seq(Event) /\ Here \in Nat /\ Here # 0
BY DEF DbOK, Append1, Here

LEMMA AppendFailsTyped == ASSUME DbOK, AppendFails PROVE DbOK'
BY FaultTyped DEF DbOK, AppendFails, db

LEMMA NoChangeTyped == ASSUME DbOK, UNCHANGED <<db, faults>> PROVE DbOK'
BY DEF DbOK, db

LEMMA AppendIntentEventTyped ==
  ASSUME DbOK, NEW e \in Event, e.type \in IntentTypes, AppendIntentEvent(e)
  PROVE  DbOK'
<1>1. ledger' \in Seq(Event) /\ Here \in Nat
  BY AppendTyped DEF AppendIntentEvent
<1>2. faults' \in 0 .. MaxFaults /\ stale' \subseteq Tables
  BY FaultTyped DEF AppendIntentEvent, BestEffort, DbOK, Tables
<1>3. intentProj' \in [Intents -> [status : {"NONE", "PENDING", "RUNNING", "REJECTED",
                                          "COMPLETED", "FAILED"}, event : Nat]]
  <2> DEFINE row == [status |-> StatusByType[e.type], event |-> Here]
             Rows == [status : {"NONE", "PENDING", "RUNNING", "REJECTED",
                                "COMPLETED", "FAILED"}, event : Nat]
  <2>1. row \in Rows
    BY <1>1, StatusTyped
  <2>2. intentProj' = [intentProj EXCEPT ![e.intent] = row] \/ intentProj' = intentProj
    BY DEF AppendIntentEvent, BestEffort, UpsertIntentRow
  <2>3. intentProj \in [Intents -> Rows]
    BY DEF DbOK
  <2> HIDE DEF row, Rows
  <2>4. intentProj' \in [Intents -> Rows]
    BY <2>1, <2>2, <2>3
  <2> QED
    BY <2>4 DEF Rows
<1> QED
  BY <1>1, <1>2, <1>3 DEF AppendIntentEvent, DbOK

LEMMA AppendRunEventTyped ==
  ASSUME DbOK, NEW e \in Event, e.type \in RunTypes, AppendRunEvent(e)
  PROVE  DbOK'
<1>1. ledger' \in Seq(Event) /\ Here \in Nat
  BY AppendTyped DEF AppendRunEvent
<1>2. faults' \in 0 .. MaxFaults /\ stale' \subseteq Tables
  BY FaultTyped DEF AppendRunEvent, BestEffort, DbOK, Tables
<1>3. \A row \in runProj' : row \in [run : Nat, state : RunTypes, event : Nat]
  <2>1. [run |-> e.run, state |-> e.type, event |-> Here]
          \in [run : Nat, state : RunTypes, event : Nat]
    BY <1>1, EventFields
  <2>2. \A row \in runProj' :
          row = [run |-> e.run, state |-> e.type, event |-> Here] \/ row \in runProj
    BY DEF AppendRunEvent, BestEffort, UpsertRunRow
  <2> QED
    BY <2>1, <2>2 DEF DbOK
<1> QED
  BY <1>1, <1>2, <1>3 DEF AppendRunEvent, DbOK

LEMMA AppendNoteTyped ==
  ASSUME DbOK, NEW e \in Event, AppendNote(e)
  PROVE  DbOK'
<1>1. ledger' \in Seq(Event)
  BY AppendTyped DEF AppendNote
<1> QED
  BY <1>1 DEF AppendNote, DbOK, NoFault

LEMMA ClaimRowTyped ==
  ASSUME NEW c \in Nat, NEW o \in Owners \union {NoOwner}
  PROVE  [claim |-> c, owner |-> o] \in [claim : Nat, owner : Owners \union {NoOwner}]
OBVIOUS

LEMMA EstablishClaimTyped ==
  ASSUME DbOK, NEW i \in Intents, NEW o \in Owners \union {NoOwner}, EstablishClaim(i, o)
  PROVE  DbOK'
<1>1. Here \in Nat
  BY DEF Here, DbOK
<1>2. ClaimEvent("intent_claim_established", i, Here, o) \in Event
  BY <1>1, EventsTyped DEF OtherTypes
<1>3. ledger' \in Seq(Event)
  BY <1>2, AppendTyped DEF EstablishClaim
<1>4. faults' \in 0 .. MaxFaults /\ stale' \subseteq Tables
  BY FaultTyped DEF EstablishClaim, BestEffort, DbOK, Tables
<1>5. claimProj' \in [Intents -> [claim : Nat, owner : Owners \union {NoOwner}]]
  <2>1. [claim |-> Here, owner |-> o] \in [claim : Nat, owner : Owners \union {NoOwner}]
    BY <1>1
  <2>2. \/ claimProj' = [claimProj EXCEPT ![i] = [claim |-> Here, owner |-> o]]
        \/ claimProj' = claimProj
    BY DEF EstablishClaim, BestEffort
  <2> QED
    BY <2>1, <2>2 DEF DbOK
<1> QED
  BY <1>3, <1>4, <1>5 DEF EstablishClaim, DbOK

LEMMA ActiveClaimTyped ==
  ASSUME ledger \in Seq(Event), NEW i
  PROVE  /\ ActiveClaim(ledger, i) \in Nat
         /\ ActiveClaim(ledger, i) # NoId =>
              /\ ActiveClaim(ledger, i) \in ActiveClaims(ledger, i)
              /\ ActiveClaim(ledger, i) \in 1 .. Len(ledger)
<1>1. ActiveClaims(ledger, i) \in SUBSET (1 .. Len(ledger))
  BY LenProperties DEF ActiveClaims
<1>2. ActiveClaims(ledger, i) \in SUBSET Nat
  BY <1>1
<1> QED
  BY <1>1, <1>2, FirstOfIsLeast DEF ActiveClaim, NoId

LEMMA ReleaseClaimTyped ==
  ASSUME DbOK, NEW i \in Intents \union {NoIntent}, NEW o \in Owners \union {NoOwner},
         ReleaseClaim(i, o)
  PROVE  DbOK'
<1> DEFINE active == ActiveClaim(ledger, i)
<1>1. active \in Nat
  BY ActiveClaimTyped DEF DbOK
<1>2. \A t \in OtherTypes, c \in Nat : ClaimEvent(t, i, c, o) \in Event
  BY EventsTyped
<1>3. CASE Note(ClaimEvent("intent_release_rejected", i, IF o = NoOwner THEN NoId ELSE active, o))
  <2>1. ClaimEvent("intent_release_rejected", i, IF o = NoOwner THEN NoId ELSE active, o) \in Event
    BY <1>1, <1>2 DEF OtherTypes, NoId
  <2> QED
    BY <1>3, <2>1, AppendNoteTyped, AppendFailsTyped DEF Note
<1>4. CASE /\ Append1(ClaimEvent("intent_released", i, active, o))
           /\ BestEffort("claims", claimProj' = [claimProj EXCEPT ![i] = NoClaimRow],
                         UNCHANGED claimProj)
           /\ UNCHANGED <<inbox, intentProj, runProj>>
  <2>1. ClaimEvent("intent_released", i, active, o) \in Event
    BY <1>1, <1>2 DEF OtherTypes
  <2>2. ledger' \in Seq(Event)
    BY <1>4, <2>1, AppendTyped
  <2>3. faults' \in 0 .. MaxFaults /\ stale' \subseteq Tables
    BY <1>4, FaultTyped DEF BestEffort, DbOK, Tables
  <2>4. NoClaimRow \in [claim : Nat, owner : Owners \union {NoOwner}]
    BY DEF NoClaimRow, NoId
  <2>5. claimProj' \in [Intents -> [claim : Nat, owner : Owners \union {NoOwner}]]
    BY <1>4, <2>4 DEF BestEffort, DbOK
  <2> QED
    BY <1>4, <2>2, <2>3, <2>5 DEF DbOK
<1>5. CASE AppendFails
  BY <1>5, AppendFailsTyped
<1> QED
  BY <1>3, <1>4, <1>5 DEF ReleaseClaim

LEMMA RejectClaimTyped ==
  ASSUME DbOK, NEW i \in Intents, NEW o \in Owners \union {NoOwner}, RejectClaim(i, o)
  PROVE  DbOK'
<1>1. ClaimEvent("intent_claim_rejected", i, NoId, o) \in Event
  BY EventsTyped DEF OtherTypes, NoId
<1> QED
  BY <1>1, AppendNoteTyped, AppendFailsTyped DEF RejectClaim, Note

---------------------------------------------------------------------------
(* The calls in progress.                                                  *)

LEMMA IdleTyped == Idle \in Frame
BY DEF Idle, Frame, Steps, NoId

LEMMA CallsKept == ASSUME CallsOK, UNCHANGED calls PROVE CallsOK'
BY DEF CallsOK, calls

LEMMA GotoTyped ==
  ASSUME CallsOK, depth # 0, NEW step \in Steps, Goto(step)
  PROVE  CallsOK'
<1>1. depth \in 1 .. MaxDepth
  BY MaxDepthAssumption DEF CallsOK
<1>2. [frame[depth] EXCEPT !.pc = step] \in Frame
  BY <1>1 DEF CallsOK, Frame
<1>3. frame' = [frame EXCEPT ![depth] = [frame[depth] EXCEPT !.pc = step]]
  BY DEF Goto
<1> QED
  BY <1>2, <1>3 DEF CallsOK, Goto

LEMMA PopTyped ==
  ASSUME CallsOK, depth # 0, Pop
  PROVE  CallsOK'
BY IdleTyped, MaxDepthAssumption DEF CallsOK, Pop

LEMMA EndDispatchTyped ==
  ASSUME CallsOK, depth # 0, EndDispatch
  PROVE  CallsOK'
BY GotoTyped, PopTyped DEF EndDispatch, Steps

LEMMA PushTyped ==
  ASSUME CallsOK, depth < MaxDepth, NEW f \in Frame, Push(f)
  PROVE  CallsOK'
BY MaxDepthAssumption DEF CallsOK, Push

LEMMA NewFrameTyped ==
  ASSUME NEW i \in Intents, NEW named \in BOOLEAN, NEW capture \in BOOLEAN,
         NEW o \in Owners \union {NoOwner}, NEW c \in Nat
  PROVE  NewFrame(i, named, o, c, capture) \in Frame
BY DEF NewFrame, Frame, Steps, NoId

---------------------------------------------------------------------------
(* What the rebuilds compute.                                              *)

LEMMA DecidingIsARow ==
  ASSUME ledger \in Seq(Event), NEW rows \in SUBSET (DOMAIN ledger), rows # {}
  PROVE  Deciding(ledger, rows) \in rows
<1> DEFINE terminal == {k \in rows : ledger[k].type \in TerminalTypes}
<1>1. rows \in SUBSET (1 .. Len(ledger)) /\ Len(ledger) \in Nat
  BY LenProperties
<1>2. rows \in SUBSET Nat /\ terminal \in SUBSET Nat
  BY <1>1
<1>3. CASE terminal # {}
  BY <1>2, <1>3, FirstOfIsLeast DEF Deciding
<1>4. CASE terminal = {}
  BY <1>1, <1>4, LastOfIsGreatest DEF Deciding
<1> QED
  BY <1>3, <1>4

LEMMA ExpectedIntentRowTyped ==
  ASSUME ledger \in Seq(Event), NEW i
  PROVE  ExpectedIntentRow(ledger, i)
           \in [status : {"NONE", "PENDING", "RUNNING", "REJECTED", "COMPLETED", "FAILED"},
               event : Nat]
<1>1. CASE RowsOf(ledger, i) = {}
  BY <1>1 DEF ExpectedIntentRow, NoId
<1>2. CASE RowsOf(ledger, i) # {}
  <2> DEFINE k == Deciding(ledger, RowsOf(ledger, i))
  <2>1. k \in RowsOf(ledger, i)
    BY <1>2, DecidingIsARow DEF RowsOf
  <2>2. k \in Nat /\ ledger[k].type \in IntentTypes
    BY <2>1, LenProperties DEF RowsOf
  <2> QED
    BY <1>2, <2>2, StatusTyped DEF ExpectedIntentRow
<1> QED
  BY <1>1, <1>2

LEMMA ExpectedInboxRowTyped ==
  ASSUME ledger \in Seq(Event), NEW i
  PROVE  ExpectedInboxRow(ledger, i) \in {"NONE", "PENDING", "REJECTED"}
<1> DEFINE rows == {k \in RowsOf(ledger, i) :
                      ledger[k].type \in {"intent_submitted", "intent_rejected"}}
<1>1. CASE rows = {}
  BY <1>1 DEF ExpectedInboxRow
<1>2. CASE rows # {}
  <2>1. rows \in SUBSET Nat
    BY LenProperties DEF RowsOf
  <2>2. FirstOf(rows) \in rows
    <3> HIDE DEF rows
    <3> QED
      BY <1>2, <2>1, FirstOfIsLeast
  <2>3. StatusByType[ledger[FirstOf(rows)].type] \in {"PENDING", "REJECTED"}
    BY <2>2 DEF StatusByType, IntentTypes
  <2> QED
    BY <1>2, <2>3 DEF ExpectedInboxRow
<1> QED
  BY <1>1, <1>2

LEMMA ClaimRowsTyped ==
  ASSUME ledger \in Seq(Event), NEW i
  PROVE  ClaimRow(i, ActiveClaim(ledger, i)) \in [claim : Nat, owner : Owners \union {NoOwner}]
<1>1. NoClaimRow \in [claim : Nat, owner : Owners \union {NoOwner}]
  BY DEF NoClaimRow, NoId
<1>2. ASSUME ActiveClaim(ledger, i) # NoId
      PROVE  ledger[ActiveClaim(ledger, i)].owner \in Owners \union {NoOwner}
  BY <1>2, ActiveClaimTyped, ElementOfSeq, EventFields
<1> QED
  BY <1>1, <1>2, ActiveClaimTyped DEF ClaimRow

LEMMA ExpectedRunRowsTyped ==
  ASSUME ledger \in Seq(Event)
  PROVE  \A row \in ExpectedRunRows(ledger) : row \in [run : Nat, state : RunTypes, event : Nat]
<1> TAKE row \in ExpectedRunRows(ledger)
<1>1. PICK r \in RunIds(ledger) :
        row = [run |-> r, state |-> RunState(ledger, r), event |-> LastOf(RunRows(ledger, r))]
  BY DEF ExpectedRunRows
<1>2. PICK k \in DOMAIN ledger : ledger[k].type \in RunTypes /\ ledger[k].run = r
  BY DEF RunIds
<1>3. r \in Nat /\ RunRows(ledger, r) # {}
  BY <1>2, LenProperties, ElementOfSeq, EventFields DEF RunRows
<1>4. RunRows(ledger, r) \in SUBSET (1 .. Len(ledger)) /\ Len(ledger) \in Nat
  BY LenProperties DEF RunRows
<1>5. LastOf(RunRows(ledger, r)) \in RunRows(ledger, r)
  BY <1>3, <1>4, LastOfIsGreatest
<1> QED
  BY <1>1, <1>3, <1>4, <1>5 DEF RunRows, RunState

---------------------------------------------------------------------------
(* One step of each kind keeps the types.                                  *)

LEMMA TypeInit == Init => TypeOK
<1> SUFFICES ASSUME Init PROVE TypeOK
  OBVIOUS
<1>1. ledger \in Seq(Event)
  BY DEF Init
<1>2. NoIntentRow \in [status : {"NONE", "PENDING", "RUNNING", "REJECTED",
                                "COMPLETED", "FAILED"}, event : Nat]
  BY DEF NoIntentRow, NoId
<1>3. NoClaimRow \in [claim : Nat, owner : Owners \union {NoOwner}]
  BY DEF NoClaimRow, NoId
<1>4. DbOK
  BY <1>1, <1>2, <1>3, MaxFaultsAssumption DEF Init, DbOK
<1>5. CallsOK
  BY IdleTyped, MaxDepthAssumption DEF Init, CallsOK
<1>6. invocations \in [Intents -> Nat]
  BY DEF Init
<1> QED
  BY <1>4, <1>5, <1>6, TypeParts

LEMMA TypeSubmit ==
  ASSUME TypeOK, NEW i \in Intents, NEW nested \in SUBSET Intents,
         NEW type \in {"intent_submitted", "intent_rejected"}, Submit(i, type, nested)
  PROVE  TypeOK'
<1>1. DbOK /\ CallsOK /\ invocations \in [Intents -> Nat]
  BY TypeParts
<1>2. CASE AppendFails
  BY <1>1, <1>2, AppendFailsTyped, CallsKept, TypePartsNext DEF Submit
<1>3. CASE ~AppendFails
  <2>1. SubmitEvent(type, i, nested) \in Event /\ type \in IntentTypes
    BY EventsTyped DEF IntentTypes
  <2>2. ledger' \in Seq(Event) /\ Here \in Nat
    BY <1>1, <1>3, <2>1, AppendTyped DEF Submit
  <2>3. faults' \in 0 .. MaxFaults /\ stale' \subseteq Tables
    BY <1>1, <1>3, FaultTyped DEF Submit, DbOK, Tables
  <2>4. StatusByType[type] \in {"PENDING", "REJECTED"}
    BY DEF StatusByType, IntentTypes
  <2>5. inbox' \in [Intents -> {"NONE", "PENDING", "REJECTED"}]
    BY <1>1, <1>3, <2>4 DEF Submit, DbOK
  <2>6. intentProj' \in [Intents -> [status : {"NONE", "PENDING", "RUNNING", "REJECTED",
                                              "COMPLETED", "FAILED"}, event : Nat]]
    <3> DEFINE row == [status |-> StatusByType[type], event |-> Here]
               Rows == [status : {"NONE", "PENDING", "RUNNING", "REJECTED",
                                  "COMPLETED", "FAILED"}, event : Nat]
    <3>1. row \in Rows
      BY <2>2, <2>4
    <3>2. intentProj' = [intentProj EXCEPT ![i] = row] \/ intentProj' = intentProj
      BY <1>3 DEF Submit, UpsertIntentRow
    <3>3. intentProj \in [Intents -> Rows]
      BY <1>1 DEF DbOK
    <3> HIDE DEF row, Rows
    <3>4. intentProj' \in [Intents -> Rows]
      BY <3>1, <3>2, <3>3
    <3> QED
      BY <3>4 DEF Rows
  <2>7. UNCHANGED <<claimProj, runProj, invocations>> /\ UNCHANGED calls
    BY <1>3 DEF Submit
  <2>8. DbOK'
    BY <1>1, <2>2, <2>3, <2>5, <2>6, <2>7 DEF DbOK
  <2> QED
    BY <1>1, <2>7, <2>8, CallsKept, TypePartsNext
<1> QED
  BY <1>2, <1>3

LEMMA TypeClaimIntent ==
  ASSUME TypeOK, NEW i \in Intents, NEW o \in Owners \union {NoOwner}, ClaimIntent(i, o)
  PROVE  TypeOK'
<1>1. DbOK /\ CallsOK /\ invocations \in [Intents -> Nat]
  BY TypeParts
<1>2. DbOK'
  BY <1>1, EstablishClaimTyped, RejectClaimTyped, AppendFailsTyped DEF ClaimIntent
<1> QED
  BY <1>1, <1>2, CallsKept, TypePartsNext DEF ClaimIntent

LEMMA TypeCallRelease ==
  ASSUME TypeOK, NEW i \in Intents, NEW o \in Owners \union {NoOwner}, CallRelease(i, o)
  PROVE  TypeOK'
<1>1. DbOK /\ CallsOK /\ invocations \in [Intents -> Nat]
  BY TypeParts
<1>2. DbOK'
  BY <1>1, ReleaseClaimTyped DEF CallRelease
<1> QED
  BY <1>1, <1>2, CallsKept, TypePartsNext DEF CallRelease

LEMMA TypeDispatch ==
  ASSUME TypeOK, NEW i \in Intents, NEW named \in BOOLEAN, NEW capture \in BOOLEAN,
         \/ Dispatch(i, named, capture)
         \/ \E o \in Owners \union {NoOwner} : DispatchAndTrack(i, named, o, capture)
  PROVE  TypeOK'
<1>1. DbOK /\ CallsOK /\ invocations \in [Intents -> Nat]
  BY TypeParts
<1>2. CASE Dispatch(i, named, capture)
  <2>1. NewFrame(i, named, NoOwner, NoId, capture) \in Frame
    BY NewFrameTyped DEF NoId
  <2>2. CallsOK'
    BY <1>1, <1>2, <2>1, PushTyped DEF Dispatch, CanCall
  <2>3. DbOK'
    BY <1>1, <1>2, NoChangeTyped DEF Dispatch
  <2> QED
    BY <1>1, <1>2, <2>2, <2>3, TypePartsNext DEF Dispatch
<1>3. ASSUME NEW o \in Owners \union {NoOwner}, DispatchAndTrack(i, named, o, capture)
      PROVE  TypeOK'
  <2>1. Here \in Nat
    BY <1>1 DEF DbOK, Here
  <2>2. NewFrame(i, named, o, Here, capture) \in Frame
    BY <2>1, NewFrameTyped
  <2>3. CallsOK'
    BY <1>1, <1>3, <2>2, PushTyped, CallsKept DEF DispatchAndTrack, CanCall
  <2>4. DbOK'
    BY <1>1, <1>3, EstablishClaimTyped, RejectClaimTyped, AppendFailsTyped DEF DispatchAndTrack
  <2> QED
    BY <1>1, <1>3, <2>3, <2>4, TypePartsNext DEF DispatchAndTrack
<1> QED
  BY <1>2, <1>3

(* A step of the dispatch at the top of the stack.                         *)
LEMMA AtStep ==
  ASSUME TypeOK, NEW step \in Steps \ {"idle"}, At(step)
  PROVE  /\ depth # 0 /\ depth \in 1 .. MaxDepth
         /\ Top = frame[depth] /\ Top \in Frame
         /\ DbOK /\ CallsOK /\ invocations \in [Intents -> Nat]
BY TopTyped, TypeParts, MaxDepthAssumption

LEMMA TypeBeginDispatch == ASSUME TypeOK, BeginDispatch PROVE TypeOK'
<1>1. At("dispatch") /\ "dispatch" \in Steps \ {"idle"}
  BY DEF BeginDispatch, Steps
<1>2. IntentEvent("intent_claimed", Top.intent) \in Event
  BY <1>1, AtStep, FrameFields, EventsTyped DEF IntentTypes
<1>3. IntentEvent("intent_claimed", Top.intent).type \in IntentTypes
  BY IntentEventSays DEF IntentTypes
<1>4. DbOK'
  BY <1>1, <1>2, <1>3, AtStep, AppendIntentEventTyped, AppendFailsTyped, NoChangeTyped
  DEF BeginDispatch
<1>5. CallsOK'
  BY <1>1, AtStep, GotoTyped, EndDispatchTyped DEF BeginDispatch, Steps
<1> QED
  BY <1>1, <1>4, <1>5, AtStep, TypePartsNext DEF BeginDispatch

LEMMA TypeCapture ==
  ASSUME TypeOK, NEW step \in Steps \ {"idle"}, NEW captured \in OtherTypes,
         NEW failed \in OtherTypes, NEW next \in Steps, Capture(step, captured, failed, next)
  PROVE  TypeOK'
<1>1. At(step)
  BY DEF Capture
<1>2. /\ IntentEvent(captured, Top.intent) \in Event
      /\ IntentEvent(failed, Top.intent) \in Event
  BY <1>1, AtStep, FrameFields, EventsTyped
<1>3. DbOK'
  BY <1>1, <1>2, AtStep, AppendNoteTyped, AppendFailsTyped DEF Capture
<1>4. CallsOK'
  BY <1>1, AtStep, GotoTyped DEF Capture, Steps
<1> QED
  BY <1>1, <1>3, <1>4, AtStep, TypePartsNext DEF Capture

LEMMA TypeCreateRun == ASSUME TypeOK, CreateRun PROVE TypeOK'
<1>1. At("run") /\ "run" \in Steps \ {"idle"}
  BY DEF CreateRun, Steps
<1>2. Here \in Nat
  BY <1>1, AtStep DEF Here, DbOK
<1>3. RunEvent("run_created", Top.intent, Here) \in Event
  BY <1>1, <1>2, AtStep, FrameFields, EventsTyped DEF RunTypes
<1>4. RunEvent("run_created", Top.intent, Here).type \in RunTypes
  BY RunEventSays DEF RunTypes
<1>5. DbOK'
  BY <1>1, <1>3, <1>4, AtStep, AppendRunEventTyped, AppendFailsTyped DEF CreateRun
<1>6. CallsOK'
  <2>1. CASE EndDispatch
    BY <1>1, <2>1, AtStep, EndDispatchTyped
  <2>2. CASE /\ frame' = [frame EXCEPT ![depth].pc = "running", ![depth].run = Here]
             /\ UNCHANGED depth
    <3> DEFINE f == [frame[depth] EXCEPT !.pc = "running", !.run = Here]
    <3>1. f \in Frame
      BY <1>1, <1>2, AtStep DEF Frame, Steps
    <3>2. frame' = [frame EXCEPT ![depth] = f]
      BY <2>2, <1>1, AtStep DEF CallsOK
    <3> QED
      BY <1>1, <2>2, <3>1, <3>2, AtStep DEF CallsOK
  <2> QED
    BY <2>1, <2>2 DEF CreateRun
<1> QED
  BY <1>1, <1>5, <1>6, AtStep, TypePartsNext DEF CreateRun

LEMMA TypeStartRunning == ASSUME TypeOK, StartRunning PROVE TypeOK'
<1>1. At("running") /\ "running" \in Steps \ {"idle"}
  BY DEF StartRunning, Steps
<1>2. RunEvent("state_running", NoIntent, Top.run) \in Event
  BY <1>1, AtStep, FrameFields, EventsTyped DEF RunTypes
<1>3. RunEvent("state_running", NoIntent, Top.run).type \in RunTypes
  BY RunEventSays DEF RunTypes
<1>4. DbOK'
  BY <1>1, <1>2, <1>3, AtStep, AppendRunEventTyped, AppendFailsTyped, NoChangeTyped
  DEF StartRunning
<1>5. CallsOK'
  BY <1>1, AtStep, GotoTyped, EndDispatchTyped DEF StartRunning, Steps
<1>6. (invocations \in [Intents -> Nat])'
  <2>1. CASE UNCHANGED invocations
    BY <1>1, <2>1, AtStep
  <2>2. CASE invocations' = [invocations EXCEPT ![Top.intent] = @ + 1]
    <3>1. invocations \in [Intents -> Nat] /\ \A x \in Intents : invocations[x] + 1 \in Nat
      BY <1>1, AtStep
    <3>2. CASE Top.intent \in Intents
      BY <2>2, <3>1, <3>2
    <3>3. CASE Top.intent \notin Intents
      BY <2>2, <3>1, <3>3
    <3> QED
      BY <3>2, <3>3
  <2> QED
    BY <2>1, <2>2 DEF StartRunning
<1> QED
  BY <1>4, <1>5, <1>6, TypePartsNext

LEMMA TypeRecordArtifact == ASSUME TypeOK, RecordArtifact PROVE TypeOK'
<1>1. At("invoke") /\ "invoke" \in Steps \ {"idle"}
  BY DEF RecordArtifact, Steps
<1>2. RunEvent("artifact_written", NoIntent, Top.run) \in Event
  BY <1>1, AtStep, FrameFields, EventsTyped DEF RunTypes
<1>3. RunEvent("artifact_written", NoIntent, Top.run).type \in RunTypes
  BY RunEventSays DEF RunTypes
<1>4. DbOK'
  BY <1>1, <1>2, <1>3, AtStep, AppendRunEventTyped, AppendFailsTyped, NoChangeTyped
  DEF RecordArtifact
<1>5. CallsOK'
  BY <1>1, AtStep, GotoTyped, EndDispatchTyped DEF RecordArtifact, Steps
<1> QED
  BY <1>1, <1>4, <1>5, AtStep, TypePartsNext DEF RecordArtifact

LEMMA TypeConclude ==
  ASSUME TypeOK, NEW step \in Steps \ {"idle"}, NEW type \in IntentTypes,
         Conclude(step, type)
  PROVE  TypeOK'
<1>1. At(step)
  BY DEF Conclude
<1>2. IntentEvent(type, Top.intent) \in Event
  BY <1>1, AtStep, FrameFields, EventsTyped
<1>3. IntentEvent(type, Top.intent).type \in IntentTypes
  BY IntentEventSays
<1>4. DbOK'
  BY <1>1, <1>2, <1>3, AtStep, AppendIntentEventTyped, AppendFailsTyped DEF Conclude
<1>5. CallsOK'
  BY <1>1, AtStep, EndDispatchTyped DEF Conclude
<1> QED
  BY <1>1, <1>4, <1>5, AtStep, TypePartsNext DEF Conclude

LEMMA TypeTrackedRelease == ASSUME TypeOK, TrackedRelease PROVE TypeOK'
<1>1. At("release") /\ "release" \in Steps \ {"idle"}
  BY DEF TrackedRelease, Steps
<1>2. DbOK'
  BY <1>1, AtStep, FrameFields, ReleaseClaimTyped DEF TrackedRelease
<1>3. CallsOK'
  BY <1>1, AtStep, PopTyped DEF TrackedRelease
<1> QED
  BY <1>1, <1>2, <1>3, AtStep, TypePartsNext DEF TrackedRelease

LEMMA TypeDispatchStep == ASSUME TypeOK, DispatchStep PROVE TypeOK'
<1>1. CASE CaptureProvenance
  BY <1>1, TypeCapture DEF CaptureProvenance, Steps, OtherTypes
<1>2. CASE CaptureEnvironment
  BY <1>2, TypeCapture DEF CaptureEnvironment, Steps, OtherTypes
<1>3. CASE CompleteIntent \/ FailIntent \/ AbortIntent
  BY <1>3, TypeConclude DEF CompleteIntent, FailIntent, AbortIntent, Steps, IntentTypes
<1> QED
  BY <1>1, <1>2, <1>3, TypeBeginDispatch, TypeCreateRun, TypeStartRunning, TypeRecordArtifact,
     TypeTrackedRelease
  DEF DispatchStep

LEMMA TypeCrash == ASSUME TypeOK, Crash PROVE TypeOK'
<1>1. DbOK'
  BY FaultTyped, TypeParts DEF Crash, DbOK, db
<1>2. CallsOK'
  BY IdleTyped, MaxDepthAssumption DEF Crash, CallsOK
<1> QED
  BY <1>1, <1>2, TypeParts, TypePartsNext DEF Crash

LEMMA TypeRebuilds == ASSUME TypeOK, Rebuilds PROVE TypeOK'
<1>1. DbOK /\ CallsOK /\ invocations \in [Intents -> Nat]
  BY TypeParts
<1>2. ledger \in Seq(Event)
  BY <1>1 DEF DbOK
<1>3. PICK table \in Tables : Rebuild(table)
  BY DEF Rebuilds, RebuildInboxEntries, RebuildIntentProjection, RebuildClaimProjection,
         RebuildProjection, Tables
<1>4. /\ UNCHANGED ledger /\ UNCHANGED calls /\ UNCHANGED invocations /\ UNCHANGED faults
      /\ stale' \subseteq stale
  BY <1>3 DEF Rebuild
<1>5. DbOK'
  <2>1. CASE RebuildInboxEntries
    <3>1. inbox' \in [Intents -> {"NONE", "PENDING", "REJECTED"}]
      BY <1>2, <2>1, ExpectedInboxRowTyped DEF RebuildInboxEntries
    <3> QED
      BY <1>1, <1>4, <2>1, <3>1 DEF RebuildInboxEntries, DbOK
  <2>2. CASE RebuildIntentProjection
    <3>1. intentProj' \in [Intents -> [status : {"NONE", "PENDING", "RUNNING", "REJECTED",
                                                "COMPLETED", "FAILED"}, event : Nat]]
      BY <1>2, <2>2, ExpectedIntentRowTyped DEF RebuildIntentProjection
    <3> QED
      BY <1>1, <1>4, <2>2, <3>1 DEF RebuildIntentProjection, DbOK
  <2>3. CASE RebuildClaimProjection
    <3>1. claimProj' \in [Intents -> [claim : Nat, owner : Owners \union {NoOwner}]]
      BY <1>2, <2>3, ClaimRowsTyped DEF RebuildClaimProjection
    <3> QED
      BY <1>1, <1>4, <2>3, <3>1 DEF RebuildClaimProjection, DbOK
  <2>4. CASE RebuildProjection
    <3>1. \A row \in runProj' : row \in [run : Nat, state : RunTypes, event : Nat]
      BY <1>2, <2>4, ExpectedRunRowsTyped DEF RebuildProjection
    <3> QED
      BY <1>1, <1>4, <2>4, <3>1 DEF RebuildProjection, DbOK
  <2> QED
    BY <2>1, <2>2, <2>3, <2>4 DEF Rebuilds
<1> QED
  BY <1>1, <1>4, <1>5, CallsKept, TypePartsNext

LEMMA TypeNext == TypeOK /\ [Next]_vars => TypeOK'
<1> SUFFICES ASSUME TypeOK, [Next]_vars PROVE TypeOK'
  OBVIOUS
<1>1. CASE Call
  <2>1. PICK i \in Intents :
          \/ SubmitAccepted(i)
          \/ SubmitRejected(i)
          \/ \E o \in Owners \union {NoOwner} : ClaimIntent(i, o) \/ CallRelease(i, o)
          \/ \E named \in BOOLEAN, capture \in Captures :
               \/ Dispatch(i, named, capture)
               \/ \E o \in Owners \union {NoOwner} : DispatchAndTrack(i, named, o, capture)
    BY <1>1 DEF Call
  <2>2. CASE SubmitAccepted(i) \/ SubmitRejected(i)
    <3>1. Payloads \subseteq SUBSET Intents
      BY DEF Payloads
    <3> QED
      BY <2>2, <3>1, TypeSubmit DEF SubmitAccepted, SubmitRejected
  <2>3. CASE \E o \in Owners \union {NoOwner} : ClaimIntent(i, o) \/ CallRelease(i, o)
    BY <2>3, TypeClaimIntent, TypeCallRelease
  <2>4. CASE \E named \in BOOLEAN, capture \in Captures :
               \/ Dispatch(i, named, capture)
               \/ \E o \in Owners \union {NoOwner} : DispatchAndTrack(i, named, o, capture)
    BY <2>4, TypeDispatch, CapturesAssumption
  <2> QED
    BY <2>1, <2>2, <2>3, <2>4
<1>2. CASE UNCHANGED vars
  BY <1>2 DEF vars, TypeOK
<1> QED
  BY <1>1, <1>2, TypeDispatchStep, TypeCrash, TypeRebuilds DEF Next

(* Every variable keeps to its possible values.                            *)
THEOREM TypeCorrect == Spec => []TypeOK
BY TypeInit, TypeNext, PTL DEF Spec

---------------------------------------------------------------------------
(* The events of an intent.                                             *)

Submissions == {"intent_submitted", "intent_rejected"}
Outcomes    == {"intent_completed", "intent_failed"}

(* The steps between intent_claimed and the end of dispatch_once, and those*)
(* of them that come before the worker.                                    *)
BeforeWorker == {"provenance", "environment", "run", "running"}
Working == BeforeWorker \union {"abort", "invoke", "completed", "failed"}

---------------------------------------------------------------------------
(* The inductive invariant.                                                *)

(* No event mentions an intent other than its own.                         *)
NoNesting == \A k \in 1 .. Len(ledger) : ledger[k].nested = {}

(* A submission comes before every other row of its intent.                *)
SubmissionFirst ==
  \A i \in Intents : \A j, k \in RowsOf(ledger, i) :
    ledger[k].type \in Submissions => k <= j

(* The stack: callers wait in the worker they invoked.                     *)
StackShape ==
  \A d \in 1 .. MaxDepth :
    /\ d < depth => frame[d].pc = "invoke"
    /\ d > depth => frame[d] = Idle
    /\ d <= depth => frame[d].pc # "idle" /\ frame[d].intent \in Intents

LastType(L, i) == L[LastOf(RowsOf(L, i))].type

(* A dispatch at work: the last thing the ledger says of its intent is that*)
(* it was claimed, and no other call works on it.                          *)
WorkIsClaimed ==
  \A d \in 1 .. MaxDepth : frame[d].pc \in Working =>
    RowsOf(ledger, frame[d].intent) # {} /\ LastType(ledger, frame[d].intent) = "intent_claimed"

WorkIsExclusive ==
  \A c, d \in 1 .. MaxDepth :
    frame[c].pc \in Working /\ frame[d].pc \in Working /\ frame[c].intent = frame[d].intent
      => c = d

Claimed(L, i) == \E k \in RowsOf(L, i) : L[k].type = "intent_claimed"

(* A worker was invoked only for a claimed intent, and not yet for one     *)
(* whose dispatch has still to invoke it.                                  *)
InvokedAfterClaim ==
  /\ \A i \in Intents : invocations[i] > 0 => Claimed(ledger, i)
  /\ \A d \in 1 .. MaxDepth : frame[d].pc \in BeforeWorker => invocations[frame[d].intent] = 0

HistoryInv ==
  /\ NoNesting
  /\ LegalIntentHistory
  /\ SubmissionFirst
  /\ SingleClaim
  /\ StackShape
  /\ WorkIsClaimed
  /\ WorkIsExclusive
  /\ InvokedAfterClaim
  /\ AtMostOneInvocation

---------------------------------------------------------------------------
(* Rows of a ledger, and of a ledger with one event more.                  *)

LEMMA RowsArePositions ==
  ASSUME ledger \in Seq(Event), NEW i
  PROVE  /\ Len(ledger) \in Nat
         /\ DOMAIN ledger = 1 .. Len(ledger)
         /\ RowsOf(ledger, i) \in SUBSET (1 .. Len(ledger))
BY LenProperties DEF RowsOf

LEMMA AppendedLedger ==
  ASSUME ledger \in Seq(Event), NEW e \in Event, ledger' = Append(ledger, e)
  PROVE  /\ Len(ledger) \in Nat
         /\ Len(ledger') = Len(ledger) + 1
         /\ DOMAIN ledger' = 1 .. Len(ledger) + 1
         /\ \A k \in 1 .. Len(ledger) : ledger'[k] = ledger[k]
         /\ ledger'[Len(ledger) + 1] = e
OBVIOUS

LEMMA AppendedRows ==
  ASSUME ledger \in Seq(Event), NEW e \in Event, ledger' = Append(ledger, e), NEW i
  PROVE  RowsOf(ledger', i)
           = IF e.type \in IntentTypes /\ e.intent = i
             THEN RowsOf(ledger, i) \union {Len(ledger) + 1}
             ELSE RowsOf(ledger, i)
<1>1. DOMAIN ledger = 1 .. Len(ledger) /\ Len(ledger) \in Nat
  BY LenProperties
<1>2. \A k \in 1 .. Len(ledger) + 1 : k # Len(ledger) + 1 => k \in 1 .. Len(ledger)
  BY <1>1
<1>3. \A k : k \in RowsOf(ledger', i) <=>
        \/ k \in RowsOf(ledger, i)
        \/ k = Len(ledger) + 1 /\ e.type \in IntentTypes /\ e.intent = i
  BY <1>1, <1>2, AppendedLedger DEF RowsOf
<1> QED
  BY <1>3

LEMMA LastOfAppended ==
  ASSUME NEW n \in Nat, NEW S \in SUBSET (1 .. n)
  PROVE  LastOf(S \union {n + 1}) = n + 1
<1>1. S \union {n + 1} \in SUBSET (1 .. n + 1) /\ n + 1 \in Nat
  OBVIOUS
<1>2. /\ LastOf(S \union {n + 1}) \in S \union {n + 1}
      /\ n + 1 <= LastOf(S \union {n + 1})
  BY <1>1, LastOfIsGreatest
<1>3. LastOf(S \union {n + 1}) \in 1 .. n + 1
  BY <1>1, <1>2
<1> QED
  BY <1>2, <1>3

(* Without nesting the rows that get_intent_status selects are the rows of *)
(* the intent.                                                             *)
LEMMA RowsLikeAreRows ==
  ASSUME ledger \in Seq(Event), NoNesting, NEW i
  PROVE  RowsLike(ledger, i) = RowsOf(ledger, i)
BY LenProperties DEF NoNesting, RowsLike, RowsOf, Mentions

(* In a legal history nothing follows a terminal row.                      *)
LEMMA TerminalIsLast ==
  ASSUME ledger \in Seq(Event), LegalIntentHistory, NEW i \in Intents,
         NEW k \in RowsOf(ledger, i), ledger[k].type \in TerminalTypes,
         NEW m \in RowsOf(ledger, i)
  PROVE  m <= k
<1> DEFINE R == RowsOf(ledger, i)
           After == {n \in R : k < n}
<1>1. R \in SUBSET (1 .. Len(ledger)) /\ Len(ledger) \in Nat
  BY RowsArePositions
<1>2. SUFFICES ASSUME k < m PROVE FALSE
  BY <1>1
<1>3. After \in SUBSET Nat /\ After # {}
  BY <1>1, <1>2
<1>4. PICK n \in After : \A x \in After : n <= x
  <2> HIDE DEF After
  <2> QED
    BY <1>3, LeastPosition
<1> DEFINE Before == {x \in R : x < n}
<1>5. k \in Before /\ \A x \in Before : x <= k
  BY <1>1, <1>4
<1>6. LastOf(Before) = k
  <2>1. Before \in SUBSET (1 .. Len(ledger)) /\ Before # {}
    BY <1>1, <1>5
  <2>2. LastOf(Before) \in Before /\ k <= LastOf(Before)
    <3> HIDE DEF Before
    <3> QED
      BY <1>1, <1>5, <2>1, LastOfIsGreatest
  <2>3. LastOf(Before) <= k /\ LastOf(Before) \in Nat /\ k \in Nat
    BY <1>1, <1>5, <2>2
  <2> QED
    BY <2>2, <2>3
<1>7. ledger[n].type \in AllowedIntentTransitions[ledger[k].type]
  BY <1>4, <1>5, <1>6 DEF LegalIntentHistory
<1>8. AllowedIntentTransitions[ledger[k].type] = {}
  BY DEF AllowedIntentTransitions, TerminalTypes, IntentTypes
<1> QED
  BY <1>7, <1>8

(* So the row that decides the status is the last one.                     *)
LEMMA LastDecides ==
  ASSUME ledger \in Seq(Event), LegalIntentHistory, NEW i \in Intents,
         RowsOf(ledger, i) # {}
  PROVE  /\ Deciding(ledger, RowsOf(ledger, i)) = LastOf(RowsOf(ledger, i))
         /\ LastOf(RowsOf(ledger, i)) \in RowsOf(ledger, i)
         /\ \A m \in RowsOf(ledger, i) : m <= LastOf(RowsOf(ledger, i))
<1> DEFINE R == RowsOf(ledger, i)
           terminal == {k \in R : ledger[k].type \in TerminalTypes}
<1>1. R \in SUBSET (1 .. Len(ledger)) /\ Len(ledger) \in Nat
  BY RowsArePositions
<1>2. LastOf(R) \in R /\ \A m \in R : m <= LastOf(R)
  BY <1>1, LastOfIsGreatest
<1>3. CASE terminal = {}
  BY <1>2, <1>3 DEF Deciding
<1>4. CASE terminal # {}
  <2>1. terminal \in SUBSET Nat
    BY <1>1
  <2>2. FirstOf(terminal) \in terminal
    <3> HIDE DEF terminal
    <3> QED
      BY <1>4, <2>1, FirstOfIsLeast
  <2>3. LastOf(R) <= FirstOf(terminal)
    BY <1>2, <2>2, TerminalIsLast
  <2>4. FirstOf(terminal) = LastOf(R)
    BY <1>1, <1>2, <2>2, <2>3
  <2> QED
    BY <1>2, <1>4, <2>4 DEF Deciding
<1> QED
  BY <1>3, <1>4

LEMMA StatusIsLast ==
  ASSUME ledger \in Seq(Event), NoNesting, LegalIntentHistory, NEW i \in Intents
  PROVE  Status(ledger, i)
           = IF RowsOf(ledger, i) = {} THEN "NONE" ELSE StatusByType[LastType(ledger, i)]
BY RowsLikeAreRows, LastDecides DEF Status, LastType

(* A PENDING intent has been submitted and nothing else.                   *)
LEMMA PendingIsUnclaimed ==
  ASSUME ledger \in Seq(Event), NoNesting, LegalIntentHistory, SubmissionFirst,
         NEW i \in Intents, Pending(i)
  PROVE  /\ RowsOf(ledger, i) # {}
         /\ LastType(ledger, i) = "intent_submitted"
         /\ ~Claimed(ledger, i)
<1> DEFINE R == RowsOf(ledger, i)
<1>1. R # {} /\ StatusByType[LastType(ledger, i)] = "PENDING"
  BY StatusIsLast DEF Pending
<1>2. LastOf(R) \in R /\ \A m \in R : m <= LastOf(R)
  BY <1>1, LastDecides
<1>3. LastType(ledger, i) = "intent_submitted"
  BY <1>1, <1>2 DEF LastType, RowsOf, StatusByType, IntentTypes
<1>4. \A m \in R : LastOf(R) <= m
  BY <1>2, <1>3 DEF SubmissionFirst, LastType, Submissions
<1>5. \A m \in R : m = LastOf(R)
  BY <1>2, <1>4, RowsArePositions
<1> QED
  BY <1>1, <1>3, <1>5 DEF Claimed, LastType

---------------------------------------------------------------------------
(* The shapes a step can have, as far as the invariant is concerned.       *)

Appends(e) == ledger' = Append(ledger, e)

(* Nothing is said of any intent.                                          *)
Quiet ==
  \/ UNCHANGED ledger
  \/ \E e \in Event : Appends(e) /\ e.nested = {} /\ e.type \notin IntentTypes

Submitting ==
  \E e \in Event :
    /\ Appends(e) /\ e.nested = {}
    /\ e.type \in Submissions /\ e.intent \in Intents
    /\ RowsOf(ledger, e.intent) = {}

KeepShape == (Quiet \/ Submitting) /\ UNCHANGED calls /\ UNCHANGED invocations

PushShape ==
  /\ Quiet /\ UNCHANGED invocations
  /\ depth < MaxDepth /\ Top.pc \in {"idle", "invoke"}
  /\ \E f \in Frame : f.pc = "dispatch" /\ f.intent \in Intents /\ Push(f)

ClaimShape ==
  /\ At("dispatch") /\ Pending(Top.intent)
  /\ Appends(IntentEvent("intent_claimed", Top.intent))
  /\ UNCHANGED invocations
  /\ \E s \in {"provenance", "run"} : Goto(s)

WorkShape ==
  /\ Quiet /\ Top.pc \in Working /\ UNCHANGED depth
  /\ \E g \in Frame :
       /\ frame' = [frame EXCEPT ![depth] = g]
       /\ g.intent = Top.intent /\ g.pc \in Working
       /\ \/ UNCHANGED invocations /\ (g.pc \in BeforeWorker => Top.pc \in BeforeWorker)
          \/ /\ Top.pc = "running" /\ g.pc = "invoke"
             /\ invocations' = [invocations EXCEPT ![Top.intent] = @ + 1]

LeaveShape ==
  /\ Top.pc # "idle" /\ UNCHANGED invocations
  /\ Quiet \/ (Top.pc \in Working /\ \E t \in Outcomes : Appends(IntentEvent(t, Top.intent)))
  /\ Pop \/ Goto("release")

CrashShape ==
  /\ UNCHANGED ledger /\ UNCHANGED invocations
  /\ depth' = 0 /\ frame' = [d \in 1 .. MaxDepth |-> Idle]

AnyShape ==
  KeepShape \/ PushShape \/ ClaimShape \/ WorkShape \/ LeaveShape \/ CrashShape

LEMMA FailedAppendIsQuiet == ASSUME AppendFails PROVE Quiet
BY DEF AppendFails, db, Quiet

LEMMA UnchangedIsQuiet == ASSUME UNCHANGED db PROVE Quiet
BY DEF db, Quiet

LEMMA RunEventIsQuiet ==
  ASSUME NEW e \in Event, e.type \in RunTypes, e.nested = {}, AppendRunEvent(e)
  PROVE  Quiet
BY DEF AppendRunEvent, Append1, Quiet, Appends, IntentTypes, RunTypes

LEMMA NoteIsQuiet ==
  ASSUME NEW e \in Event, e.type \in OtherTypes, e.nested = {}, AppendNote(e) \/ Note(e)
  PROVE  Quiet
BY FailedAppendIsQuiet DEF AppendNote, Note, Append1, Quiet, Appends, IntentTypes, OtherTypes

LEMMA ClaimEventIsQuiet ==
  ASSUME DbOK, NEW i \in Intents \union {NoIntent}, NEW o \in Owners \union {NoOwner},
         \/ i \in Intents /\ EstablishClaim(i, o)
         \/ i \in Intents /\ RejectClaim(i, o)
         \/ ReleaseClaim(i, o)
  PROVE  Quiet
<1>1. Here \in Nat /\ ActiveClaim(ledger, i) \in Nat
  BY ActiveClaimTyped DEF DbOK, Here
<1>2. \A t \in OtherTypes, c \in Nat :
        /\ ClaimEvent(t, i, c, o) \in Event
        /\ ClaimEvent(t, i, c, o).type = t
        /\ ClaimEvent(t, i, c, o).nested = {}
  BY EventsTyped, ClaimEventSays
<1>3. \A t \in OtherTypes, c \in Nat : Append1(ClaimEvent(t, i, c, o)) => Quiet
  BY <1>2 DEF Append1, Quiet, Appends, OtherTypes, IntentTypes
<1>4. CASE i \in Intents /\ EstablishClaim(i, o)
  BY <1>1, <1>3, <1>4 DEF EstablishClaim, OtherTypes
<1>5. CASE i \in Intents /\ RejectClaim(i, o)
  BY <1>3, <1>5, FailedAppendIsQuiet DEF RejectClaim, Note, AppendNote, OtherTypes, NoId
<1>6. CASE ReleaseClaim(i, o)
  <2> DEFINE c == IF o = NoOwner THEN NoId ELSE ActiveClaim(ledger, i)
  <2>1. c \in Nat
    BY <1>1 DEF NoId
  <2>2. \/ Note(ClaimEvent("intent_release_rejected", i, c, o))
        \/ Append1(ClaimEvent("intent_released", i, ActiveClaim(ledger, i), o))
        \/ AppendFails
    BY <1>6 DEF ReleaseClaim
  <2> HIDE DEF c
  <2> QED
    BY <1>1, <1>3, <2>1, <2>2, FailedAppendIsQuiet DEF Note, AppendNote, OtherTypes
<1> QED
  BY <1>4, <1>5, <1>6

LEMMA GotoWrites ==
  ASSUME TypeOK, NEW from \in Steps \ {"idle"}, At(from), NEW step \in Steps, Goto(step)
  PROVE  /\ [Top EXCEPT !.pc = step] \in Frame
         /\ [Top EXCEPT !.pc = step].pc = step
         /\ [Top EXCEPT !.pc = step].intent = Top.intent
         /\ frame' = [frame EXCEPT ![depth] = [Top EXCEPT !.pc = step]]
         /\ UNCHANGED depth
BY AtStep DEF Goto, Frame

(* A step that goes on working.                                            *)
LEMMA GotoIsWork ==
  ASSUME TypeOK, NEW from \in Working, At(from), NEW step \in Working, Goto(step),
         step \in BeforeWorker => from \in BeforeWorker, Quiet, UNCHANGED invocations
  PROVE  WorkShape
<1>1. from \in Steps \ {"idle"} /\ step \in Steps
  BY DEF Working, BeforeWorker, Steps
<1>2. Top.pc = from
  BY DEF At
<1>3. PICK g \in Frame : /\ g.pc = step /\ g.intent = Top.intent
                         /\ frame' = [frame EXCEPT ![depth] = g] /\ UNCHANGED depth
  BY <1>1, GotoWrites
<1> QED
  BY <1>2, <1>3 DEF WorkShape

LEMMA SubmitShape ==
  ASSUME TypeOK, NEW i \in Intents, NEW type \in Submissions, Submit(i, type, {})
  PROVE  AnyShape
<1> DEFINE e == SubmitEvent(type, i, {})
<1>1. e \in Event
  BY EventsTyped DEF Submissions, IntentTypes
<1>2. e.type = type /\ e.intent = i /\ e.nested = {}
  BY SubmitEventSays
<1>3. RowsOf(ledger, i) = {}
  BY DEF Submit, Known, Mentions, RowsOf
<1>4. Appends(e) \/ AppendFails
  BY DEF Submit, Append1, Appends
<1> HIDE DEF e
<1>5. Submitting \/ Quiet
  BY <1>1, <1>2, <1>3, <1>4, FailedAppendIsQuiet DEF Submitting
<1> QED
  BY <1>5 DEF AnyShape, KeepShape, Submit

LEMMA CallShape == ASSUME TypeOK, NestedIds = FALSE, Call PROVE AnyShape
<1>1. PICK i \in Intents :
        \/ SubmitAccepted(i)
        \/ SubmitRejected(i)
        \/ \E o \in Owners \union {NoOwner} : ClaimIntent(i, o) \/ CallRelease(i, o)
        \/ \E named \in BOOLEAN, capture \in Captures :
             \/ Dispatch(i, named, capture)
             \/ \E o \in Owners \union {NoOwner} : DispatchAndTrack(i, named, o, capture)
  BY DEF Call
<1>2. DbOK /\ CallsOK
  BY TypeParts
<1>3. CASE SubmitAccepted(i) \/ SubmitRejected(i)
  <2>1. Payloads = {{}}
    BY DEF Payloads
  <2> QED
    BY <1>3, <2>1, SubmitShape DEF SubmitAccepted, SubmitRejected, Submissions
<1>4. ASSUME NEW o \in Owners \union {NoOwner}, ClaimIntent(i, o) \/ CallRelease(i, o)
      PROVE  AnyShape
  <2>1. EstablishClaim(i, o) \/ RejectClaim(i, o) \/ ReleaseClaim(i, o) \/ AppendFails
    BY <1>4 DEF ClaimIntent, CallRelease
  <2>2. Quiet
    BY <1>2, <2>1, ClaimEventIsQuiet, FailedAppendIsQuiet
  <2> QED
    BY <1>4, <2>2 DEF AnyShape, KeepShape, ClaimIntent, CallRelease
<1>5. ASSUME NEW named \in BOOLEAN, NEW capture \in BOOLEAN,
             NEW o \in Owners \union {NoOwner}, NEW c \in Nat,
             Push(NewFrame(i, named, o, c, capture)), CanCall, Quiet, UNCHANGED invocations
      PROVE  AnyShape
  <2>1. NewFrame(i, named, o, c, capture) \in Frame
    BY NewFrameTyped
  <2>2. /\ NewFrame(i, named, o, c, capture).pc = "dispatch"
        /\ NewFrame(i, named, o, c, capture).intent = i
    BY DEF NewFrame
  <2> QED
    BY <1>5, <2>1, <2>2 DEF AnyShape, PushShape, CanCall
<1>6. ASSUME NEW named \in BOOLEAN, NEW capture \in BOOLEAN, Dispatch(i, named, capture)
      PROVE  AnyShape
  <2>1. Quiet
    BY <1>6, UnchangedIsQuiet DEF Dispatch
  <2> QED
    BY <1>5, <1>6, <2>1 DEF Dispatch, NoId
<1>7. ASSUME NEW named \in BOOLEAN, NEW capture \in BOOLEAN,
             NEW o \in Owners \union {NoOwner}, DispatchAndTrack(i, named, o, capture)
      PROVE  AnyShape
  <2>1. Quiet
    BY <1>2, <1>7, ClaimEventIsQuiet, FailedAppendIsQuiet DEF DispatchAndTrack
  <2>2. CASE Push(NewFrame(i, named, o, Here, capture))
    <3>1. Here \in Nat
      BY <1>2, LenProperties DEF Here, DbOK
    <3>2. CanCall /\ UNCHANGED invocations
      BY <1>7 DEF DispatchAndTrack
    <3> QED
      BY <1>5, <2>1, <2>2, <3>1, <3>2
  <2>3. CASE UNCHANGED calls
    BY <1>7, <2>1, <2>3 DEF AnyShape, KeepShape, DispatchAndTrack
  <2> QED
    BY <1>7, <2>2, <2>3 DEF DispatchAndTrack
<1> QED
  BY <1>1, <1>3, <1>4, <1>6, <1>7, CapturesAssumption

LEMMA BeginShape == ASSUME TypeOK, BeginDispatch PROVE AnyShape
<1>1. At("dispatch") /\ Top.pc # "idle" /\ UNCHANGED invocations
  BY DEF BeginDispatch, At
<1>2. CASE EndDispatch
  <2>1. Quiet \/ AppendIntentEvent(IntentEvent("intent_claimed", Top.intent))
    BY FailedAppendIsQuiet, UnchangedIsQuiet DEF BeginDispatch
  <2>2. CASE Quiet
    BY <1>1, <1>2, <2>2 DEF AnyShape, LeaveShape, EndDispatch
  <2>3. CASE /\ Pending(Top.intent)
             /\ AppendIntentEvent(IntentEvent("intent_claimed", Top.intent))
             /\ Goto(IF Top.capture THEN "provenance" ELSE "run")
    BY <1>1, <2>3 DEF AnyShape, ClaimShape, AppendIntentEvent, Append1, Appends
  <2> QED
    BY <2>2, <2>3, FailedAppendIsQuiet, UnchangedIsQuiet DEF BeginDispatch
<1>3. CASE /\ Pending(Top.intent)
           /\ AppendIntentEvent(IntentEvent("intent_claimed", Top.intent))
           /\ Goto(IF Top.capture THEN "provenance" ELSE "run")
  BY <1>1, <1>3 DEF AnyShape, ClaimShape, AppendIntentEvent, Append1, Appends
<1> QED
  BY <1>2, <1>3 DEF BeginDispatch

LEMMA CaptureShape ==
  ASSUME TypeOK, NEW step \in BeforeWorker, NEW captured \in OtherTypes,
         NEW failed \in OtherTypes, NEW next \in BeforeWorker,
         Capture(step, captured, failed, next)
  PROVE  AnyShape
<1>1. At(step) /\ UNCHANGED invocations
  BY DEF Capture
<1>2. step \in Working /\ step \in Steps \ {"idle"} /\ next \in Working /\ "abort" \in Working
      /\ "abort" \notin BeforeWorker
  BY DEF Working, BeforeWorker, Steps
<1>3. \A t \in OtherTypes :
        /\ IntentEvent(t, Top.intent) \in Event
        /\ IntentEvent(t, Top.intent).type = t
        /\ IntentEvent(t, Top.intent).nested = {}
  BY <1>1, <1>2, AtStep, FrameFields, EventsTyped, IntentEventSays
<1>4. Quiet
  BY <1>3, NoteIsQuiet, FailedAppendIsQuiet DEF Capture
<1>5. WorkShape
  BY <1>1, <1>2, <1>4, GotoIsWork DEF Capture
<1> QED
  BY <1>5 DEF AnyShape

(* The runs of a dispatch say nothing of its intent.                       *)
LEMMA RunStepIsQuiet ==
  ASSUME TypeOK, NEW from \in Steps \ {"idle"}, At(from), NEW t \in RunTypes,
         NEW i \in Intents \union {NoIntent}, NEW r \in Nat,
         AppendRunEvent(RunEvent(t, i, r))
  PROVE  Quiet
<1>1. RunEvent(t, i, r) \in Event
  BY EventsTyped
<1>2. RunEvent(t, i, r).type = t /\ RunEvent(t, i, r).nested = {}
  BY RunEventSays
<1> QED
  BY <1>1, <1>2, RunEventIsQuiet

LEMMA CreateShape == ASSUME TypeOK, CreateRun PROVE AnyShape
<1>1. At("run") /\ Top.pc = "run" /\ UNCHANGED invocations
  BY DEF CreateRun, At
<1>2. "run" \in Steps \ {"idle"} /\ "run" \in Working /\ "run_created" \in RunTypes
  BY DEF Working, BeforeWorker, Steps, RunTypes
<1>3. /\ depth \in 1 .. MaxDepth /\ Top = frame[depth] /\ Top \in Frame /\ CallsOK
      /\ Here \in Nat /\ Top.intent \in Intents \union {NoIntent}
  BY <1>1, <1>2, AtStep, FrameFields, LenProperties DEF Here, DbOK
<1>4. Quiet
  BY <1>1, <1>2, <1>3, RunStepIsQuiet, FailedAppendIsQuiet DEF CreateRun
<1>5. CASE EndDispatch
  BY <1>1, <1>4, <1>5 DEF AnyShape, LeaveShape, EndDispatch
<1>6. CASE /\ frame' = [frame EXCEPT ![depth].pc = "running", ![depth].run = Here]
           /\ UNCHANGED depth
  <2> DEFINE g == [Top EXCEPT !.pc = "running", !.run = Here]
  <2>1. g \in Frame /\ g.pc = "running" /\ g.intent = Top.intent
    BY <1>3 DEF Frame, Steps
  <2>2. frame' = [frame EXCEPT ![depth] = g]
    BY <1>3, <1>6 DEF CallsOK
  <2>3. "running" \in Working /\ "running" \in BeforeWorker /\ "run" \in BeforeWorker
    BY DEF Working, BeforeWorker
  <2> HIDE DEF g
  <2> QED
    BY <1>1, <1>2, <1>4, <1>6, <2>1, <2>2, <2>3 DEF AnyShape, WorkShape
<1> QED
  BY <1>5, <1>6 DEF CreateRun

LEMMA StartShape == ASSUME TypeOK, StartRunning PROVE AnyShape
<1>1. At("running") /\ Top.pc = "running"
  BY DEF StartRunning, At
<1>2. "running" \in Steps \ {"idle"} /\ "running" \in Working /\ "state_running" \in RunTypes
      /\ "invoke" \in Working /\ "invoke" \in Steps /\ "invoke" \notin BeforeWorker
  BY DEF Working, BeforeWorker, Steps, RunTypes
<1>3. Top.run \in Nat
  BY <1>1, <1>2, AtStep, FrameFields
<1>4. Quiet
  BY <1>1, <1>2, <1>3, RunStepIsQuiet, FailedAppendIsQuiet, UnchangedIsQuiet DEF StartRunning
<1>5. CASE EndDispatch /\ UNCHANGED invocations
  BY <1>1, <1>4, <1>5 DEF AnyShape, LeaveShape, EndDispatch
<1>6. CASE Goto("invoke") /\ invocations' = [invocations EXCEPT ![Top.intent] = @ + 1]
  <2>1. PICK g \in Frame : /\ g.pc = "invoke" /\ g.intent = Top.intent
                           /\ frame' = [frame EXCEPT ![depth] = g] /\ UNCHANGED depth
    BY <1>1, <1>2, <1>6, GotoWrites
  <2> QED
    BY <1>1, <1>2, <1>4, <1>6, <2>1 DEF AnyShape, WorkShape
<1> QED
  BY <1>5, <1>6 DEF StartRunning

LEMMA RecordShape == ASSUME TypeOK, RecordArtifact PROVE AnyShape
<1>1. At("invoke") /\ Top.pc = "invoke" /\ UNCHANGED invocations
  BY DEF RecordArtifact, At
<1>2. "invoke" \in Steps \ {"idle"} /\ "invoke" \in Working /\ "artifact_written" \in RunTypes
      /\ Outcomes # {} /\ {"completed", "failed"} \subseteq Working
      /\ "completed" \notin BeforeWorker /\ "failed" \notin BeforeWorker
  BY DEF Working, BeforeWorker, Steps, RunTypes, Outcomes
<1>3. Top.run \in Nat
  BY <1>1, <1>2, AtStep, FrameFields
<1>4. Quiet
  BY <1>1, <1>2, <1>3, RunStepIsQuiet, FailedAppendIsQuiet, UnchangedIsQuiet DEF RecordArtifact
<1>5. CASE EndDispatch
  BY <1>1, <1>4, <1>5 DEF AnyShape, LeaveShape, EndDispatch
<1>6. ASSUME NEW outcome \in {"completed", "failed"}, Goto(outcome)
      PROVE  AnyShape
  BY <1>1, <1>2, <1>4, <1>6, GotoIsWork DEF AnyShape
<1> QED
  BY <1>5, <1>6 DEF RecordArtifact

LEMMA ConcludeShape ==
  ASSUME TypeOK, NEW step \in Working, NEW type \in Outcomes, Conclude(step, type)
  PROVE  AnyShape
<1>1. Top.pc \in Working /\ Top.pc # "idle" /\ UNCHANGED invocations
  BY DEF Conclude, At, Working, BeforeWorker
<1>2. Quiet \/ Appends(IntentEvent(type, Top.intent))
  BY FailedAppendIsQuiet DEF Conclude, AppendIntentEvent, Append1, Appends
<1> QED
  BY <1>1, <1>2 DEF AnyShape, LeaveShape, Conclude, EndDispatch

LEMMA TrackedReleaseShape == ASSUME TypeOK, TrackedRelease PROVE AnyShape
<1>1. At("release") /\ Top.pc # "idle" /\ UNCHANGED invocations
  BY DEF TrackedRelease, At
<1>2. "release" \in Steps \ {"idle"}
  BY DEF Steps
<1>3. /\ DbOK /\ Top.intent \in Intents \union {NoIntent}
      /\ Top.owner \in Owners \union {NoOwner}
  BY <1>1, <1>2, AtStep, FrameFields
<1>4. Quiet
  BY <1>3, ClaimEventIsQuiet DEF TrackedRelease
<1> QED
  BY <1>1, <1>4 DEF AnyShape, LeaveShape, TrackedRelease

LEMMA StepShape == ASSUME TypeOK, NestedIds = FALSE, [Next]_vars PROVE AnyShape
<1>1. CASE DispatchStep
  <2>1. CASE CaptureProvenance
    BY <2>1, CaptureShape DEF CaptureProvenance, BeforeWorker, OtherTypes
  <2>2. CASE CaptureEnvironment
    BY <2>2, CaptureShape DEF CaptureEnvironment, BeforeWorker, OtherTypes
  <2>3. CASE CompleteIntent \/ FailIntent \/ AbortIntent
    BY <2>3, ConcludeShape DEF CompleteIntent, FailIntent, AbortIntent, Working, Outcomes
  <2> QED
    BY <1>1, <2>1, <2>2, <2>3, BeginShape, CreateShape, StartShape, RecordShape,
       TrackedReleaseShape
    DEF DispatchStep
<1>2. CASE Crash
  BY <1>2 DEF Crash, AnyShape, CrashShape, db
<1>3. CASE Rebuilds
  BY <1>3 DEF Rebuilds, RebuildInboxEntries, RebuildIntentProjection, RebuildClaimProjection,
                RebuildProjection, Rebuild, AnyShape, KeepShape, Quiet
<1>4. CASE UNCHANGED vars
  BY <1>4 DEF vars, calls, AnyShape, KeepShape, Quiet
<1> QED
  BY <1>1, <1>2, <1>3, <1>4, CallShape DEF Next

---------------------------------------------------------------------------
(* What a step does to the rows of one intent.                             *)

SameHistory(i) ==
  /\ RowsOf(ledger', i) = RowsOf(ledger, i)
  /\ Claimed(ledger', i) <=> Claimed(ledger, i)
  /\ RowsOf(ledger, i) # {} => LastType(ledger', i) = LastType(ledger, i)

LEMMA KeptRows ==
  ASSUME ledger \in Seq(Event), NEW i, RowsOf(ledger', i) = RowsOf(ledger, i),
         \A k \in 1 .. Len(ledger) : ledger'[k] = ledger[k]
  PROVE  SameHistory(i)
<1>1. RowsOf(ledger, i) \in SUBSET (1 .. Len(ledger)) /\ Len(ledger) \in Nat
  BY RowsArePositions
<1>2. RowsOf(ledger, i) # {} => LastOf(RowsOf(ledger, i)) \in 1 .. Len(ledger)
  BY <1>1, LastOfIsGreatest
<1>3. RowsOf(ledger, i) # {} => LastType(ledger', i) = LastType(ledger, i)
  BY <1>2 DEF LastType
<1>4. Claimed(ledger', i) <=> Claimed(ledger, i)
  BY <1>1 DEF Claimed
<1> QED
  BY <1>3, <1>4 DEF SameHistory

LEMMA OtherHistoryKept ==
  ASSUME ledger \in Seq(Event), NEW e \in Event, Appends(e), NEW i,
         e.type \notin IntentTypes \/ e.intent # i
  PROVE  SameHistory(i)
BY AppendedRows, AppendedLedger, KeptRows DEF Appends

LEMMA QuietHistory ==
  ASSUME ledger \in Seq(Event), Quiet, NEW i
  PROVE  SameHistory(i)
<1>1. CASE UNCHANGED ledger
  BY <1>1, KeptRows
<1>2. CASE \E e \in Event : Appends(e) /\ e.nested = {} /\ e.type \notin IntentTypes
  BY <1>2, OtherHistoryKept
<1> QED
  BY <1>1, <1>2 DEF Quiet

LEMMA OwnHistory ==
  ASSUME ledger \in Seq(Event), NEW e \in Event, Appends(e), e.type \in IntentTypes
  PROVE  /\ RowsOf(ledger', e.intent) = RowsOf(ledger, e.intent) \union {Len(ledger) + 1}
         /\ LastType(ledger', e.intent) = e.type
         /\ Claimed(ledger', e.intent) <=> Claimed(ledger, e.intent) \/ e.type = "intent_claimed"
<1> DEFINE i == e.intent
           n == Len(ledger)
<1>1. RowsOf(ledger, i) \in SUBSET (1 .. n) /\ n \in Nat
  BY RowsArePositions
<1>2. RowsOf(ledger', i) = RowsOf(ledger, i) \union {n + 1}
  BY AppendedRows DEF Appends
<1>3. ledger'[n + 1] = e /\ \A k \in 1 .. n : ledger'[k] = ledger[k]
  BY AppendedLedger DEF Appends
<1>4. LastOf(RowsOf(ledger', i)) = n + 1
  BY <1>1, <1>2, LastOfAppended
<1>5. LastType(ledger', i) = e.type
  BY <1>3, <1>4 DEF LastType
<1>6. Claimed(ledger', i) <=> Claimed(ledger, i) \/ e.type = "intent_claimed"
  BY <1>1, <1>2, <1>3 DEF Claimed
<1> QED
  BY <1>2, <1>5, <1>6

---------------------------------------------------------------------------
(* The ledger's part of the invariant.                                     *)

NextInHistory(e) ==
  IF RowsOf(ledger, e.intent) = {} THEN e.type \in Submissions
  ELSE e.type \in AllowedIntentTransitions[LastType(ledger, e.intent)]

LEMMA TransitionTable ==
  /\ AllowedIntentTransitions["intent_submitted"] = {"intent_claimed"}
  /\ AllowedIntentTransitions["intent_claimed"] = Outcomes
BY DEF AllowedIntentTransitions, IntentTypes, TerminalTypes, Outcomes

(* A row that continues the history of its intent keeps all of them legal. *)
LEMMA LegalAppend ==
  ASSUME ledger \in Seq(Event), LegalIntentHistory, NEW e \in Event, Appends(e),
         e.type \in IntentTypes => NextInHistory(e)
  PROVE  LegalIntentHistory'
<1> DEFINE n == Len(ledger)
           Before(i, k) == {m \in RowsOf(ledger, i) : m < k}
           After(i, k) == {m \in RowsOf(ledger', i) : m < k}
<1>1. n \in Nat /\ ledger'[n + 1] = e /\ \A k \in 1 .. n : ledger'[k] = ledger[k]
  BY AppendedLedger DEF Appends
<1>2. SUFFICES ASSUME NEW i \in Intents, NEW k \in RowsOf(ledger', i)
               PROVE  IF After(i, k) = {} THEN ledger'[k].type \in Submissions
                      ELSE ledger'[k].type
                             \in AllowedIntentTransitions[ledger'[LastOf(After(i, k))].type]
  BY DEF LegalIntentHistory, Submissions
<1>3. RowsOf(ledger, i) \in SUBSET (1 .. n)
  BY RowsArePositions
<1>4. RowsOf(ledger', i) = IF e.type \in IntentTypes /\ e.intent = i
                           THEN RowsOf(ledger, i) \union {n + 1} ELSE RowsOf(ledger, i)
  BY AppendedRows DEF Appends
<1>5. CASE k \in RowsOf(ledger, i)
  <2>1. k \in 1 .. n /\ After(i, k) = Before(i, k)
    BY <1>1, <1>3, <1>4, <1>5
  <2>2. Before(i, k) # {} => LastOf(Before(i, k)) \in 1 .. n
    <3>1. Before(i, k) \in SUBSET (1 .. n)
      BY <1>3
    <3> HIDE DEF Before, n
    <3> QED
      BY <1>1, <3>1, LastOfIsGreatest
  <2>3. IF Before(i, k) = {} THEN ledger[k].type \in Submissions
        ELSE ledger[k].type \in AllowedIntentTransitions[ledger[LastOf(Before(i, k))].type]
    BY <1>5 DEF LegalIntentHistory, Submissions
  <2> HIDE DEF Before, After, n
  <2> QED
    BY <1>1, <2>1, <2>2, <2>3
<1>6. CASE k \notin RowsOf(ledger, i)
  <2>1. k = n + 1 /\ e.type \in IntentTypes /\ e.intent = i
    BY <1>2, <1>4, <1>6
  <2>2. After(i, k) = RowsOf(ledger, i)
    BY <1>1, <1>3, <1>4, <2>1
  <2>3. RowsOf(ledger, i) # {} => LastOf(RowsOf(ledger, i)) \in 1 .. n
    BY <1>1, <1>3, LastOfIsGreatest
  <2> HIDE DEF Before, After, n
  <2> QED
    BY <1>1, <2>1, <2>2, <2>3 DEF NextInHistory, LastType
<1> QED
  BY <1>5, <1>6

LEMMA NoNestingAppend ==
  ASSUME ledger \in Seq(Event), NoNesting, NEW e \in Event, Appends(e), e.nested = {}
  PROVE  NoNesting'
<1>1. /\ Len(ledger) \in Nat
      /\ Len(ledger') = Len(ledger) + 1
      /\ \A k \in 1 .. Len(ledger) : ledger'[k] = ledger[k]
      /\ ledger'[Len(ledger) + 1] = e
  BY AppendedLedger DEF Appends
<1>2. \A k \in 1 .. Len(ledger') : k = Len(ledger) + 1 \/ k \in 1 .. Len(ledger)
  BY <1>1
<1> QED
  BY <1>1, <1>2 DEF NoNesting

LEMMA SubmissionFirstAppend ==
  ASSUME ledger \in Seq(Event), SubmissionFirst, NEW e \in Event, Appends(e),
         e.type \in Submissions => RowsOf(ledger, e.intent) = {}
  PROVE  SubmissionFirst'
<1> DEFINE n == Len(ledger)
<1>1. n \in Nat /\ ledger'[n + 1] = e /\ \A k \in 1 .. n : ledger'[k] = ledger[k]
  BY AppendedLedger DEF Appends
<1>2. SUFFICES ASSUME NEW i \in Intents, NEW j \in RowsOf(ledger', i), NEW k \in RowsOf(ledger', i),
                      ledger'[k].type \in Submissions
               PROVE  k <= j
  BY DEF SubmissionFirst
<1>3. RowsOf(ledger, i) \in SUBSET (1 .. n)
  BY RowsArePositions
<1>4. RowsOf(ledger', i) = IF e.type \in IntentTypes /\ e.intent = i
                           THEN RowsOf(ledger, i) \union {n + 1} ELSE RowsOf(ledger, i)
  BY AppendedRows DEF Appends
<1>5. CASE k \in RowsOf(ledger, i)
  <2>1. k \in 1 .. n /\ ledger[k].type \in Submissions
    BY <1>1, <1>2, <1>3, <1>5
  <2>2. j \in RowsOf(ledger, i) => k <= j
    BY <1>5, <2>1 DEF SubmissionFirst
  <2>3. j \notin RowsOf(ledger, i) => j = n + 1
    BY <1>4
  <2> QED
    BY <1>1, <2>1, <2>2, <2>3
<1>6. CASE k \notin RowsOf(ledger, i)
  <2>1. k = n + 1 /\ e.intent = i /\ e.type \in Submissions
    BY <1>1, <1>2, <1>4, <1>6
  <2>2. j = n + 1
    BY <1>4, <2>1
  <2> QED
    BY <1>1, <2>1, <2>2
<1> QED
  BY <1>5, <1>6

LEMMA SingleClaimAppend ==
  ASSUME ledger \in Seq(Event), SingleClaim, NEW e \in Event, Appends(e),
         e.type = "intent_claimed" => ~Claimed(ledger, e.intent)
  PROVE  SingleClaim'
<1> DEFINE n == Len(ledger)
<1>1. /\ n \in Nat /\ DOMAIN ledger = 1 .. n /\ DOMAIN ledger' = 1 .. n + 1
      /\ ledger'[n + 1] = e /\ \A k \in 1 .. n : ledger'[k] = ledger[k]
  BY AppendedLedger, LenProperties DEF Appends
<1>2. SUFFICES ASSUME NEW i \in Intents, NEW j \in 1 .. n + 1, NEW k \in 1 .. n + 1,
                      ledger'[j].type = "intent_claimed", ledger'[j].intent = i,
                      ledger'[k].type = "intent_claimed", ledger'[k].intent = i
               PROVE  j = k
  BY <1>1 DEF SingleClaim
<1>3. \A m \in 1 .. n : ledger[m].type = "intent_claimed" => Claimed(ledger, ledger[m].intent)
  BY <1>1 DEF Claimed, RowsOf, IntentTypes
<1>4. CASE j \in 1 .. n /\ k \in 1 .. n
  BY <1>1, <1>2, <1>4 DEF SingleClaim
<1>5. CASE j = n + 1 /\ k \in 1 .. n
  BY <1>1, <1>2, <1>3, <1>5
<1>6. CASE k = n + 1 /\ j \in 1 .. n
  BY <1>1, <1>2, <1>3, <1>6
<1> QED
  BY <1>1, <1>2, <1>4, <1>5, <1>6

LEMMA QuietKeepsLedgerInv ==
  ASSUME ledger \in Seq(Event), Quiet, NoNesting, LegalIntentHistory, SubmissionFirst, SingleClaim
  PROVE  NoNesting' /\ LegalIntentHistory' /\ SubmissionFirst' /\ SingleClaim'
<1>1. CASE UNCHANGED ledger
  BY <1>1 DEF NoNesting, LegalIntentHistory, SubmissionFirst, SingleClaim
<1>2. ASSUME NEW e \in Event, Appends(e), e.nested = {}, e.type \notin IntentTypes
      PROVE  NoNesting' /\ LegalIntentHistory' /\ SubmissionFirst' /\ SingleClaim'
  <2>1. e.type \notin Submissions /\ e.type # "intent_claimed"
    BY <1>2 DEF Submissions, IntentTypes
  <2> QED
    BY <1>2, <2>1, NoNestingAppend, LegalAppend, SubmissionFirstAppend, SingleClaimAppend
<1> QED
  BY <1>1, <1>2 DEF Quiet

LEMMA IntentEventKeepsLedgerInv ==
  ASSUME ledger \in Seq(Event), NoNesting, LegalIntentHistory, SubmissionFirst, SingleClaim,
         NEW e \in Event, Appends(e), e.nested = {}, NextInHistory(e),
         e.type \in Submissions => RowsOf(ledger, e.intent) = {},
         e.type = "intent_claimed" => ~Claimed(ledger, e.intent)
  PROVE  NoNesting' /\ LegalIntentHistory' /\ SubmissionFirst' /\ SingleClaim'
BY NoNestingAppend, LegalAppend, SubmissionFirstAppend, SingleClaimAppend

---------------------------------------------------------------------------
(* Each shape of step keeps the invariant.                                 *)

LEMMA HistoryInit == Init => HistoryInv
<1> SUFFICES ASSUME Init PROVE HistoryInv
  OBVIOUS
<1>1. ledger = <<>> /\ depth = 0 /\ Len(ledger) = 0 /\ DOMAIN ledger = {}
  BY DEF Init
<1>2. \A i : RowsOf(ledger, i) = {}
  BY <1>1 DEF RowsOf
<1>3. \A d \in 1 .. MaxDepth : frame[d] = Idle /\ frame[d].pc = "idle"
  BY DEF Init, Idle
<1>4. "idle" \notin Working /\ "idle" \notin BeforeWorker
  BY DEF Working, BeforeWorker
<1>5. NoNesting /\ LegalIntentHistory /\ SubmissionFirst /\ SingleClaim
  BY <1>1, <1>2 DEF NoNesting, LegalIntentHistory, SubmissionFirst, SingleClaim
<1>6. StackShape
  BY <1>1, <1>3 DEF StackShape
<1>7. WorkIsClaimed /\ WorkIsExclusive
  BY <1>3, <1>4 DEF WorkIsClaimed, WorkIsExclusive
<1>8. InvokedAfterClaim /\ AtMostOneInvocation
  BY <1>3, <1>4 DEF Init, InvokedAfterClaim, AtMostOneInvocation
<1> QED
  BY <1>5, <1>6, <1>7, <1>8 DEF HistoryInv

(* Calls that go on working on what they worked on, or stop.               *)
LEMMA WorkKept ==
  ASSUME HistoryInv, UNCHANGED invocations,
         \A d \in 1 .. MaxDepth : frame'[d].pc \in Working =>
           /\ frame[d].pc \in Working
           /\ frame'[d].intent = frame[d].intent
           /\ frame'[d].pc \in BeforeWorker => frame[d].pc \in BeforeWorker
           /\ SameHistory(frame[d].intent),
         \A i \in Intents : Claimed(ledger, i) => Claimed(ledger', i)
  PROVE  WorkIsClaimed' /\ WorkIsExclusive' /\ InvokedAfterClaim' /\ AtMostOneInvocation'
<1>1. BeforeWorker \subseteq Working
  BY DEF Working
<1>2. WorkIsClaimed'
  <2> SUFFICES ASSUME NEW d \in 1 .. MaxDepth, frame'[d].pc \in Working
               PROVE  /\ RowsOf(ledger', frame'[d].intent) # {}
                      /\ LastType(ledger', frame'[d].intent) = "intent_claimed"
    BY DEF WorkIsClaimed, LastType
  <2>1. /\ frame'[d].intent = frame[d].intent
        /\ RowsOf(ledger, frame[d].intent) # {}
        /\ LastType(ledger, frame[d].intent) = "intent_claimed"
        /\ SameHistory(frame[d].intent)
    BY DEF HistoryInv, WorkIsClaimed
  <2> QED
    BY <2>1 DEF SameHistory, LastType
<1>3. WorkIsExclusive'
  BY DEF HistoryInv, WorkIsExclusive
<1>4. InvokedAfterClaim'
  BY <1>1 DEF HistoryInv, InvokedAfterClaim
<1>5. AtMostOneInvocation'
  BY DEF HistoryInv, AtMostOneInvocation
<1> QED
  BY <1>2, <1>3, <1>4, <1>5

LEMMA WorkingIntent ==
  ASSUME StackShape, NEW d \in 1 .. MaxDepth, frame[d].pc \in Working, depth \in Nat
  PROVE  frame[d].intent \in Intents /\ d <= depth
BY MaxDepthAssumption DEF StackShape, Idle, Working, BeforeWorker

LEMMA HistoryKeep == ASSUME TypeOK, HistoryInv, KeepShape PROVE HistoryInv'
<1>1. ledger \in Seq(Event) /\ depth \in Nat
  BY MaxDepthAssumption DEF TypeOK
<1>2. frame' = frame /\ depth' = depth /\ UNCHANGED invocations
  BY DEF KeepShape, calls
<1>3. NoNesting /\ LegalIntentHistory /\ SubmissionFirst /\ SingleClaim /\ StackShape
  BY DEF HistoryInv
<1>4. NoNesting' /\ LegalIntentHistory' /\ SubmissionFirst' /\ SingleClaim'
  <2>1. CASE Quiet
    BY <1>1, <1>3, <2>1, QuietKeepsLedgerInv
  <2>2. CASE Submitting
    <3>1. PICK e \in Event : /\ Appends(e) /\ e.nested = {} /\ e.type \in Submissions
                             /\ e.intent \in Intents /\ RowsOf(ledger, e.intent) = {}
      BY <2>2 DEF Submitting
    <3>2. e.type # "intent_claimed" /\ NextInHistory(e)
      BY <3>1 DEF Submissions, NextInHistory
    <3> QED
      BY <1>1, <1>3, <3>1, <3>2, IntentEventKeepsLedgerInv
  <2> QED
    BY <2>1, <2>2 DEF KeepShape
<1>5. \A i \in Intents : RowsOf(ledger, i) # {} => SameHistory(i)
  <2>1. CASE Quiet
    BY <1>1, <2>1, QuietHistory
  <2>2. CASE Submitting
    BY <1>1, <2>2, OtherHistoryKept DEF Submitting
  <2> QED
    BY <2>1, <2>2 DEF KeepShape
<1>6. StackShape'
  BY <1>2, <1>3 DEF StackShape
<1>7. \A i \in Intents : Claimed(ledger, i) => Claimed(ledger', i)
  BY <1>5 DEF SameHistory, Claimed
<1>8. \A d \in 1 .. MaxDepth : frame[d].pc \in Working => SameHistory(frame[d].intent)
  BY <1>1, <1>3, <1>5, WorkingIntent DEF HistoryInv, WorkIsClaimed
<1> QED
  BY <1>2, <1>4, <1>6, <1>7, <1>8, WorkKept DEF HistoryInv

LEMMA HistoryPush == ASSUME TypeOK, HistoryInv, PushShape PROVE HistoryInv'
<1>1. /\ ledger \in Seq(Event) /\ depth \in Nat /\ MaxDepth \in Nat
      /\ depth < MaxDepth /\ DOMAIN frame = 1 .. MaxDepth
  BY MaxDepthAssumption DEF TypeOK, PushShape
<1>2. PICK f \in Frame : f.pc = "dispatch" /\ f.intent \in Intents /\ Push(f)
  BY DEF PushShape
<1>3. /\ depth' = depth + 1 /\ UNCHANGED invocations /\ Quiet
      /\ \A d \in 1 .. MaxDepth : frame'[d] = IF d = depth + 1 THEN f ELSE frame[d]
  BY <1>1, <1>2 DEF Push, PushShape
<1>4. NoNesting /\ LegalIntentHistory /\ SubmissionFirst /\ SingleClaim /\ StackShape
  BY DEF HistoryInv
<1>5. NoNesting' /\ LegalIntentHistory' /\ SubmissionFirst' /\ SingleClaim'
  BY <1>1, <1>3, <1>4, QuietKeepsLedgerInv
<1>6. StackShape'
  <2>1. depth # 0 => frame[depth].pc = "invoke"
    <3>1. depth # 0 => depth \in 1 .. MaxDepth /\ Top = frame[depth]
      BY <1>1 DEF Top
    <3> QED
      BY <1>1, <1>4, <3>1 DEF StackShape, PushShape
  <2> SUFFICES ASSUME NEW d \in 1 .. MaxDepth
               PROVE  /\ d < depth + 1 => frame'[d].pc = "invoke"
                      /\ d > depth + 1 => frame'[d] = Idle
                      /\ d <= depth + 1 => frame'[d].pc # "idle" /\ frame'[d].intent \in Intents
    BY <1>3 DEF StackShape
  <2>2. CASE d = depth + 1
    BY <1>1, <1>2, <1>3, <2>2
  <2>3. CASE d = depth
    BY <1>1, <1>3, <1>4, <2>1, <2>3 DEF StackShape
  <2>4. CASE d # depth /\ d # depth + 1
    BY <1>1, <1>3, <1>4, <2>4 DEF StackShape
  <2> QED
    BY <2>2, <2>3, <2>4
<1>7. \A i : SameHistory(i)
  BY <1>1, <1>3, QuietHistory
<1>8. "dispatch" \notin Working
  BY DEF Working, BeforeWorker
<1>9. \A d \in 1 .. MaxDepth : frame'[d].pc \in Working => frame'[d] = frame[d]
  BY <1>2, <1>3, <1>8
<1>10. \A i \in Intents : Claimed(ledger, i) => Claimed(ledger', i)
  BY <1>7 DEF SameHistory
<1> QED
  BY <1>3, <1>5, <1>6, <1>7, <1>9, <1>10, WorkKept DEF HistoryInv

LEMMA HistoryCrash == ASSUME TypeOK, HistoryInv, CrashShape PROVE HistoryInv'
<1>1. /\ ledger' = ledger /\ UNCHANGED invocations /\ depth' = 0
      /\ \A d \in 1 .. MaxDepth : frame'[d] = Idle
      /\ ledger \in Seq(Event)
  BY DEF CrashShape, TypeOK
<1>2. NoNesting' /\ LegalIntentHistory' /\ SubmissionFirst' /\ SingleClaim'
  BY <1>1, QuietKeepsLedgerInv DEF Quiet, HistoryInv
<1>3. StackShape'
  BY <1>1, MaxDepthAssumption DEF StackShape
<1>4. Idle.pc \notin Working
  BY DEF Idle, Working, BeforeWorker
<1>5. \A i \in Intents : Claimed(ledger, i) => Claimed(ledger', i)
  BY <1>1 DEF Claimed
<1> QED
  BY <1>1, <1>2, <1>3, <1>4, <1>5, WorkKept DEF HistoryInv

(* A step of the call at the top: depth is a frame, and only it changes.   *)
LEMMA TopIsAFrame ==
  ASSUME TypeOK, StackShape, Top.pc # "idle"
  PROVE  /\ depth \in 1 .. MaxDepth /\ depth \in Nat /\ Top = frame[depth]
         /\ Top.intent \in Intents /\ DOMAIN frame = 1 .. MaxDepth
         /\ MaxDepth \in Nat /\ ledger \in Seq(Event)
BY MaxDepthAssumption DEF TypeOK, Top, Idle, StackShape

LEMMA StackKept ==
  ASSUME TypeOK, StackShape, Top.pc # "idle", NEW g,
         g.pc # "idle", g.intent = Top.intent,
         frame' = [frame EXCEPT ![depth] = g], depth' = depth
  PROVE  StackShape'
<1>1. \A d \in 1 .. MaxDepth : frame'[d] = IF d = depth THEN g ELSE frame[d]
  BY TopIsAFrame
<1> QED
  BY <1>1, TopIsAFrame DEF StackShape

LEMMA HistoryClaim == ASSUME TypeOK, HistoryInv, ClaimShape PROVE HistoryInv'
<1> DEFINE i == Top.intent
           e == IntentEvent("intent_claimed", i)
<1>1. /\ NoNesting /\ LegalIntentHistory /\ SubmissionFirst /\ SingleClaim /\ StackShape
      /\ Top.pc = "dispatch" /\ Pending(i) /\ Appends(e) /\ UNCHANGED invocations
  BY DEF HistoryInv, ClaimShape, At
<1>2. /\ depth \in 1 .. MaxDepth /\ depth \in Nat /\ Top = frame[depth] /\ i \in Intents
      /\ DOMAIN frame = 1 .. MaxDepth /\ ledger \in Seq(Event)
  BY <1>1, TopIsAFrame
<1>3. /\ e \in Event /\ e.type = "intent_claimed" /\ e.intent = i /\ e.nested = {}
      /\ e.type \in IntentTypes /\ e.type \notin Submissions
  BY <1>2, EventsTyped, IntentEventSays DEF IntentTypes, Submissions
<1>4. PICK s \in {"provenance", "run"} : Goto(s)
  BY DEF ClaimShape
<1> DEFINE g == [Top EXCEPT !.pc = s]
<1>5. /\ g.pc = s /\ g.intent = i /\ frame' = [frame EXCEPT ![depth] = g] /\ depth' = depth
      /\ s # "idle" /\ s \in Working
  <2>1. At("dispatch") /\ "dispatch" \in Steps \ {"idle"} /\ s \in Steps
    BY <1>1 DEF At, Steps
  <2>2. s # "idle" /\ s \in Working
    BY DEF Working, BeforeWorker
  <2> QED
    BY <1>4, <2>1, <2>2, GotoWrites
<1> HIDE DEF i, e, g
<1>6. RowsOf(ledger, i) # {} /\ LastType(ledger, i) = "intent_submitted" /\ ~Claimed(ledger, i)
  BY <1>1, <1>2, PendingIsUnclaimed
<1>7. NextInHistory(e)
  BY <1>3, <1>6, TransitionTable DEF NextInHistory
<1>8. NoNesting' /\ LegalIntentHistory' /\ SubmissionFirst' /\ SingleClaim'
  BY <1>1, <1>2, <1>3, <1>6, <1>7, IntentEventKeepsLedgerInv
<1>9. StackShape'
  <2>1. Top.pc # "idle" /\ Top.intent = i
    BY <1>1 DEF i
  <2> QED
    BY <1>1, <1>5, <2>1, StackKept
<1>10. \A d \in 1 .. MaxDepth : frame'[d] = IF d = depth THEN g ELSE frame[d]
  BY <1>2, <1>5
<1>11. /\ RowsOf(ledger', i) # {}
       /\ LastType(ledger', i) = "intent_claimed" /\ Claimed(ledger', i)
  BY <1>1, <1>2, <1>3, OwnHistory
<1>12. \A j : j # i => SameHistory(j)
  BY <1>1, <1>2, <1>3, OtherHistoryKept
<1>13. \A d \in 1 .. MaxDepth : frame[d].pc \in Working => frame[d].intent # i
  BY <1>6 DEF HistoryInv, WorkIsClaimed
<1>14. WorkIsClaimed'
  <2> SUFFICES ASSUME NEW d \in 1 .. MaxDepth, frame'[d].pc \in Working
               PROVE  /\ RowsOf(ledger', frame'[d].intent) # {}
                      /\ LastType(ledger', frame'[d].intent) = "intent_claimed"
    BY DEF WorkIsClaimed
  <2>1. CASE d = depth
    BY <1>5, <1>10, <1>11, <2>1
  <2>2. CASE d # depth
    <3>1. /\ frame'[d] = frame[d] /\ frame[d].intent # i
          /\ RowsOf(ledger, frame[d].intent) # {}
          /\ LastType(ledger, frame[d].intent) = "intent_claimed"
      BY <1>10, <1>13, <2>2 DEF HistoryInv, WorkIsClaimed
    <3>2. SameHistory(frame[d].intent)
      BY <1>12, <3>1
    <3> QED
      BY <3>1, <3>2 DEF SameHistory
  <2> QED
    BY <2>1, <2>2
<1>15. WorkIsExclusive'
  <2> SUFFICES ASSUME NEW c \in 1 .. MaxDepth, NEW d \in 1 .. MaxDepth,
                      frame'[c].pc \in Working, frame'[d].pc \in Working,
                      frame'[c].intent = frame'[d].intent
               PROVE  c = d
    BY DEF WorkIsExclusive
  <2>1. CASE c # depth /\ d # depth
    BY <1>10, <2>1 DEF HistoryInv, WorkIsExclusive
  <2>2. CASE c = depth \/ d = depth
    BY <1>5, <1>10, <1>13, <2>2
  <2> QED
    BY <2>1, <2>2
<1>16. InvokedAfterClaim'
  <2>1. \A j \in Intents : invocations'[j] > 0 => Claimed(ledger', j)
    BY <1>1, <1>11, <1>12 DEF HistoryInv, InvokedAfterClaim, SameHistory
  <2>2. invocations[i] = 0
    BY <1>2, <1>6 DEF HistoryInv, InvokedAfterClaim, TypeOK
  <2>3. \A d \in 1 .. MaxDepth : frame'[d].pc \in BeforeWorker => invocations'[frame'[d].intent] = 0
    BY <1>1, <1>5, <1>10, <2>2 DEF HistoryInv, InvokedAfterClaim
  <2> QED
    BY <2>1, <2>3 DEF InvokedAfterClaim
<1>17. AtMostOneInvocation'
  BY <1>1 DEF HistoryInv, AtMostOneInvocation
<1> QED
  BY <1>8, <1>9, <1>14, <1>15, <1>16, <1>17 DEF HistoryInv

LEMMA HistoryWork == ASSUME TypeOK, HistoryInv, WorkShape PROVE HistoryInv'
<1> DEFINE i == Top.intent
<1>1. /\ NoNesting /\ LegalIntentHistory /\ SubmissionFirst /\ SingleClaim /\ StackShape
      /\ Top.pc \in Working /\ Top.pc # "idle" /\ Quiet /\ depth' = depth
  BY DEF HistoryInv, WorkShape, Working, BeforeWorker
<1>2. /\ depth \in 1 .. MaxDepth /\ Top = frame[depth] /\ i \in Intents
      /\ DOMAIN frame = 1 .. MaxDepth /\ ledger \in Seq(Event)
  BY <1>1, TopIsAFrame
<1>3. PICK g \in Frame :
        /\ frame' = [frame EXCEPT ![depth] = g]
        /\ g.intent = i /\ g.pc \in Working
        /\ \/ UNCHANGED invocations /\ (g.pc \in BeforeWorker => Top.pc \in BeforeWorker)
           \/ /\ Top.pc = "running" /\ g.pc = "invoke"
              /\ invocations' = [invocations EXCEPT ![i] = @ + 1]
  BY DEF WorkShape
<1>4. NoNesting' /\ LegalIntentHistory' /\ SubmissionFirst' /\ SingleClaim'
  BY <1>1, <1>2, QuietKeepsLedgerInv
<1>5. StackShape'
  BY <1>1, <1>3, StackKept DEF Working, BeforeWorker
<1>6. \A j : SameHistory(j)
  BY <1>1, <1>2, QuietHistory
<1>7. \A j \in Intents : Claimed(ledger, j) => Claimed(ledger', j)
  BY <1>6 DEF SameHistory
<1>8. \A d \in 1 .. MaxDepth : frame'[d] = IF d = depth THEN g ELSE frame[d]
  BY <1>2, <1>3
<1>9. CASE UNCHANGED invocations /\ (g.pc \in BeforeWorker => Top.pc \in BeforeWorker)
  <2>1. \A d \in 1 .. MaxDepth : frame'[d].pc \in Working =>
           /\ frame[d].pc \in Working
           /\ frame'[d].intent = frame[d].intent
           /\ frame'[d].pc \in BeforeWorker => frame[d].pc \in BeforeWorker
           /\ SameHistory(frame[d].intent)
    BY <1>1, <1>2, <1>3, <1>6, <1>8, <1>9
  <2> QED
    BY <1>4, <1>5, <1>7, <1>9, <2>1, WorkKept DEF HistoryInv
<1>10. CASE /\ Top.pc = "running" /\ g.pc = "invoke"
            /\ invocations' = [invocations EXCEPT ![i] = @ + 1]
  <2>1. "invoke" \notin BeforeWorker /\ "running" \in BeforeWorker
    BY DEF BeforeWorker
  <2>2. /\ RowsOf(ledger, i) # {} /\ LastType(ledger, i) = "intent_claimed"
        /\ invocations[i] = 0
    BY <1>1, <1>2, <1>10, <2>1 DEF HistoryInv, WorkIsClaimed, InvokedAfterClaim
  <2>3. Claimed(ledger, i)
    BY <1>1, <1>2, <2>2, LastDecides DEF Claimed, LastType
  <2>4. /\ invocations'[i] = 1
        /\ \A j \in Intents : j # i => invocations'[j] = invocations[j]
    BY <1>2, <1>10, <2>2 DEF TypeOK
  <2>5. WorkIsClaimed'
    <3> SUFFICES ASSUME NEW d \in 1 .. MaxDepth, frame'[d].pc \in Working
                 PROVE  /\ RowsOf(ledger', frame'[d].intent) # {}
                        /\ LastType(ledger', frame'[d].intent) = "intent_claimed"
      BY DEF WorkIsClaimed
    <3>1. frame[d].pc \in Working /\ frame'[d].intent = frame[d].intent
      BY <1>1, <1>2, <1>3, <1>8
    <3> QED
      BY <1>6, <3>1 DEF HistoryInv, WorkIsClaimed, SameHistory
  <2>6. WorkIsExclusive'
    <3>1. \A d \in 1 .. MaxDepth : frame'[d].pc \in Working =>
            frame[d].pc \in Working /\ frame'[d].intent = frame[d].intent
      BY <1>1, <1>2, <1>3, <1>8
    <3> QED
      BY <3>1 DEF HistoryInv, WorkIsExclusive
  <2>7. InvokedAfterClaim'
    <3>1. \A j \in Intents : invocations'[j] > 0 => Claimed(ledger', j)
      BY <1>7, <2>3, <2>4 DEF HistoryInv, InvokedAfterClaim
    <3>2. ASSUME NEW d \in 1 .. MaxDepth, frame'[d].pc \in BeforeWorker
          PROVE  invocations'[frame'[d].intent] = 0
      <4>1. d # depth /\ frame'[d] = frame[d] /\ frame[d].pc \in Working
        BY <1>8, <1>10, <2>1, <3>2 DEF Working
      <4>2. frame[d].intent # i
        BY <1>1, <1>2, <4>1 DEF HistoryInv, WorkIsExclusive
      <4>3. frame[d].intent \in Intents
        BY <1>1, <1>2, <4>1, WorkingIntent
      <4>4. invocations[frame[d].intent] = 0
        BY <3>2, <4>1 DEF HistoryInv, InvokedAfterClaim
      <4> QED
        BY <2>4, <4>1, <4>2, <4>3, <4>4
    <3> QED
      BY <3>1, <3>2 DEF InvokedAfterClaim
  <2>8. AtMostOneInvocation'
    BY <2>4 DEF HistoryInv, AtMostOneInvocation
  <2> QED
    BY <1>4, <1>5, <2>5, <2>6, <2>7, <2>8 DEF HistoryInv
<1> QED
  BY <1>3, <1>9, <1>10

LEMMA HistoryLeave == ASSUME TypeOK, HistoryInv, LeaveShape PROVE HistoryInv'
<1> DEFINE i == Top.intent
<1>1. /\ NoNesting /\ LegalIntentHistory /\ SubmissionFirst /\ SingleClaim /\ StackShape
      /\ Top.pc # "idle" /\ UNCHANGED invocations
  BY DEF HistoryInv, LeaveShape
<1>2. /\ depth \in 1 .. MaxDepth /\ depth \in Nat /\ MaxDepth \in Nat
      /\ Top = frame[depth] /\ i \in Intents
      /\ DOMAIN frame = 1 .. MaxDepth /\ ledger \in Seq(Event)
  BY <1>1, TopIsAFrame
<1>3. /\ StackShape'
      /\ frame'[depth].pc \notin Working
      /\ \A d \in 1 .. MaxDepth : d # depth => frame'[d] = frame[d]
  <2>1. CASE Pop
    <3>1. \A d \in 1 .. MaxDepth : frame'[d] = IF d = depth THEN Idle ELSE frame[d]
      BY <1>2, <2>1 DEF Pop
    <3>2. StackShape'
      <4> SUFFICES ASSUME NEW d \in 1 .. MaxDepth
                   PROVE  /\ d < depth - 1 => frame'[d].pc = "invoke"
                          /\ d > depth - 1 => frame'[d] = Idle
                          /\ d <= depth - 1 => frame'[d].pc # "idle" /\ frame'[d].intent \in Intents
        BY <2>1 DEF StackShape, Pop
      <4>1. CASE d = depth
        BY <1>2, <3>1, <4>1
      <4>2. CASE d # depth
        BY <1>1, <1>2, <3>1, <4>2 DEF StackShape
      <4> QED
        BY <4>1, <4>2
    <3>3. Idle.pc \notin Working
      BY DEF Idle, Working, BeforeWorker
    <3> QED
      BY <1>2, <3>1, <3>2, <3>3
  <2>2. CASE Goto("release")
    <3> DEFINE g == [Top EXCEPT !.pc = "release"]
    <3>1. /\ g.pc = "release" /\ g.intent = i
          /\ frame' = [frame EXCEPT ![depth] = g] /\ depth' = depth
      BY <1>2, <2>2 DEF Goto, TypeOK, Frame
    <3> HIDE DEF g
    <3>2. StackShape'
      BY <1>1, <3>1, StackKept
    <3> QED
      BY <1>2, <3>1, <3>2 DEF Working, BeforeWorker
  <2> QED
    BY <2>1, <2>2 DEF LeaveShape
<1>4. CASE Quiet
  <2>1. NoNesting' /\ LegalIntentHistory' /\ SubmissionFirst' /\ SingleClaim'
    BY <1>1, <1>2, <1>4, QuietKeepsLedgerInv
  <2>2. \A j : SameHistory(j)
    BY <1>2, <1>4, QuietHistory
  <2>3. \A d \in 1 .. MaxDepth : frame'[d].pc \in Working =>
           /\ frame[d].pc \in Working
           /\ frame'[d].intent = frame[d].intent
           /\ frame'[d].pc \in BeforeWorker => frame[d].pc \in BeforeWorker
           /\ SameHistory(frame[d].intent)
    BY <1>3, <2>2
  <2>4. \A j \in Intents : Claimed(ledger, j) => Claimed(ledger', j)
    BY <2>2 DEF SameHistory
  <2> QED
    BY <1>1, <1>3, <2>1, <2>3, <2>4, WorkKept DEF HistoryInv
<1>5. ASSUME Top.pc \in Working, NEW t \in Outcomes, Appends(IntentEvent(t, i))
      PROVE  HistoryInv'
  <2> DEFINE e == IntentEvent(t, i)
  <2>1. /\ e \in Event /\ e.type = t /\ e.intent = i /\ e.nested = {} /\ Appends(e)
        /\ e.type \in IntentTypes /\ e.type \notin Submissions /\ e.type # "intent_claimed"
    <3>1. t \in IntentTypes /\ t \notin Submissions /\ t # "intent_claimed"
      BY DEF IntentTypes, Submissions, Outcomes
    <3> QED
      BY <1>2, <1>5, <3>1, EventsTyped, IntentEventSays
  <2> HIDE DEF e
  <2>2. RowsOf(ledger, i) # {} /\ LastType(ledger, i) = "intent_claimed"
    BY <1>2, <1>5 DEF HistoryInv, WorkIsClaimed
  <2>3. NextInHistory(e)
    BY <2>1, <2>2, TransitionTable DEF NextInHistory
  <2>4. NoNesting' /\ LegalIntentHistory' /\ SubmissionFirst' /\ SingleClaim'
    BY <1>1, <1>2, <2>1, <2>3, IntentEventKeepsLedgerInv
  <2>5. \A j : j # i => SameHistory(j)
    BY <1>2, <2>1, OtherHistoryKept
  <2>6. Claimed(ledger, i) => Claimed(ledger', i)
    BY <1>2, <2>1, OwnHistory
  <2>7. \A j \in Intents : Claimed(ledger, j) => Claimed(ledger', j)
    BY <2>5, <2>6 DEF SameHistory
  <2>8. \A d \in 1 .. MaxDepth : frame'[d].pc \in Working =>
           /\ frame[d].pc \in Working
           /\ frame'[d].intent = frame[d].intent
           /\ frame'[d].pc \in BeforeWorker => frame[d].pc \in BeforeWorker
           /\ SameHistory(frame[d].intent)
    <3> SUFFICES ASSUME NEW d \in 1 .. MaxDepth, frame'[d].pc \in Working
                 PROVE  frame'[d] = frame[d] /\ frame[d].intent # i
      BY <2>5
    <3>1. d # depth /\ frame'[d] = frame[d]
      BY <1>3
    <3> QED
      BY <1>2, <1>5, <3>1 DEF HistoryInv, WorkIsExclusive
  <2> QED
    BY <1>1, <1>3, <2>4, <2>7, <2>8, WorkKept DEF HistoryInv
<1> QED
  BY <1>4, <1>5 DEF LeaveShape

LEMMA HistoryNext ==
  ASSUME TypeOK, HistoryInv, NestedIds = FALSE, [Next]_vars
  PROVE  HistoryInv'
BY StepShape, HistoryKeep, HistoryPush, HistoryClaim, HistoryWork, HistoryLeave, HistoryCrash
DEF AnyShape

---------------------------------------------------------------------------
(* What follows for every behaviour.                                       *)

(* The history of every intent, and what the calls in progress know of it, *)
(* is consistent in every reachable state.                                 *)
THEOREM HistoryCorrect ==
  ASSUME NestedIds = FALSE
  PROVE  Spec => []HistoryInv
<1>1. TypeOK /\ HistoryInv /\ [Next]_vars => HistoryInv'
  BY HistoryNext
<1> QED
  BY <1>1, HistoryInit, TypeCorrect, PTL DEF Spec

(* No worker is ever invoked twice for one intent, whatever crashes, fails,*)
(* or calls back.                                                          *)
THEOREM InvokedOnce ==
  ASSUME NestedIds = FALSE
  PROVE  Spec => []AtMostOneInvocation
<1>1. HistoryInv => AtMostOneInvocation
  BY DEF HistoryInv
<1> QED
  BY <1>1, HistoryCorrect, PTL

(* The dispatcher claims no intent twice: check_duplicate_claims of the    *)
(* auditor has nothing to report, ever.                                    *)
THEOREM ClaimedOnce ==
  ASSUME NestedIds = FALSE
  PROVE  Spec => []SingleClaim
<1>1. HistoryInv => SingleClaim
  BY DEF HistoryInv
<1> QED
  BY <1>1, HistoryCorrect, PTL

(* The ledger tells a legal story of every intent: check_intent_transitions*)
(* of the auditor has nothing to report, ever.                             *)
THEOREM HistoryIsLegal ==
  ASSUME NestedIds = FALSE
  PROVE  Spec => []LegalIntentHistory
<1>1. HistoryInv => LegalIntentHistory
  BY DEF HistoryInv
<1> QED
  BY <1>1, HistoryCorrect, PTL

---------------------------------------------------------------------------
(* The statuses read from the ledger implement the abstract lifecycle.     *)

(* Whatever a step does, it says nothing, or the next thing to be said of  *)
(* one intent.                                                             *)
LEMMA NextRowOnly ==
  ASSUME TypeOK, HistoryInv, AnyShape
  PROVE  \/ Quiet
         \/ \E e \in Event : /\ Appends(e) /\ e.type \in IntentTypes
                             /\ e.intent \in Intents /\ NextInHistory(e)
<1>1. ledger \in Seq(Event)
  BY DEF TypeOK
<1>2. CASE Submitting
  BY <1>2 DEF Submitting, NextInHistory, Submissions, IntentTypes
<1>3. ASSUME Top.pc # "idle", NEW t \in {"intent_claimed"} \union Outcomes,
             Appends(IntentEvent(t, Top.intent)),
             RowsOf(ledger, Top.intent) # {},
             t \in AllowedIntentTransitions[LastType(ledger, Top.intent)]
      PROVE  \E e \in Event : /\ Appends(e) /\ e.type \in IntentTypes
                              /\ e.intent \in Intents /\ NextInHistory(e)
  <2> DEFINE e == IntentEvent(t, Top.intent)
  <2>1. t \in IntentTypes
    BY DEF Outcomes, IntentTypes
  <2>2. Top.intent \in Intents
    BY <1>3, TopIsAFrame DEF HistoryInv
  <2>3. e \in Event /\ e.type = t /\ e.intent = Top.intent
    <3>1. t \in IntentTypes \union RunTypes \union OtherTypes
          /\ Top.intent \in Intents \union {NoIntent}
      BY <2>1, <2>2
    <3>2. e \in Event
      BY <3>1, EventsTyped
    <3> QED
      BY <3>2, IntentEventSays
  <2>4. NextInHistory(e)
    BY <1>3, <2>3 DEF NextInHistory
  <2> QED
    BY <1>3, <2>1, <2>2, <2>3, <2>4
<1>4. CASE ClaimShape
  <2>1. Top.pc # "idle" /\ Top.intent \in Intents
    BY <1>4, TopIsAFrame DEF ClaimShape, At, HistoryInv
  <2>2. RowsOf(ledger, Top.intent) # {} /\ LastType(ledger, Top.intent) = "intent_submitted"
    BY <1>1, <1>4, <2>1, PendingIsUnclaimed DEF ClaimShape, HistoryInv
  <2> QED
    BY <1>3, <1>4, <2>1, <2>2, TransitionTable DEF ClaimShape
<1>5. ASSUME Top.pc \in Working, NEW t \in Outcomes, Appends(IntentEvent(t, Top.intent))
      PROVE  \E e \in Event : /\ Appends(e) /\ e.type \in IntentTypes
                              /\ e.intent \in Intents /\ NextInHistory(e)
  <2>1. Top.pc # "idle"
    BY <1>5 DEF Working, BeforeWorker
  <2>2. depth \in 1 .. MaxDepth /\ Top = frame[depth]
    BY <2>1, TopIsAFrame DEF HistoryInv
  <2>3. RowsOf(ledger, Top.intent) # {} /\ LastType(ledger, Top.intent) = "intent_claimed"
    BY <1>5, <2>2 DEF HistoryInv, WorkIsClaimed
  <2> QED
    BY <1>3, <1>5, <2>1, <2>3, TransitionTable
<1>6. CASE LeaveShape
  BY <1>5, <1>6 DEF LeaveShape
<1> QED
  BY <1>2, <1>4, <1>6 DEF AnyShape, KeepShape, PushShape, WorkShape, CrashShape, Quiet

StatusRead(i) ==
  Status(ledger, i) = IF RowsOf(ledger, i) = {} THEN "NONE" ELSE StatusByType[LastType(ledger, i)]

LEMMA StatusesRead ==
  TypeOK /\ HistoryInv => \A i \in Intents : StatusRead(i)
BY StatusIsLast DEF TypeOK, HistoryInv, StatusRead

LEMMA StatusesReadNext ==
  (TypeOK /\ HistoryInv)' => (\A i \in Intents : StatusRead(i))'
BY StatusesRead, PTL

LEMMA KeptStatus ==
  ASSUME TypeOK, HistoryInv, TypeOK', HistoryInv', NEW i \in Intents, SameHistory(i)
  PROVE  Status(ledger', i) = Status(ledger, i)
BY StatusesRead, StatusesReadNext DEF StatusRead, SameHistory

LEMMA LifecycleTable ==
  ASSUME NEW t \in IntentTypes
  PROVE  /\ StatusByType[t] \in Abstract!Statuses
         /\ t \in Submissions => StatusByType[t] \in Abstract!AllowedNext["NONE"]
         /\ \A u \in AllowedIntentTransitions[t] :
              StatusByType[u] \in Abstract!AllowedNext[StatusByType[t]]
BY DEF StatusByType, IntentTypes, TerminalTypes, AllowedIntentTransitions, Submissions,
       Abstract!AllowedNext, Abstract!Statuses, Abstract!Terminal

LEMMA LifecycleInit == Init => Abstract!Init
BY DEF Init, Abstract!Init, Status, RowsLike

statuses == [i \in Intents |-> Status(ledger, i)]

LEMMA LifecycleStep ==
  ASSUME TypeOK, HistoryInv, TypeOK', HistoryInv', AnyShape
  PROVE  [Abstract!Next]_statuses
<1>1. ledger \in Seq(Event)
  BY DEF TypeOK
<1>2. CASE Quiet
  <2>1. \A i \in Intents : Status(ledger', i) = Status(ledger, i)
    BY <1>1, <1>2, QuietHistory, KeptStatus
  <2> QED
    BY <2>1 DEF statuses
<1>3. ASSUME NEW e \in Event, Appends(e), e.type \in IntentTypes, e.intent \in Intents,
             NextInHistory(e)
      PROVE  Abstract!Next
  <2> DEFINE i == e.intent
             s == StatusByType[e.type]
  <2>1. \A j \in Intents : j # i => Status(ledger', j) = Status(ledger, j)
    BY <1>1, <1>3, OtherHistoryKept, KeptStatus
  <2>2. Status(ledger', i) = s
    BY <1>1, <1>3, OwnHistory, StatusesReadNext DEF StatusRead
  <2>3. s \in Abstract!Statuses /\ s \in Abstract!AllowedNext[Status(ledger, i)]
    <3>1. Status(ledger, i) = IF RowsOf(ledger, i) = {} THEN "NONE"
                              ELSE StatusByType[LastType(ledger, i)]
      BY <1>3, StatusesRead DEF StatusRead
    <3>2. RowsOf(ledger, i) # {} => LastType(ledger, i) \in IntentTypes
      BY <1>1, <1>3, LastDecides DEF HistoryInv, LastType, RowsOf
    <3> QED
      BY <1>3, <3>1, <3>2, LifecycleTable DEF NextInHistory
  <2> HIDE DEF i, s
  <2>4. statuses' = [statuses EXCEPT ![i] = s]
    BY <2>1, <2>2 DEF statuses
  <2>5. i \in Intents /\ statuses[i] = Status(ledger, i)
    BY <1>3 DEF i, statuses
  <2>6. Abstract!Advance(i, s)
    BY <2>3, <2>4, <2>5 DEF Abstract!Advance, statuses
  <2> QED
    BY <2>3, <2>5, <2>6 DEF Abstract!Next
<1> QED
  BY <1>2, <1>3, NextRowOnly

(* The inbox and the dispatcher implement the abstract lifecycle: read from*)
(* the ledger the way get_intent_status reads it, a status moves only as   *)
(* ALLOWED_INTENT_TRANSITIONS says, one intent at a time, and a terminal   *)
(* one never moves.                                                        *)
THEOREM LifecycleImplemented ==
  ASSUME NestedIds = FALSE
  PROVE  Spec => ImplementsLifecycle
<1>1. Init => Abstract!Init
  BY LifecycleInit
<1>2. TypeOK /\ TypeOK' /\ HistoryInv /\ HistoryInv' /\ [Next]_vars => [Abstract!Next]_statuses
  BY StepShape, LifecycleStep
<1> QED
  BY <1>1, <1>2, TypeCorrect, HistoryCorrect, PTL DEF Spec, ImplementsLifecycle, Abstract!Spec, statuses

===========================================================================
