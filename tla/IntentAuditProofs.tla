------------------------ MODULE IntentAuditProofs -------------------------
(***************************************************************************)
(* What a dispatch may rely on, and what the auditor finds: theorems about *)
(* IntentDispatch, for any number of intents, owners, events, nested       *)
(* dispatches and faults.                                                  *)
(***************************************************************************)
EXTENDS IntentTableProofs

---------------------------------------------------------------------------
(* Who works on a claimed intent.                                          *)

(* Calls end or go on: none begins, none changes hands.                    *)
FramesKept ==
  /\ depth' \in 0 .. depth
  /\ \A d \in 1 .. depth' : /\ frame'[d].intent = frame[d].intent
                            /\ frame'[d].owner = frame[d].owner
                            /\ frame'[d].claim = frame[d].claim

(* No claim becomes active.                                                *)
ClaimsOnlyEnd ==
  \A i \in Intents : ActiveClaim(ledger', i) \in {NoId, ActiveClaim(ledger, i)}

ClaimsAnew(i, o) == CanCall /\ Claimable(i, o) /\ EstablishClaim(i, o)

PushesUntracked ==
  /\ CanCall /\ UNCHANGED db
  /\ \E i \in Intents, named, capture \in BOOLEAN : Push(NewFrame(i, named, NoOwner, NoId, capture))

OwnerStep ==
  \/ FramesKept /\ ClaimsOnlyEnd
  \/ PushesUntracked
  \/ \E i \in Intents, o \in Owners :
       /\ ClaimsAnew(i, o)
       /\ \/ UNCHANGED calls
          \/ \E named, capture \in BOOLEAN : Push(NewFrame(i, named, o, Here, capture))

LEMMA SameFramesKept == ASSUME TypeOK, UNCHANGED calls PROVE FramesKept
BY DEF TypeOK, calls, FramesKept

LEMMA TopFrameKept ==
  ASSUME TypeOK, depth # 0,
         \/ Pop
         \/ \E step : Goto(step)
         \/ \E step, r : /\ frame' = [frame EXCEPT ![depth].pc = step, ![depth].run = r]
                         /\ UNCHANGED depth
  PROVE  FramesKept
<1>1. depth \in 1 .. MaxDepth /\ MaxDepth \in Nat /\ frame \in [1 .. MaxDepth -> Frame]
  BY MaxDepthAssumption DEF TypeOK
<1>2. CASE Pop
  <2>1. /\ depth' = depth - 1
        /\ \A d \in 1 .. MaxDepth : d # depth => frame'[d] = frame[d]
    BY <1>1, <1>2 DEF Pop
  <2>2. depth' \in 0 .. depth /\ \A d \in 1 .. depth' : d # depth /\ d \in 1 .. MaxDepth
    BY <1>1, <2>1
  <2> QED
    BY <2>1, <2>2 DEF FramesKept
<1>3. \A d \in 1 .. depth : d \in 1 .. MaxDepth
  BY <1>1
<1>4. ASSUME NEW g, frame' = [frame EXCEPT ![depth] = g], UNCHANGED depth,
             g.intent = frame[depth].intent, g.owner = frame[depth].owner,
             g.claim = frame[depth].claim
      PROVE  FramesKept
  <2>1. \A d \in 1 .. depth : frame'[d] = IF d = depth THEN g ELSE frame[d]
    BY <1>1, <1>3, <1>4
  <2>2. depth \in 0 .. depth
    BY <1>1
  <2>3. depth' = depth
    BY <1>4
  <2> QED
    BY <1>4, <2>1, <2>2, <2>3 DEF FramesKept
<1>5. ASSUME NEW step, NEW r
      PROVE  LET g == [frame[depth] EXCEPT !.pc = step]
                 h == [frame[depth] EXCEPT !.pc = step, !.run = r]
             IN  /\ g.intent = frame[depth].intent /\ g.owner = frame[depth].owner
                 /\ g.claim = frame[depth].claim
                 /\ h.intent = frame[depth].intent /\ h.owner = frame[depth].owner
                 /\ h.claim = frame[depth].claim
  <2>1. frame[depth] \in Frame
    BY <1>1
  <2> QED
    BY <2>1 DEF Frame
<1>6. ASSUME NEW step, Goto(step) PROVE FramesKept
  <2>1. frame' = [frame EXCEPT ![depth] = [frame[depth] EXCEPT !.pc = step]]
    BY <1>6 DEF Goto
  <2> QED
    BY <1>4, <1>5, <1>6, <2>1 DEF Goto
<1>7. ASSUME NEW step, NEW r, frame' = [frame EXCEPT ![depth].pc = step, ![depth].run = r],
             UNCHANGED depth
      PROVE  FramesKept
  <2> DEFINE h == [frame[depth] EXCEPT !.pc = step, !.run = r]
  <2>1. frame' = [frame EXCEPT ![depth] = h]
    BY <1>1, <1>7
  <2>2. /\ h.intent = frame[depth].intent /\ h.owner = frame[depth].owner
        /\ h.claim = frame[depth].claim
    BY <1>5
  <2> HIDE DEF h
  <2> QED
    BY <1>4, <1>7, <2>1, <2>2
<1> QED
  BY <1>2, <1>6, <1>7

LEMMA DispatchStepKeepsFrames == ASSUME TypeOK, DispatchStep PROVE FramesKept
<1>1. depth # 0
  BY DEF DispatchStep, BeginDispatch, CaptureProvenance, CaptureEnvironment, Capture,
         CreateRun, StartRunning, RecordArtifact, CompleteIntent, FailIntent, AbortIntent,
         Conclude, TrackedRelease, At, Top, Idle
<1>2. ASSUME EndDispatch PROVE FramesKept
  BY <1>1, <1>2, TopFrameKept DEF EndDispatch
<1>3. ASSUME NEW step, Goto(step) PROVE FramesKept
  BY <1>1, <1>3, TopFrameKept
<1>4. CASE CreateRun
  BY <1>1, <1>2, <1>4, TopFrameKept DEF CreateRun
<1>5. CASE TrackedRelease
  BY <1>1, <1>5, TopFrameKept DEF TrackedRelease
<1>6. CASE BeginDispatch
  BY <1>2, <1>3, <1>6 DEF BeginDispatch
<1>7. CASE CaptureProvenance \/ CaptureEnvironment
  BY <1>3, <1>7 DEF CaptureProvenance, CaptureEnvironment, Capture
<1>8. CASE StartRunning \/ RecordArtifact
  BY <1>2, <1>3, <1>8 DEF StartRunning, RecordArtifact
<1>9. CASE CompleteIntent \/ FailIntent \/ AbortIntent
  BY <1>2, <1>9 DEF CompleteIntent, FailIntent, AbortIntent, Conclude
<1> QED
  BY <1>4, <1>5, <1>6, <1>7, <1>8, <1>9 DEF DispatchStep

LEMMA NoNewClaim ==
  ASSUME TypeOK, ClaimInv, DispatchWrites \/ WritesSubmission \/ Rebuilds
  PROVE  ClaimsOnlyEnd
<1>1. ledger \in Seq(Event)
  BY DEF TypeOK
<1>2. CASE UNCHANGED ledger
  BY <1>2 DEF ClaimsOnlyEnd
<1>3. ASSUME NEW e \in Event, Appends(e), e.type \notin ClaimTypes PROVE ClaimsOnlyEnd
  BY <1>1, <1>3, OtherClaimsKept DEF ClaimsOnlyEnd
<1>4. CASE WritesNote \/ WritesIntent \/ WritesRun \/ WritesSubmission
  BY <1>2, <1>3, <1>4, TypesApart
  DEF WritesNote, db, WritesIntent, WritesRun, WritesSubmission
<1>5. ASSUME NEW i \in Intents \union {NoIntent}, NEW o \in Owners, WritesRelease(i, o)
      PROVE  ClaimsOnlyEnd
  <2>1. PICK e \in Event : Appends(e) /\ e.intent = i
    BY <1>5, ClaimWriteEvent
  <2>2. \A j \in Intents : j # i => ActiveClaim(ledger', j) = ActiveClaim(ledger, j)
    BY <1>1, <2>1, OtherClaimsKept
  <2>3. i \in Intents => ActiveClaim(ledger', i) = NoId
    BY <1>1, <1>5, ReleaseEndsTheClaim DEF WritesRelease
  <2> QED
    BY <2>2, <2>3 DEF ClaimsOnlyEnd
<1>6. CASE Rebuilds
  BY <1>2, <1>6
  DEF Rebuilds, RebuildInboxEntries, RebuildIntentProjection, RebuildClaimProjection,
      RebuildProjection, Rebuild
<1> QED
  BY <1>4, <1>5, <1>6 DEF DispatchWrites

LEMMA CallOwners == ASSUME TypeOK, ClaimInv, Call PROVE OwnerStep
<1>1. PICK i \in Intents :
        \/ SubmitAccepted(i)
        \/ SubmitRejected(i)
        \/ \E o \in Owners \union {NoOwner} : ClaimIntent(i, o) \/ CallRelease(i, o)
        \/ \E named \in BOOLEAN, capture \in Captures :
             \/ Dispatch(i, named, capture)
             \/ \E o \in Owners \union {NoOwner} : DispatchAndTrack(i, named, o, capture)
  BY DEF Call
<1>2. DbOK /\ Captures \subseteq BOOLEAN
  BY TypeParts, CapturesAssumption
<1>3. ASSUME AppendFails \/ \E o \in Owners \union {NoOwner} : RejectClaim(i, o),
             UNCHANGED calls
      PROVE  OwnerStep
  <2>1. DispatchWrites
    BY <1>3, FailureWrites, RefusalWrites DEF RejectClaim, DispatchWrites, NoId
  <2> QED
    BY <1>3, <2>1, SameFramesKept, NoNewClaim DEF OwnerStep
<1>4. CASE SubmitAccepted(i) \/ SubmitRejected(i)
  <2>1. Payloads \subseteq SUBSET Intents
    BY DEF Payloads
  <2>2. UNCHANGED calls
    BY <1>4 DEF SubmitAccepted, SubmitRejected, Submit
  <2>3. WritesSubmission \/ WritesNote
    BY <1>4, <2>1, SubmitWrites DEF SubmitAccepted, SubmitRejected, Submissions
  <2> QED
    BY <2>2, <2>3, SameFramesKept, NoNewClaim DEF OwnerStep, DispatchWrites
<1>5. ASSUME NEW o \in Owners \union {NoOwner}, ClaimIntent(i, o) PROVE OwnerStep
  <2>1. UNCHANGED calls /\ CanCall
    BY <1>5 DEF ClaimIntent
  <2>2. ClaimsAnew(i, o) \/ AppendFails \/ RejectClaim(i, o)
    BY <1>5 DEF ClaimIntent, ClaimsAnew
  <2>3. ClaimsAnew(i, o) => o \in Owners
    BY DEF ClaimsAnew, Claimable
  <2> QED
    BY <1>3, <2>1, <2>2, <2>3 DEF OwnerStep
<1>6. ASSUME NEW o \in Owners \union {NoOwner}, CallRelease(i, o) PROVE OwnerStep
  <2>1. UNCHANGED calls /\ ReleaseClaim(i, o)
    BY <1>6 DEF CallRelease
  <2>2. DispatchWrites
    BY <1>2, <2>1, ReleaseWrites
  <2> QED
    BY <2>1, <2>2, SameFramesKept, NoNewClaim DEF OwnerStep
<1>7. ASSUME NEW named \in BOOLEAN, NEW capture \in Captures, Dispatch(i, named, capture)
      PROVE  OwnerStep
  BY <1>2, <1>7 DEF Dispatch, OwnerStep, PushesUntracked
<1>8. ASSUME NEW named \in BOOLEAN, NEW capture \in Captures,
             NEW o \in Owners \union {NoOwner}, DispatchAndTrack(i, named, o, capture)
      PROVE  OwnerStep
  <2>1. \/ ClaimsAnew(i, o) /\ Push(NewFrame(i, named, o, Here, capture))
        \/ AppendFails /\ UNCHANGED calls
        \/ RejectClaim(i, o) /\ UNCHANGED calls
    BY <1>8 DEF DispatchAndTrack, ClaimsAnew
  <2>2. ClaimsAnew(i, o) => o \in Owners
    BY DEF ClaimsAnew, Claimable
  <2> QED
    BY <1>2, <1>3, <2>1, <2>2 DEF OwnerStep
<1> QED
  BY <1>1, <1>4, <1>5, <1>6, <1>7, <1>8

LEMMA NextOwners == ASSUME TypeOK, ClaimInv, [Next]_vars PROVE OwnerStep
<1>1. CASE DispatchStep
  BY <1>1, DispatchStepWrites, DispatchStepKeepsFrames, NoNewClaim DEF OwnerStep
<1>2. CASE Rebuilds
  <2>1. UNCHANGED calls
    BY <1>2
    DEF Rebuilds, RebuildInboxEntries, RebuildIntentProjection, RebuildClaimProjection,
        RebuildProjection, Rebuild
  <2> QED
    BY <1>2, <2>1, SameFramesKept, NoNewClaim DEF OwnerStep
<1>3. CASE Crash
  <2>1. FramesKept
    BY <1>3 DEF Crash, FramesKept, TypeOK
  <2> QED
    BY <1>3, <2>1 DEF Crash, db, OwnerStep, ClaimsOnlyEnd
<1>4. CASE UNCHANGED vars
  <2>1. FramesKept
    BY <1>4, SameFramesKept DEF vars, calls
  <2> QED
    BY <1>4, <2>1 DEF vars, OwnerStep, ClaimsOnlyEnd
<1> QED
  BY <1>1, <1>2, <1>3, <1>4, CallOwners DEF Next

(* A call that waits for its worker has its intent RUNNING: nobody claims  *)
(* that intent.                                                            *)
LEMMA CallersAreRunning ==
  ASSUME TypeOK, HistoryInv, NEW i \in Intents, NEW o, ClaimsAnew(i, o), NEW d \in 1 .. depth
  PROVE  frame[d].intent # i
<1>1. ledger \in Seq(Event) /\ depth \in 0 .. MaxDepth /\ MaxDepth \in Nat
  BY MaxDepthAssumption DEF TypeOK
<1>2. d \in 1 .. MaxDepth /\ (d = depth \/ d < depth) /\ depth # 0
  BY <1>1
<1>3. frame[d].pc = "invoke"
  <2>1. CASE d < depth
    BY <1>2, <2>1 DEF HistoryInv, StackShape
  <2>2. CASE d = depth
    <3>1. Top = frame[d]
      BY <1>2, <2>2 DEF Top
    <3>2. frame[d].pc # "idle"
      BY <1>2, <2>2, <1>1 DEF HistoryInv, StackShape
    <3> QED
      BY <3>1, <3>2 DEF ClaimsAnew, CanCall
  <2> QED
    BY <1>2, <2>1, <2>2
<1>4. LastType(ledger, frame[d].intent) = "intent_claimed"
  BY <1>2, <1>3 DEF HistoryInv, WorkIsClaimed, Working
<1>5. LastType(ledger, i) = "intent_submitted"
  BY <1>1, PendingIsUnclaimed DEF HistoryInv, ClaimsAnew, Claimable
<1> QED
  BY <1>4, <1>5

LEMMA OwnersKept ==
  ASSUME TypeOK, HistoryInv, ClaimInv, NoForeignOwner, OwnerStep
  PROVE  NoForeignOwner'
<1>1. /\ ledger \in Seq(Event) /\ depth \in 0 .. MaxDepth /\ MaxDepth \in Nat
      /\ frame \in [1 .. MaxDepth -> Frame]
  BY MaxDepthAssumption DEF TypeOK
<1>2. \A d \in 1 .. depth : d \in 1 .. MaxDepth /\ frame[d].intent \in Intents
  BY <1>1 DEF HistoryInv, StackShape
<1>3. CASE FramesKept /\ ClaimsOnlyEnd
  <2>1. \A d \in 1 .. depth' : d \in 1 .. depth
    BY <1>1, <1>3 DEF FramesKept
  <2> QED
    BY <1>2, <1>3, <2>1 DEF FramesKept, ClaimsOnlyEnd, NoForeignOwner
<1>4. ASSUME NEW f, Push(f)
      PROVE  /\ \A d \in 1 .. depth' : d \in 1 .. depth \/ d = depth + 1
             /\ \A d \in 1 .. depth : frame'[d] = frame[d]
             /\ CanCall => frame'[depth + 1] = f
  <2>1. depth' = depth + 1 /\ frame' = [frame EXCEPT ![depth + 1] = f]
    BY <1>4 DEF Push
  <2>2. \A d \in 1 .. depth : d # depth + 1
    BY <1>1
  <2> QED
    BY <1>1, <1>2, <2>1, <2>2 DEF CanCall
<1>5. CASE PushesUntracked
  <2>1. PICK f : Push(f) /\ f.owner = NoOwner
    BY <1>5 DEF PushesUntracked, NewFrame
  <2>2. UNCHANGED ledger /\ CanCall
    BY <1>5 DEF PushesUntracked, db
  <2> QED
    BY <1>4, <2>1, <2>2 DEF NoForeignOwner
<1>6. ASSUME NEW i \in Intents, NEW o \in Owners, ClaimsAnew(i, o),
             \/ UNCHANGED calls
             \/ \E named, capture \in BOOLEAN : Push(NewFrame(i, named, o, Here, capture))
      PROVE  NoForeignOwner'
  <2>1. WritesClaim(i, o)
    BY <1>6 DEF ClaimsAnew, Claimable, EstablishClaim, BestEffort, WritesClaim, Append1, Appends
  <2>2. ActiveClaim(ledger', i) = Here
    BY <1>1, <2>1, ClaimBecomesActive DEF WritesClaim
  <2>3. PICK e \in Event : Appends(e) /\ e.intent = i
    BY <2>1, ClaimWriteEvent
  <2>4. \A d \in 1 .. depth : ActiveClaim(ledger', frame[d].intent) = ActiveClaim(ledger, frame[d].intent)
    BY <1>1, <1>2, <1>6, <2>3, CallersAreRunning, OtherClaimsKept
  <2>5. CASE UNCHANGED calls
    BY <2>4, <2>5 DEF calls, NoForeignOwner
  <2>6. ASSUME NEW named, NEW capture, Push(NewFrame(i, named, o, Here, capture))
        PROVE  NoForeignOwner'
    <3> DEFINE f == NewFrame(i, named, o, Here, capture)
    <3>1. f.intent = i /\ f.claim = Here /\ f.owner = o
      BY DEF NewFrame
    <3> HIDE DEF f
    <3>2. CanCall /\ Push(f)
      BY <1>6, <2>6 DEF ClaimsAnew, f
    <3> QED
      BY <1>4, <2>2, <2>4, <3>1, <3>2 DEF NoForeignOwner
  <2> QED
    BY <1>6, <2>5, <2>6
<1> QED
  BY <1>3, <1>5, <1>6 DEF OwnerStep

(* While dispatch_and_track works on an intent, the only claim that can be *)
(* active on it is the one the call was given: neither its worker nor a    *)
(* call from another one puts a claim of somebody else there.              *)
THEOREM OwnersAreExclusive ==
  ASSUME NestedIds = FALSE
  PROVE  Spec => []NoForeignOwner
<1>1. Init => NoForeignOwner
  BY DEF Init, NoForeignOwner
<1>2. TypeOK /\ HistoryInv /\ ClaimInv /\ NoForeignOwner /\ [Next]_vars => NoForeignOwner'
  BY NextOwners, OwnersKept
<1> QED
  BY <1>1, <1>2, TypeCorrect, HistoryCorrect, ClaimsCorrect, PTL DEF Spec

---------------------------------------------------------------------------
(* The evidence behind an outcome.                                         *)

(* Among the first n events a run made for i wrote its artifact.           *)
Evident(L, i, n) ==
  \E a, r \in 1 .. n : /\ L[a].type = "artifact_written" /\ L[a].run = r
                       /\ L[r].type = "run_created" /\ L[r].intent = i

(* A call that is about to record an outcome has what it takes.            *)
Grounded(f, L, invoked) ==
  /\ f.pc \in {"running", "invoke"} =>
       /\ f.run \in 1 .. Len(L)
       /\ L[f.run].type = "run_created" /\ L[f.run].intent = f.intent
  /\ f.pc \in {"completed", "failed"} => Evident(L, f.intent, Len(L))
  /\ f.pc = "abort" => invoked[f.intent] = 0

CallsGrounded == \A d \in 1 .. MaxDepth : Grounded(frame[d], ledger, invocations)

(* The steps at which nothing is needed yet, or any more.                  *)
Light == {"idle", "dispatch", "provenance", "environment", "run", "release"}

NoOutcome == UNCHANGED ledger \/ \E e \in Event : Appends(e) /\ e.type \notin Outcomes

LEMMA OutcomesApart ==
  /\ Outcomes \subseteq IntentTypes
  /\ \A t \in Submissions \union RunTypes \union OtherTypes : t \notin Outcomes
BY DEF Outcomes, Submissions, IntentTypes, RunTypes, OtherTypes

LEMMA NoOutcomeWritten ==
  ASSUME TypeOK,
         \/ CallWrites \/ WritesRun \/ Rebuilds
         \/ \E i \in Intents \union {NoIntent}, o \in Owners : WritesRelease(i, o)
  PROVE  NoOutcome
<1>1. ASSUME NEW i \in Intents \union {NoIntent}, NEW o \in Owners,
             (i \in Intents /\ WritesClaim(i, o)) \/ WritesRelease(i, o)
      PROVE  NoOutcome
  BY <1>1, ClaimWriteEvent, TypesApart, OutcomesApart DEF NoOutcome
<1>2. CASE WritesNote \/ WritesSubmission \/ WritesRun
  BY <1>2, OutcomesApart DEF WritesNote, db, WritesSubmission, WritesRun, NoOutcome
<1>3. CASE Rebuilds
  BY <1>3
  DEF Rebuilds, RebuildInboxEntries, RebuildIntentProjection, RebuildClaimProjection,
      RebuildProjection, Rebuild, NoOutcome
<1> QED
  BY <1>1, <1>2, <1>3 DEF CallWrites

LEMMA EvidenceStays ==
  ASSUME TypeOK, Grows, NEW i, NEW n \in 0 .. Len(ledger), Evident(ledger, i, n)
  PROVE  Evident(ledger', i, n)
BY LenProperties DEF TypeOK, Grows, Evident

LEMMA LedgerLengthens ==
  ASSUME TypeOK, Grows, ledger' \in Seq(Event)
  PROVE  Len(ledger) \in Nat /\ Len(ledger') \in Nat /\ Len(ledger) <= Len(ledger')
<1>1. /\ DOMAIN ledger = 1 .. Len(ledger) /\ DOMAIN ledger' = 1 .. Len(ledger')
      /\ Len(ledger) \in Nat /\ Len(ledger') \in Nat
  BY LenProperties DEF TypeOK
<1>2. Len(ledger) = 0 \/ Len(ledger) \in DOMAIN ledger'
  BY <1>1 DEF Grows
<1> QED
  BY <1>1, <1>2

(* A call that does not move keeps what it has.                            *)
LEMMA GroundsStay ==
  ASSUME TypeOK, TypeOK', Grows, NEW f, Grounded(f, ledger, invocations),
         f.pc = "abort" => invocations'[f.intent] = invocations[f.intent]
  PROVE  Grounded(f, ledger', invocations')
<1>1. /\ Len(ledger) \in Nat /\ Len(ledger') \in Nat /\ Len(ledger) <= Len(ledger')
      /\ DOMAIN ledger = 1 .. Len(ledger)
  BY LedgerLengthens, LenProperties DEF TypeOK
<1>2. \A i : Evident(ledger, i, Len(ledger)) => Evident(ledger', i, Len(ledger))
  BY <1>1, EvidenceStays
<1>3. \A i : Evident(ledger', i, Len(ledger)) => Evident(ledger', i, Len(ledger'))
  BY <1>1 DEF Evident
<1> QED
  BY <1>1, <1>2, <1>3 DEF Grounded, Grows

LEMMA CallsStayGrounded ==
  ASSUME TypeOK, TypeOK', Grows, CallsGrounded, UNCHANGED invocations,
         \A d \in 1 .. MaxDepth :
           frame'[d] = frame[d] \/ Grounded(frame'[d], ledger', invocations')
  PROVE  CallsGrounded'
BY GroundsStay DEF CallsGrounded

LEMMA TopGrounded ==
  ASSUME TypeOK, TypeOK', Grows, CallsGrounded, UNCHANGED invocations, NEW g,
         frame' = [frame EXCEPT ![depth] = g], Grounded(g, ledger', invocations')
  PROVE  CallsGrounded'
<1>1. \A d \in 1 .. MaxDepth : frame'[d] = IF d = depth THEN g ELSE frame[d]
  BY DEF TypeOK
<1> QED
  BY <1>1, CallsStayGrounded

LEMMA LightIsGrounded ==
  ASSUME NEW f, NEW L, NEW invoked, f.pc \in Light PROVE Grounded(f, L, invoked)
BY DEF Light, Grounded

LEMMA LeavingGrounded ==
  ASSUME TypeOK, TypeOK', Grows, CallsGrounded, UNCHANGED invocations, depth # 0,
         EndDispatch \/ Pop \/ \E step \in Light : Goto(step)
  PROVE  CallsGrounded'
<1>1. depth \in 1 .. MaxDepth /\ MaxDepth \in Nat /\ frame[depth] \in Frame
      /\ frame \in [1 .. MaxDepth -> Frame]
  BY MaxDepthAssumption DEF TypeOK
<1>2. Pop \/ \E step \in Light : Goto(step)
  BY DEF EndDispatch, Light
<1>3. CASE Pop
  <2>1. frame' = [frame EXCEPT ![depth] = Idle] /\ Idle.pc \in Light
    BY <1>3 DEF Pop, Idle, Light
  <2>2. Grounded(Idle, ledger', invocations')
    BY <2>1, LightIsGrounded
  <2> QED
    BY <2>1, <2>2, TopGrounded
<1>4. ASSUME NEW step \in Light, Goto(step) PROVE CallsGrounded'
  <2> DEFINE g == [frame[depth] EXCEPT !.pc = step]
  <2>1. frame' = [frame EXCEPT ![depth] = g]
    BY <1>4 DEF Goto
  <2>2. g.pc = step
    BY <1>1 DEF Frame
  <2> HIDE DEF g
  <2>3. Grounded(g, ledger', invocations')
    BY <2>2, LightIsGrounded
  <2> QED
    BY <2>1, <2>3, TopGrounded
<1> QED
  BY <1>2, <1>3, <1>4

LEMMA OutcomesStayEvident ==
  ASSUME TypeOK, Grows, OutcomeHasArtifact, NoOutcome,
         \A k \in DOMAIN ledger : ledger[k].type = "intent_failed" =>
           invocations'[ledger[k].intent] = invocations[ledger[k].intent]
  PROVE  OutcomeHasArtifact'
<1>1. ledger \in Seq(Event) /\ DOMAIN ledger = 1 .. Len(ledger) /\ Len(ledger) \in Nat
  BY LenProperties DEF TypeOK
<1>2. \A k \in DOMAIN ledger' : ledger'[k].type \in Outcomes =>
        k \in DOMAIN ledger /\ ledger'[k] = ledger[k]
  <2>1. CASE UNCHANGED ledger
    BY <2>1
  <2>2. ASSUME NEW e \in Event, Appends(e), e.type \notin Outcomes
        PROVE  \A k \in DOMAIN ledger' : ledger'[k].type \in Outcomes =>
                 k \in DOMAIN ledger /\ ledger'[k] = ledger[k]
    <3>1. /\ DOMAIN ledger' = 1 .. Len(ledger) + 1
          /\ \A k \in 1 .. Len(ledger) : ledger'[k] = ledger[k]
          /\ ledger'[Len(ledger) + 1] = e
      BY <1>1, <2>2, AppendedLedger DEF Appends
    <3>2. \A k \in 1 .. Len(ledger) + 1 : k \in 1 .. Len(ledger) \/ k = Len(ledger) + 1
      BY <1>1
    <3> QED
      BY <1>1, <2>2, <3>1, <3>2
  <2> QED
    BY <2>1, <2>2 DEF NoOutcome
<1>3. SUFFICES ASSUME NEW k \in DOMAIN ledger, ledger[k].type \in Outcomes, ledger'[k] = ledger[k]
               PROVE  LET i == ledger[k].intent
                      IN  \/ Evident(ledger', i, k - 1)
                          \/ ledger[k].type = "intent_failed" /\ invocations'[i] = 0
  BY <1>2 DEF OutcomeHasArtifact, Evident, Outcomes
<1>4. \/ Evident(ledger, ledger[k].intent, k - 1)
      \/ ledger[k].type = "intent_failed" /\ invocations[ledger[k].intent] = 0
  BY <1>3 DEF OutcomeHasArtifact, Evident, Outcomes
<1>5. k - 1 \in 0 .. Len(ledger)
  BY <1>1
<1> QED
  BY <1>4, <1>5, EvidenceStays

LEMMA AppendsNoOutcome ==
  ASSUME NEW e \in Event, Append1(e), e.type \notin Outcomes
  PROVE  NoOutcome
BY DEF Append1, Appends, NoOutcome

LEMMA FailureIsNoOutcome == ASSUME AppendFails \/ UNCHANGED db PROVE NoOutcome
BY DEF AppendFails, db, NoOutcome

GroundedInv == CallsGrounded /\ OutcomeHasArtifact

LEMMA CallsAreGrounded ==
  ASSUME TypeOK, TypeOK', GroundedInv, Grows, Call
  PROVE  GroundedInv'
<1>1. NoOutcome
  BY CallStepWrites, NoOutcomeWritten
<1>2. UNCHANGED invocations /\ (UNCHANGED calls \/ \E f : Push(f) /\ f.pc = "dispatch")
  <2>1. \A i, named, o, c, capture : NewFrame(i, named, o, c, capture).pc = "dispatch"
    BY DEF NewFrame
  <2>2. ASSUME NEW i \in Intents,
               \/ SubmitAccepted(i) \/ SubmitRejected(i)
               \/ \E o \in Owners \union {NoOwner} : ClaimIntent(i, o) \/ CallRelease(i, o)
        PROVE  UNCHANGED invocations /\ UNCHANGED calls
    BY <2>2 DEF SubmitAccepted, SubmitRejected, Submit, ClaimIntent, CallRelease
  <2>3. ASSUME NEW i, NEW named, NEW capture,
               \/ Dispatch(i, named, capture)
               \/ \E o : DispatchAndTrack(i, named, o, capture)
        PROVE  UNCHANGED invocations /\ (UNCHANGED calls \/ \E f : Push(f) /\ f.pc = "dispatch")
    BY <2>1, <2>3 DEF Dispatch, DispatchAndTrack
  <2> QED
    BY <2>2, <2>3 DEF Call
<1>3. OutcomeHasArtifact'
  BY <1>1, <1>2, OutcomesStayEvident DEF GroundedInv
<1>4. CASE UNCHANGED calls
  BY <1>2, <1>3, <1>4, CallsStayGrounded DEF calls, GroundedInv
<1>5. ASSUME NEW f, Push(f), f.pc = "dispatch" PROVE CallsGrounded'
  <2>1. frame' = [frame EXCEPT ![depth + 1] = f] /\ Grounded(f, ledger', invocations')
    BY <1>5, LightIsGrounded DEF Push, Light
  <2>2. \A d \in 1 .. MaxDepth : frame'[d] = frame[d] \/ frame'[d] = f
    BY <2>1 DEF TypeOK
  <2> QED
    BY <1>2, <2>1, <2>2, CallsStayGrounded DEF GroundedInv
<1> QED
  BY <1>2, <1>3, <1>4, <1>5 DEF GroundedInv

LEMMA BeginGrounded ==
  ASSUME TypeOK, TypeOK', GroundedInv, Grows, BeginDispatch
  PROVE  GroundedInv'
<1>1. Top.intent \in Intents \union {NoIntent} /\ depth # 0
  BY TopTyped, FrameFields DEF BeginDispatch, At, Top, Idle
<1>2. NoOutcome
  <2>1. IntentEvent("intent_claimed", Top.intent) \in Event
    BY <1>1, EventsTyped DEF IntentTypes
  <2>2. IntentEvent("intent_claimed", Top.intent).type \notin Outcomes
    BY IntentEventSays DEF Outcomes
  <2>3. \/ Append1(IntentEvent("intent_claimed", Top.intent))
        \/ AppendFails
        \/ UNCHANGED db
    BY DEF BeginDispatch, AppendIntentEvent
  <2> QED
    BY <2>1, <2>2, <2>3, AppendsNoOutcome, FailureIsNoOutcome
<1>3. UNCHANGED invocations /\ (EndDispatch \/ \E step \in Light : Goto(step))
  BY DEF BeginDispatch, Light
<1> QED
  BY <1>1, <1>2, <1>3, LeavingGrounded, OutcomesStayEvident DEF GroundedInv

LEMMA CaptureGrounded ==
  ASSUME TypeOK, TypeOK', HistoryInv, GroundedInv, Grows,
         NEW step \in {"provenance", "environment"}, NEW next \in Light,
         NEW captured \in OtherTypes, NEW failed \in OtherTypes,
         Capture(step, captured, failed, next)
  PROVE  GroundedInv'
<1>1. step \in Steps \ {"idle"} /\ step \in BeforeWorker /\ At(step) /\ Top.pc = step
  BY DEF Steps, BeforeWorker, Capture, At
<1>2. /\ Top.intent \in Intents \union {NoIntent} /\ depth # 0 /\ depth \in 1 .. MaxDepth
      /\ Top = frame[depth] /\ UNCHANGED invocations
  BY <1>1, AtStep, FrameFields DEF Capture
<1>3. NoOutcome
  <2>1. \A t \in OtherTypes : IntentEvent(t, Top.intent) \in Event
    BY <1>2, EventsTyped
  <2>2. \A t \in OtherTypes : IntentEvent(t, Top.intent).type = t
    BY IntentEventSays
  <2>3. \/ \E t \in OtherTypes : Append1(IntentEvent(t, Top.intent))
        \/ AppendFails
    BY DEF Capture, AppendNote
  <2> QED
    BY <2>1, <2>2, <2>3, OutcomesApart, AppendsNoOutcome, FailureIsNoOutcome
<1>4. CASE Goto(next)
  BY <1>2, <1>3, <1>4, LeavingGrounded, OutcomesStayEvident DEF GroundedInv
<1>5. CASE Goto("abort")
  <2>1. PICK g \in Frame : /\ g.pc = "abort" /\ g.intent = Top.intent
                           /\ frame' = [frame EXCEPT ![depth] = g]
    BY <1>1, <1>5, GotoWrites DEF Steps
  <2>2. invocations[Top.intent] = 0
    BY <1>1, <1>2 DEF HistoryInv, InvokedAfterClaim
  <2>3. Grounded(g, ledger', invocations')
    BY <1>2, <2>1, <2>2 DEF Grounded
  <2> QED
    BY <1>2, <1>3, <2>1, <2>3, TopGrounded, OutcomesStayEvident DEF GroundedInv
<1> QED
  BY <1>4, <1>5 DEF Capture

LEMMA CreateGrounded ==
  ASSUME TypeOK, TypeOK', GroundedInv, Grows, CreateRun
  PROVE  GroundedInv'
<1>1. At("run") /\ UNCHANGED invocations /\ "run" \in Steps \ {"idle"}
  BY DEF CreateRun, Steps
<1>2. /\ Top.intent \in Intents \union {NoIntent} /\ depth # 0 /\ depth \in 1 .. MaxDepth
      /\ Top = frame[depth] /\ Top \in Frame /\ frame \in [1 .. MaxDepth -> Frame]
  BY <1>1, AtStep, FrameFields DEF CallsOK
<1>3. CASE AppendFails /\ EndDispatch
  BY <1>1, <1>2, <1>3, FailureIsNoOutcome, LeavingGrounded, OutcomesStayEvident
  DEF GroundedInv
<1>4. CASE /\ AppendRunEvent(RunEvent("run_created", Top.intent, Here))
           /\ frame' = [frame EXCEPT ![depth].pc = "running", ![depth].run = Here]
  <2> DEFINE e == RunEvent("run_created", Top.intent, Here)
             g == [frame[depth] EXCEPT !.pc = "running", !.run = Here]
  <2>1. ledger \in Seq(Event) /\ Len(ledger) \in Nat /\ Here = Len(ledger) + 1
    BY LenProperties DEF TypeOK, Here
  <2>2. e \in Event
    <3>1. Here \in Nat /\ "run_created" \in IntentTypes \union RunTypes \union OtherTypes
      BY <2>1 DEF RunTypes
    <3> QED
      BY <1>2, <3>1, EventsTyped
  <2>3. e.type = "run_created" /\ e.intent = Top.intent
    BY RunEventSays
  <2>4. Append1(e)
    BY <1>4 DEF AppendRunEvent
  <2>5. frame' = [frame EXCEPT ![depth] = g]
    BY <1>2, <1>4
  <2>6. g.pc = "running" /\ g.run = Here /\ g.intent = Top.intent
    BY <1>2 DEF Frame
  <2> HIDE DEF e, g
  <2>7. Len(ledger') = Here /\ ledger'[Here] = e
    BY <2>1, <2>2, <2>4, AppendedLedger DEF Append1
  <2>8. Grounded(g, ledger', invocations')
    BY <2>1, <2>3, <2>6, <2>7 DEF Grounded
  <2>9. NoOutcome
    BY <2>2, <2>3, <2>4, AppendsNoOutcome DEF Outcomes
  <2> QED
    BY <1>1, <2>5, <2>8, <2>9, TopGrounded, OutcomesStayEvident DEF GroundedInv
<1> QED
  BY <1>3, <1>4 DEF CreateRun

LEMMA RunningHasNotFailed ==
  ASSUME TypeOK, HistoryInv, Top.pc = "running",
         NEW k \in DOMAIN ledger, ledger[k].type = "intent_failed"
  PROVE  ledger[k].intent # Top.intent
<1>1. /\ Top.pc # "idle" /\ Top.pc \in Working /\ StackShape /\ LegalIntentHistory
      /\ WorkIsClaimed
  BY DEF Working, BeforeWorker, HistoryInv
<1>2. /\ depth \in 1 .. MaxDepth /\ Top = frame[depth] /\ Top.intent \in Intents
      /\ ledger \in Seq(Event)
  BY <1>1, TopIsAFrame
<1> DEFINE i == Top.intent
           l == LastOf(RowsOf(ledger, i))
<1>3. RowsOf(ledger, i) # {} /\ ledger[l].type = "intent_claimed"
  BY <1>1, <1>2 DEF WorkIsClaimed, LastType
<1>4. /\ l \in RowsOf(ledger, i) /\ \A m \in RowsOf(ledger, i) : m <= l
      /\ RowsOf(ledger, i) \in SUBSET (1 .. Len(ledger)) /\ Len(ledger) \in Nat
  BY <1>1, <1>2, <1>3, LastDecides, RowsArePositions
<1>5. SUFFICES ASSUME ledger[k].intent = i PROVE FALSE
  OBVIOUS
<1>6. k \in RowsOf(ledger, i) /\ ledger[k].type \in TerminalTypes
  BY <1>5 DEF RowsOf, IntentTypes, TerminalTypes
<1>7. l <= k
  BY <1>1, <1>2, <1>4, <1>6, TerminalIsLast
<1>8. l = k
  BY <1>4, <1>6, <1>7
<1> QED
  BY <1>3, <1>8

(* The run goes on to its worker.  No intent that failed is running.       *)
LEMMA StartGrounded ==
  ASSUME TypeOK, TypeOK', HistoryInv, GroundedInv, Grows, StartRunning
  PROVE  GroundedInv'
<1>1. At("running") /\ Top.pc = "running" /\ "running" \in Steps \ {"idle"}
  BY DEF StartRunning, Steps, At
<1>2. /\ depth # 0 /\ depth \in 1 .. MaxDepth /\ Top = frame[depth] /\ Top.run \in Nat
      /\ invocations \in [Intents -> Nat] /\ frame \in [1 .. MaxDepth -> Frame]
  BY <1>1, AtStep, FrameFields DEF CallsOK
<1>3. NoOutcome
  <2>1. RunEvent("state_running", NoIntent, Top.run) \in Event
    <3>1. NoIntent \in Intents \union {NoIntent}
          /\ "state_running" \in IntentTypes \union RunTypes \union OtherTypes
      BY DEF RunTypes
    <3> QED
      BY <1>2, <3>1, EventsTyped
  <2>2. RunEvent("state_running", NoIntent, Top.run).type \notin Outcomes
    BY RunEventSays DEF Outcomes
  <2>3. \/ Append1(RunEvent("state_running", NoIntent, Top.run))
        \/ AppendFails
        \/ UNCHANGED db
    BY DEF StartRunning, AppendRunEvent
  <2> QED
    BY <2>1, <2>2, <2>3, AppendsNoOutcome, FailureIsNoOutcome
<1>4. CASE EndDispatch /\ UNCHANGED invocations
  BY <1>2, <1>3, <1>4, LeavingGrounded, OutcomesStayEvident DEF GroundedInv
<1>5. CASE Goto("invoke") /\ invocations' = [invocations EXCEPT ![Top.intent] = @ + 1]
  <2>1. PICK g \in Frame : /\ g.pc = "invoke" /\ g.intent = Top.intent /\ g.run = Top.run
                           /\ frame' = [frame EXCEPT ![depth] = g]
    <3>1. [Top EXCEPT !.pc = "invoke"] \in Frame /\ [Top EXCEPT !.pc = "invoke"].run = Top.run
      BY <1>1, <1>2, <1>5, GotoWrites DEF Steps, Frame
    <3> QED
      BY <1>1, <1>5, <3>1, GotoWrites DEF Steps
  <2>2. Grounded(Top, ledger, invocations)
    BY <1>2 DEF GroundedInv, CallsGrounded
  <2>3. Grounded(Top, ledger', invocations')
    BY <1>1, <2>2, GroundsStay
  <2>4. Grounded(g, ledger', invocations')
    BY <1>1, <2>1, <2>3 DEF Grounded
  <2>5. \A i : i # Top.intent => invocations'[i] = invocations[i]
    BY <1>2, <1>5
  <2>6. \A d \in 1 .. MaxDepth : d # depth /\ frame[d].pc = "abort" => frame[d].intent # Top.intent
    BY <1>1, <1>2 DEF HistoryInv, WorkIsExclusive, Working, BeforeWorker
  <2>7. \A d \in 1 .. MaxDepth : frame'[d] = IF d = depth THEN g ELSE frame[d]
    BY <1>2, <2>1
  <2>8. \A d \in 1 .. MaxDepth : d # depth => Grounded(frame[d], ledger', invocations')
    BY <2>5, <2>6, GroundsStay DEF GroundedInv, CallsGrounded
  <2>9. CallsGrounded'
    BY <2>4, <2>7, <2>8 DEF CallsGrounded
  <2>10. \A k \in DOMAIN ledger : ledger[k].type = "intent_failed" => ledger[k].intent # Top.intent
    BY <1>1, RunningHasNotFailed
  <2> QED
    BY <1>3, <2>5, <2>9, <2>10, OutcomesStayEvident DEF GroundedInv
<1> QED
  BY <1>4, <1>5 DEF StartRunning

LEMMA RecordGrounded ==
  ASSUME TypeOK, TypeOK', GroundedInv, Grows, RecordArtifact
  PROVE  GroundedInv'
<1>1. At("invoke") /\ Top.pc = "invoke" /\ "invoke" \in Steps \ {"idle"} /\ UNCHANGED invocations
  BY DEF RecordArtifact, Steps, At
<1>2. depth # 0 /\ depth \in 1 .. MaxDepth /\ Top = frame[depth] /\ Top.run \in Nat
  BY <1>1, AtStep, FrameFields
<1> DEFINE e == RunEvent("artifact_written", NoIntent, Top.run)
<1>3. e \in Event
  <2>1. NoIntent \in Intents \union {NoIntent}
        /\ "artifact_written" \in IntentTypes \union RunTypes \union OtherTypes
    BY DEF RunTypes
  <2> QED
    BY <1>2, <2>1, EventsTyped
<1>4. e.type = "artifact_written" /\ e.run = Top.run
  BY RunEventSays
<1>5. \/ Append1(e) /\ \E outcome \in {"completed", "failed"} : Goto(outcome)
      \/ (AppendFails \/ UNCHANGED db) /\ EndDispatch
  BY DEF RecordArtifact, AppendRunEvent
<1> HIDE DEF e
<1>6. NoOutcome
  BY <1>3, <1>4, <1>5, AppendsNoOutcome, FailureIsNoOutcome DEF Outcomes
<1>7. OutcomeHasArtifact'
  BY <1>1, <1>6, OutcomesStayEvident DEF GroundedInv
<1>8. CASE EndDispatch
  BY <1>1, <1>2, <1>7, <1>8, LeavingGrounded DEF GroundedInv
<1>9. ASSUME Append1(e), NEW outcome \in {"completed", "failed"}, Goto(outcome)
      PROVE  CallsGrounded'
  <2>1. PICK g \in Frame : /\ g.pc = outcome /\ g.intent = Top.intent
                           /\ frame' = [frame EXCEPT ![depth] = g]
    <3>1. outcome \in Steps
      BY DEF Steps
    <3>2. /\ [Top EXCEPT !.pc = outcome] \in Frame
          /\ [Top EXCEPT !.pc = outcome].pc = outcome
          /\ [Top EXCEPT !.pc = outcome].intent = Top.intent
          /\ frame' = [frame EXCEPT ![depth] = [Top EXCEPT !.pc = outcome]]
      BY <1>1, <1>9, <3>1, GotoWrites
    <3> QED
      BY <3>2
  <2>2. /\ Len(ledger) \in Nat /\ Len(ledger') = Len(ledger) + 1
        /\ ledger'[Len(ledger) + 1] = e
        /\ \A k \in 1 .. Len(ledger) : ledger'[k] = ledger[k]
    BY <1>3, <1>9, AppendedLedger DEF Append1, TypeOK
  <2>3. Top.run \in 1 .. Len(ledger) /\ ledger[Top.run].type = "run_created"
        /\ ledger[Top.run].intent = Top.intent
    BY <1>1, <1>2 DEF GroundedInv, CallsGrounded, Grounded
  <2>4. Evident(ledger', Top.intent, Len(ledger'))
    <3>1. Top.run \in 1 .. Len(ledger') /\ Len(ledger') \in 1 .. Len(ledger')
      BY <2>2, <2>3
    <3> QED
      BY <1>4, <2>2, <2>3, <3>1 DEF Evident
  <2>5. Grounded(g, ledger', invocations')
    BY <2>1, <2>4 DEF Grounded
  <2> QED
    BY <1>1, <2>1, <2>5, TopGrounded DEF GroundedInv
<1> QED
  BY <1>5, <1>7, <1>8, <1>9 DEF GroundedInv

(* The outcome itself: grounded on an artifact, or on a worker that never  *)
(* ran.                                                                    *)
LEMMA ConcludeGrounded ==
  ASSUME TypeOK, TypeOK', GroundedInv, Grows,
         NEW step \in Steps \ {"idle"}, NEW t \in Outcomes, Conclude(step, t),
         \/ step \in {"completed", "failed"}
         \/ step = "abort" /\ t = "intent_failed"
  PROVE  GroundedInv'
<1>1. At(step) /\ Top.pc = step /\ UNCHANGED invocations /\ EndDispatch
  BY DEF Conclude, At
<1>2. /\ depth # 0 /\ depth \in 1 .. MaxDepth /\ Top = frame[depth]
      /\ Top.intent \in Intents \union {NoIntent}
  BY <1>1, AtStep, FrameFields
<1>3. \/ Evident(ledger, Top.intent, Len(ledger))
      \/ t = "intent_failed" /\ invocations[Top.intent] = 0
  BY <1>1, <1>2 DEF GroundedInv, CallsGrounded, Grounded
<1>4. CallsGrounded'
  BY <1>1, <1>2, LeavingGrounded DEF GroundedInv
<1>5. CASE AppendFails
  BY <1>1, <1>4, <1>5, FailureIsNoOutcome, OutcomesStayEvident DEF GroundedInv
<1>6. CASE Append1(IntentEvent(t, Top.intent))
  <2> DEFINE e == IntentEvent(t, Top.intent)
  <2>1. e \in Event
    <3>1. t \in IntentTypes \union RunTypes \union OtherTypes
      BY OutcomesApart
    <3> QED
      BY <1>2, <3>1, EventsTyped
  <2>2. e.type = t /\ e.intent = Top.intent
    BY IntentEventSays
  <2>3. Append1(e)
    BY <1>6
  <2> HIDE DEF e
  <2>4. /\ Len(ledger) \in Nat /\ DOMAIN ledger' = 1 .. Len(ledger) + 1
        /\ ledger'[Len(ledger) + 1] = e
        /\ \A k \in 1 .. Len(ledger) : ledger'[k] = ledger[k]
    BY <2>1, <2>3, AppendedLedger DEF Append1, TypeOK
  <2>5. \A k \in DOMAIN ledger' : k \in 1 .. Len(ledger) \/ k = Len(ledger) + 1
    BY <2>4
  <2>6. DOMAIN ledger = 1 .. Len(ledger)
    BY LenProperties DEF TypeOK
  <2>7. ASSUME NEW k \in 1 .. Len(ledger), ledger[k].type \in Outcomes
        PROVE  \/ Evident(ledger', ledger[k].intent, k - 1)
               \/ ledger[k].type = "intent_failed" /\ invocations'[ledger[k].intent] = 0
    <3>1. \/ Evident(ledger, ledger[k].intent, k - 1)
          \/ ledger[k].type = "intent_failed" /\ invocations[ledger[k].intent] = 0
      BY <2>6, <2>7 DEF GroundedInv, OutcomeHasArtifact, Evident, Outcomes
    <3>2. k - 1 \in 0 .. Len(ledger)
      BY <2>4
    <3> QED
      BY <1>1, <3>1, <3>2, EvidenceStays
  <2>8. \/ Evident(ledger', Top.intent, Len(ledger))
        \/ t = "intent_failed" /\ invocations'[Top.intent] = 0
    BY <1>1, <1>3, <2>4, EvidenceStays
  <2>9. OutcomeHasArtifact'
    <3>1. SUFFICES ASSUME NEW k \in DOMAIN ledger', ledger'[k].type \in Outcomes
                   PROVE  \/ Evident(ledger', ledger'[k].intent, k - 1)
                          \/ ledger'[k].type = "intent_failed" /\ invocations'[ledger'[k].intent] = 0
      BY DEF OutcomeHasArtifact, Evident, Outcomes
    <3>2. CASE k \in 1 .. Len(ledger)
      BY <2>4, <2>7, <3>1, <3>2
    <3>3. CASE k = Len(ledger) + 1
      <4>1. k - 1 = Len(ledger)
        BY <2>4, <3>3
      <4> QED
        BY <2>2, <2>4, <2>8, <3>3, <4>1
    <3> QED
      BY <2>5, <3>2, <3>3
  <2> QED
    BY <1>4, <2>9 DEF GroundedInv
<1> QED
  BY <1>5, <1>6 DEF Conclude, AppendIntentEvent

LEMMA DispatchStepGrounded ==
  ASSUME TypeOK, TypeOK', HistoryInv, GroundedInv, Grows, DispatchStep
  PROVE  GroundedInv'
<1>1. CASE CaptureProvenance \/ CaptureEnvironment
  BY <1>1, CaptureGrounded DEF CaptureProvenance, CaptureEnvironment, OtherTypes, Light
<1>2. CASE CompleteIntent \/ FailIntent \/ AbortIntent
  BY <1>2, ConcludeGrounded DEF CompleteIntent, FailIntent, AbortIntent, Steps, Outcomes
<1>3. CASE TrackedRelease
  <2>1. depth # 0
    BY <1>3 DEF TrackedRelease, At, Top, Idle
  <2>2. /\ Top.intent \in Intents \union {NoIntent}
        /\ Top.owner \in Owners \union {NoOwner}
    BY TopTyped, FrameFields
  <2>3. NoOutcome
    BY <1>3, <2>2, ReleaseWrites, TypeParts, NoOutcomeWritten DEF TrackedRelease
  <2> QED
    BY <1>3, <2>1, <2>3, LeavingGrounded, OutcomesStayEvident DEF TrackedRelease, GroundedInv
<1> QED
  BY <1>1, <1>2, <1>3, BeginGrounded, CreateGrounded, StartGrounded, RecordGrounded
  DEF DispatchStep

LEMMA GroundedNext ==
  ASSUME TypeOK, TypeOK', HistoryInv, GroundedInv, [Next]_vars
  PROVE  GroundedInv'
<1>1. Grows
  BY NextWrites, WritesGrow
<1>2. CASE Crash
  <2>1. UNCHANGED <<ledger, invocations>> /\ \A d \in 1 .. MaxDepth : frame'[d] = Idle
    BY <1>2 DEF Crash, db
  <2>2. Grounded(Idle, ledger', invocations')
    BY LightIsGrounded DEF Idle, Light
  <2> QED
    BY <1>1, <2>1, <2>2, OutcomesStayEvident DEF GroundedInv, CallsGrounded, NoOutcome
<1>3. CASE Rebuilds
  <2>1. UNCHANGED <<ledger, calls, invocations>>
    BY <1>3
    DEF Rebuilds, RebuildInboxEntries, RebuildIntentProjection, RebuildClaimProjection,
        RebuildProjection, Rebuild
  <2> QED
    BY <1>1, <2>1, OutcomesStayEvident, CallsStayGrounded DEF GroundedInv, NoOutcome, calls
<1>4. CASE UNCHANGED vars
  BY <1>1, <1>4, OutcomesStayEvident, CallsStayGrounded DEF GroundedInv, NoOutcome, vars
<1> QED
  BY <1>1, <1>2, <1>3, <1>4, CallsAreGrounded, DispatchStepGrounded DEF Next

(* An intent is COMPLETED, or FAILED once its worker had run, only behind  *)
(* the artifact of a run that was created for it.                          *)
THEOREM OutcomesHaveArtifacts ==
  ASSUME NestedIds = FALSE
  PROVE  Spec => []OutcomeHasArtifact
<1>1. Init => GroundedInv
  <2>1. ASSUME Init PROVE OutcomeHasArtifact
    BY <2>1 DEF Init, OutcomeHasArtifact
  <2>2. ASSUME Init PROVE CallsGrounded
    BY <2>2, LightIsGrounded DEF Init, CallsGrounded, Idle, Light
  <2> QED
    BY <2>1, <2>2 DEF GroundedInv
<1>2. TypeOK /\ TypeOK' /\ HistoryInv /\ GroundedInv /\ [Next]_vars => GroundedInv'
  BY GroundedNext
<1>3. GroundedInv => OutcomeHasArtifact
  BY DEF GroundedInv
<1> QED
  BY <1>1, <1>2, <1>3, TypeCorrect, HistoryCorrect, PTL DEF Spec

---------------------------------------------------------------------------
(* The history of every run.                                               *)

(* A run id is the position of the run_created that made it.               *)
RunsBegin ==
  \A k \in DOMAIN ledger :
    ledger[k].type \in RunTypes =>
      /\ ledger[k].run \in 1 .. k
      /\ ledger[ledger[k].run].type = "run_created"
      /\ ledger[ledger[k].run].run = ledger[k].run
      /\ ledger[k].type = "run_created" => ledger[k].run = k

EarlierRunRows(L, k) == {m \in RunRows(L, L[k].run) : m < k}

LegalRunHistory ==
  \A k \in DOMAIN ledger :
    ledger[k].type \in RunTypes =>
      LET before == EarlierRunRows(ledger, k)
      IN  IF before = {} THEN ledger[k].type = "run_created"
          ELSE ledger[k].type \in AllowedRunTransitions[ledger[LastOf(before)].type]

(* Only intents are submitted, dispatched, claimed and released.           *)
IntentsAreKnown ==
  \A k \in DOMAIN ledger :
    ledger[k].type \in IntentTypes \union ClaimTypes => ledger[k].intent \in Intents

LEMMA RunTable ==
  ASSUME NEW s \in RunTypes, NEW t \in AllowedRunTransitions[s]
  PROVE  t \in RunTypes /\ t # "run_created"
BY DEF RunTypes, AllowedRunTransitions

LEMMA RunRowsGrow ==
  ASSUME ledger \in Seq(Event), NEW e \in Event, Appends(e)
  PROVE  /\ \A k \in DOMAIN ledger : EarlierRunRows(ledger', k) = EarlierRunRows(ledger, k)
         /\ e.type \in RunTypes => EarlierRunRows(ledger', Here) = RunRows(ledger, e.run)
<1> DEFINE n == Len(ledger)
<1>1. /\ n \in Nat /\ DOMAIN ledger = 1 .. n /\ DOMAIN ledger' = 1 .. n + 1 /\ Here = n + 1
      /\ ledger'[n + 1] = e /\ \A k \in 1 .. n : ledger'[k] = ledger[k]
  BY AppendedLedger, LenProperties DEF Appends, Here
<1>2. \A k \in 1 .. n + 1 : \A m : m \in 1 .. n + 1 /\ m < k => m \in 1 .. n
  BY <1>1
<1>3. \A m \in 1 .. n : m \in 1 .. n + 1 /\ m < n + 1
  BY <1>1
<1>4. n + 1 \in 1 .. n + 1 /\ \A k \in 1 .. n : k \in 1 .. n + 1
  BY <1>1
<1> HIDE DEF n
<1>5. \A r, k, m : k \in 1 .. n + 1 /\ m < k =>
        (m \in RunRows(ledger', r) <=> m \in RunRows(ledger, r))
  BY <1>1, <1>2, <1>4 DEF RunRows
<1>6. ASSUME NEW k \in 1 .. n
      PROVE  EarlierRunRows(ledger', k) = EarlierRunRows(ledger, k)
  BY <1>1, <1>4, <1>5, <1>6 DEF EarlierRunRows
<1>7. \A m : m \in RunRows(ledger, e.run) => m < n + 1
  BY <1>1, <1>3 DEF RunRows
<1>8. EarlierRunRows(ledger', n + 1) = RunRows(ledger, e.run)
  BY <1>1, <1>4, <1>5, <1>7 DEF EarlierRunRows
<1> QED
  BY <1>1, <1>6, <1>8

LEMMA EarlierIsEarlier ==
  ASSUME ledger \in Seq(Event), NEW k \in DOMAIN ledger, EarlierRunRows(ledger, k) # {}
  PROVE  /\ LastOf(EarlierRunRows(ledger, k)) \in EarlierRunRows(ledger, k)
         /\ LastOf(EarlierRunRows(ledger, k)) \in 1 .. k
<1>1. /\ k \in 1 .. Len(ledger) /\ Len(ledger) \in Nat
      /\ EarlierRunRows(ledger, k) \in SUBSET (1 .. Len(ledger))
  BY LenProperties DEF EarlierRunRows, RunRows
<1>2. LastOf(EarlierRunRows(ledger, k)) \in EarlierRunRows(ledger, k)
  BY <1>1, LastOfIsGreatest
<1> QED
  BY <1>1, <1>2 DEF EarlierRunRows

RunHistory == RunsBegin /\ LegalRunHistory

LEMMA OtherEventsKeepRuns ==
  ASSUME ledger \in Seq(Event), RunHistory, NEW e \in Event, Appends(e), e.type \notin RunTypes
  PROVE  RunHistory'
<1>1. /\ Len(ledger) \in Nat /\ DOMAIN ledger = 1 .. Len(ledger)
      /\ DOMAIN ledger' = 1 .. Len(ledger) + 1
      /\ ledger'[Len(ledger) + 1] = e
      /\ \A k \in 1 .. Len(ledger) : ledger'[k] = ledger[k]
  BY AppendedLedger, LenProperties DEF Appends
<1>2. \A k \in DOMAIN ledger' : ledger'[k].type \in RunTypes =>
        k \in DOMAIN ledger /\ ledger'[k] = ledger[k]
  BY <1>1
<1>3. \A k \in DOMAIN ledger : \A r \in 1 .. k : ledger'[r] = ledger[r]
  BY <1>1
<1>4. RunsBegin'
  BY <1>2, <1>3 DEF RunHistory, RunsBegin
<1>5. ASSUME NEW k \in DOMAIN ledger, EarlierRunRows(ledger, k) # {}
      PROVE  LastOf(EarlierRunRows(ledger, k)) \in 1 .. k
  BY <1>1, <1>5, EarlierIsEarlier
<1>6. ASSUME NEW k \in DOMAIN ledger, ledger[k].type \in RunTypes
      PROVE  LET before == EarlierRunRows(ledger', k)
             IN  IF before = {} THEN ledger[k].type = "run_created"
                 ELSE ledger[k].type \in AllowedRunTransitions[ledger'[LastOf(before)].type]
  <2>1. EarlierRunRows(ledger', k) = EarlierRunRows(ledger, k)
    BY RunRowsGrow
  <2>2. EarlierRunRows(ledger, k) # {} =>
          ledger'[LastOf(EarlierRunRows(ledger, k))] = ledger[LastOf(EarlierRunRows(ledger, k))]
    BY <1>3, <1>5
  <2> QED
    BY <1>6, <2>1, <2>2 DEF RunHistory, LegalRunHistory
<1>7. LegalRunHistory'
  <2>1. ASSUME NEW k \in DOMAIN ledger', ledger'[k].type \in RunTypes
        PROVE  LET before == EarlierRunRows(ledger', k)
               IN  IF before = {} THEN ledger'[k].type = "run_created"
                   ELSE ledger'[k].type \in AllowedRunTransitions[ledger'[LastOf(before)].type]
    BY <1>2, <1>6, <2>1
  <2> QED
    BY <2>1 DEF LegalRunHistory
<1> QED
  BY <1>4, <1>7 DEF RunHistory

LEMMA RunEventsKeepRuns ==
  ASSUME ledger \in Seq(Event), RunHistory, NEW e \in Event, Appends(e), e.type \in RunTypes,
         (e.type = "run_created" /\ e.run = Here) \/ CanFollow(e.type, e.run)
  PROVE  RunHistory'
<1>1. /\ Len(ledger) \in Nat /\ DOMAIN ledger = 1 .. Len(ledger)
      /\ DOMAIN ledger' = 1 .. Len(ledger) + 1 /\ Here = Len(ledger) + 1
      /\ ledger'[Here] = e
      /\ \A k \in 1 .. Len(ledger) : ledger'[k] = ledger[k]
  BY AppendedLedger, LenProperties DEF Appends, Here
<1>2. \A k \in DOMAIN ledger' : k = Here \/ (k \in DOMAIN ledger /\ ledger'[k] = ledger[k])
  BY <1>1
<1>3. \A k \in DOMAIN ledger : \A r \in 1 .. k : ledger'[r] = ledger[r]
  BY <1>1
<1>4. RunRows(ledger, e.run) \in SUBSET (1 .. Len(ledger))
  BY <1>1 DEF RunRows
<1>5. CASE e.type = "run_created" /\ e.run = Here
  <2>1. RunRows(ledger, Here) = {}
    BY <1>1 DEF RunHistory, RunsBegin, RunRows
  <2>2. RunsBegin'
    BY <1>1, <1>2, <1>3, <1>5 DEF RunHistory, RunsBegin
  <2>3. ASSUME NEW k \in DOMAIN ledger, EarlierRunRows(ledger, k) # {}
        PROVE  LastOf(EarlierRunRows(ledger, k)) \in 1 .. k
    BY <2>3, EarlierIsEarlier
  <2>4. LegalRunHistory'
    BY <1>1, <1>2, <1>3, <1>5, <2>1, <2>3, RunRowsGrow DEF RunHistory, LegalRunHistory
  <2> QED
    BY <2>2, <2>4 DEF RunHistory
<1>6. CASE CanFollow(e.type, e.run)
  <2> DEFINE r == e.run
             last == LastOf(RunRows(ledger, r))
  <2>1. /\ RunRows(ledger, r) # {} /\ ledger[last].type \in RunTypes
        /\ e.type \in AllowedRunTransitions[ledger[last].type]
    BY <1>6 DEF CanFollow, RunState, RunTypes
  <2>2. e.type # "run_created"
    BY <2>1, RunTable
  <2>3. last \in RunRows(ledger, r) /\ last \in 1 .. Len(ledger)
    BY <1>1, <1>4, <2>1, LastOfIsGreatest
  <2>4. r \in 1 .. last /\ ledger[r].type = "run_created" /\ ledger[r].run = r
    BY <2>3 DEF RunHistory, RunsBegin, RunRows
  <2>5. r \in 1 .. Len(ledger) /\ r \in 1 .. Here
    BY <1>1, <2>3, <2>4
  <2> HIDE DEF last, r
  <2>6. RunsBegin'
    <3>1. ASSUME NEW k \in DOMAIN ledger', ledger'[k].type \in RunTypes
          PROVE  /\ ledger'[k].run \in 1 .. k
                 /\ ledger'[ledger'[k].run].type = "run_created"
                 /\ ledger'[ledger'[k].run].run = ledger'[k].run
                 /\ ledger'[k].type = "run_created" => ledger'[k].run = k
      <4>1. CASE k = Here
        BY <1>1, <2>2, <2>4, <2>5, <4>1 DEF r
      <4>2. CASE k \in DOMAIN ledger /\ ledger'[k] = ledger[k]
        BY <1>3, <3>1, <4>2 DEF RunHistory, RunsBegin
      <4> QED
        BY <1>2, <4>1, <4>2
    <3> QED
      BY <3>1 DEF RunsBegin
  <2>7. LegalRunHistory'
    <3>1. ASSUME NEW k \in DOMAIN ledger', ledger'[k].type \in RunTypes
          PROVE  LET before == EarlierRunRows(ledger', k)
                 IN  IF before = {} THEN ledger'[k].type = "run_created"
                     ELSE ledger'[k].type \in AllowedRunTransitions[ledger'[LastOf(before)].type]
      <4>1. CASE k = Here
        <5>1. EarlierRunRows(ledger', k) = RunRows(ledger, r)
          BY <4>1, RunRowsGrow DEF r
        <5>2. ledger'[last] = ledger[last]
          BY <1>1, <2>3
        <5> QED
          BY <1>1, <2>1, <4>1, <5>1, <5>2 DEF last
      <4>2. CASE k \in DOMAIN ledger /\ ledger'[k] = ledger[k]
        <5>1. EarlierRunRows(ledger', k) = EarlierRunRows(ledger, k)
          BY <4>2, RunRowsGrow
        <5>2. EarlierRunRows(ledger, k) # {} =>
                ledger'[LastOf(EarlierRunRows(ledger, k))] = ledger[LastOf(EarlierRunRows(ledger, k))]
          BY <1>3, <4>2, EarlierIsEarlier
        <5> QED
          BY <3>1, <4>2, <5>1, <5>2 DEF RunHistory, LegalRunHistory
      <4> QED
        BY <1>2, <4>1, <4>2
    <3> QED
      BY <3>1 DEF LegalRunHistory
  <2> QED
    BY <2>6, <2>7 DEF RunHistory
<1> QED
  BY <1>5, <1>6

LEMMA RunHistoryNext == TypeOK /\ RunHistory /\ [Next]_vars => RunHistory'
<1> SUFFICES ASSUME TypeOK, RunHistory, [Next]_vars PROVE RunHistory'
  OBVIOUS
<1>1. ledger \in Seq(Event) /\ Writes
  BY NextWrites DEF TypeOK
<1>2. ASSUME NEW e \in Event, Appends(e), e.type \notin RunTypes PROVE RunHistory'
  BY <1>1, <1>2, OtherEventsKeepRuns
<1>3. CASE UNCHANGED ledger
  BY <1>3 DEF RunHistory, RunsBegin, LegalRunHistory, EarlierRunRows
<1>4. CASE WritesRun
  BY <1>1, <1>4, RunEventsKeepRuns DEF WritesRun
<1>5. CASE WritesNote \/ WritesSubmission \/ WritesIntent
  BY <1>2, <1>3, <1>5, TypesApart DEF WritesNote, db, WritesSubmission, WritesIntent
<1>6. ASSUME NEW i \in Intents \union {NoIntent}, NEW o \in Owners,
             (i \in Intents /\ WritesClaim(i, o)) \/ WritesRelease(i, o)
      PROVE  RunHistory'
  BY <1>2, <1>6, ClaimWriteEvent, TypesApart
<1> QED
  BY <1>1, <1>3, <1>4, <1>5, <1>6
  DEF Writes, CallWrites, DispatchWrites, RebuildInboxEntries, RebuildIntentProjection,
      RebuildClaimProjection, RebuildProjection, Rebuild

LEMMA AppendsOnce ==
  ASSUME ledger \in Seq(Event), NEW d \in Event, NEW e \in Event, Appends(d)
  PROVE  ledger' # ledger /\ (Appends(e) => d = e)
<1>1. Len(ledger) \in Nat /\ Len(ledger') = Len(ledger) + 1 /\ ledger'[Len(ledger) + 1] = d
  BY AppendedLedger DEF Appends
<1>2. Appends(e) => ledger'[Len(ledger) + 1] = e
  BY AppendedLedger DEF Appends
<1> QED
  BY <1>1, <1>2

LEMMA IntentsKnownNext ==
  TypeOK /\ HistoryInv /\ IntentsAreKnown /\ AnyShape /\ [Next]_vars => IntentsAreKnown'
<1> SUFFICES ASSUME TypeOK, HistoryInv, IntentsAreKnown, AnyShape, [Next]_vars
             PROVE  IntentsAreKnown'
  OBVIOUS
<1>1. ledger \in Seq(Event) /\ Writes
  BY NextWrites DEF TypeOK
<1>2. ASSUME NEW e \in Event, Appends(e),
             e.type \in IntentTypes \union ClaimTypes => e.intent \in Intents
      PROVE  IntentsAreKnown'
  <2>1. /\ Len(ledger) \in Nat /\ DOMAIN ledger = 1 .. Len(ledger)
        /\ DOMAIN ledger' = 1 .. Len(ledger) + 1
        /\ ledger'[Len(ledger) + 1] = e
        /\ \A k \in 1 .. Len(ledger) : ledger'[k] = ledger[k]
    BY <1>1, <1>2, AppendedLedger, LenProperties DEF Appends
  <2>2. \A k \in 1 .. Len(ledger) + 1 : k \in 1 .. Len(ledger) \/ k = Len(ledger) + 1
    BY <2>1
  <2> QED
    BY <1>2, <2>1, <2>2 DEF IntentsAreKnown
<1>3. CASE UNCHANGED ledger
  BY <1>3 DEF IntentsAreKnown
<1>4. CASE WritesRun
  <2>1. PICK e \in Event : Appends(e) /\ e.type \in RunTypes
    BY <1>4 DEF WritesRun
  <2> QED
    BY <1>2, <2>1, TypesApart
<1>5. CASE WritesNote
  <2>1. ASSUME NEW e \in Event, Appends(e), e.type \in OtherTypes \ ClaimTypes
        PROVE  IntentsAreKnown'
    BY <1>2, <2>1, TypesApart
  <2> QED
    BY <1>3, <1>5, <2>1 DEF WritesNote, db
<1>6. CASE WritesSubmission \/ WritesIntent
  <2>1. PICK e \in Event : Appends(e) /\ e.type \in IntentTypes
    BY <1>6, TypesApart DEF WritesSubmission, WritesIntent
  <2>2. PICK d \in Event : Appends(d) /\ (d.type \in IntentTypes => d.intent \in Intents)
    <3>1. CASE Quiet
      BY <1>1, <2>1, <3>1, AppendsOnce DEF Quiet
    <3> QED
      BY <3>1, NextRowOnly
  <2> QED
    BY <1>1, <1>2, <2>1, <2>2, AppendsOnce, TypesApart
<1>7. ASSUME NEW i \in Intents, NEW o \in Owners, WritesClaim(i, o) PROVE IntentsAreKnown'
  BY <1>2, <1>7, ClaimWriteEvent
<1>8. ASSUME NEW i \in Intents \union {NoIntent}, NEW o \in Owners, WritesRelease(i, o)
      PROVE  IntentsAreKnown'
  <2>1. i \in Intents
    <3>1. ActiveClaim(ledger, i) \in ActiveClaims(ledger, i)
      BY <1>1, <1>8, ActiveIsAClaim DEF WritesRelease, Releasable
    <3> QED
      BY <3>1 DEF ActiveClaims, IntentsAreKnown, ClaimTypes
  <2> QED
    BY <1>2, <1>8, <2>1, ClaimWriteEvent
<1> QED
  BY <1>1, <1>3, <1>4, <1>5, <1>6, <1>7, <1>8
  DEF Writes, CallWrites, DispatchWrites, RebuildInboxEntries, RebuildIntentProjection,
      RebuildClaimProjection, RebuildProjection, Rebuild

---------------------------------------------------------------------------
(* The auditor's walks along the ledger.                                   *)

(* Two walks of n steps that start alike, and go on alike as long as they  *)
(* are alike, end alike.                                                   *)
LEMMA WalksAgree ==
  ASSUME NEW n \in Nat, NEW f, NEW g, f[0] = g[0],
         \A k \in 1 .. n : f[k - 1] = g[k - 1] => f[k] = g[k]
  PROVE  f[n] = g[n]
<1> DEFINE Apart == {k \in 0 .. n : f[k] # g[k]}
<1>1. SUFFICES ASSUME f[n] # g[n] PROVE FALSE
  OBVIOUS
<1>2. Apart \in SUBSET Nat /\ Apart # {}
  BY <1>1
<1>3. PICK k \in Apart : \A m \in Apart : k <= m
  <2> HIDE DEF Apart
  <2> QED
    BY <1>2, LeastPosition
<1>4. k # 0 /\ k \in 1 .. n
  OBVIOUS
<1>5. k - 1 \in 0 .. n /\ ~(k <= k - 1)
  BY <1>4
<1>6. f[k - 1] = g[k - 1]
  BY <1>3, <1>5
<1> QED
  BY <1>4, <1>6

(* The rows of an intent among the first k events, and what the latest of  *)
(* them says.                                                              *)
RowsTo(L, i, k) == {m \in RowsOf(L, i) : m <= k}

RowTo(L, i, k) ==
  IF RowsTo(L, i, k) = {} THEN [status |-> "NONE", event |-> NoId]
  ELSE [status |-> StatusByType[L[LastOf(RowsTo(L, i, k))].type],
        event  |-> LastOf(RowsTo(L, i, k))]

LEMMA RowsToStep ==
  ASSUME ledger \in Seq(Event), NEW i, NEW k \in 1 .. Len(ledger)
  PROVE  /\ RowsTo(ledger, i, 0) = {}
         /\ RowsTo(ledger, i, Len(ledger)) = RowsOf(ledger, i)
         /\ RowsTo(ledger, i, k - 1) = {m \in RowsOf(ledger, i) : m < k}
         /\ RowsTo(ledger, i, k)
              = IF ledger[k].type \in IntentTypes /\ ledger[k].intent = i
                THEN RowsTo(ledger, i, k - 1) \union {k}
                ELSE RowsTo(ledger, i, k - 1)
<1>1. DOMAIN ledger = 1 .. Len(ledger) /\ Len(ledger) \in Nat
  BY LenProperties
<1>2. \A m \in 1 .. Len(ledger) : /\ m <= k <=> m < k \/ m = k
                                  /\ m < k <=> m <= k - 1
                                  /\ ~(m <= 0) /\ m <= Len(ledger)
  BY <1>1
<1> QED
  BY <1>1, <1>2 DEF RowsTo, RowsOf

LEMMA RowToStep ==
  ASSUME ledger \in Seq(Event), NEW i, NEW k \in 1 .. Len(ledger)
  PROVE  RowTo(ledger, i, k)
           = IF ledger[k].type \in IntentTypes /\ ledger[k].intent = i
             THEN [status |-> StatusByType[ledger[k].type], event |-> k]
             ELSE RowTo(ledger, i, k - 1)
<1>1. k - 1 \in Nat /\ k - 1 + 1 = k /\ RowsTo(ledger, i, k - 1) \in SUBSET (1 .. k - 1)
  <2>1. DOMAIN ledger = 1 .. Len(ledger) /\ Len(ledger) \in Nat
    BY LenProperties
  <2> QED
    BY <2>1 DEF RowsTo, RowsOf
<1>2. LastOf(RowsTo(ledger, i, k - 1) \union {k - 1 + 1}) = k - 1 + 1
  BY <1>1, LastOfAppended
<1> QED
  BY <1>1, <1>2, RowsToStep DEF RowTo

(* No row follows a terminal one, so the walk never meets one after it has *)
(* come to an end.                                                         *)
LEMMA NoRowAfterOutcome ==
  ASSUME ledger \in Seq(Event), LegalIntentHistory, NEW i \in Intents,
         NEW k \in RowsOf(ledger, i)
  PROVE  RowTo(ledger, i, k - 1).status \notin {StatusByType[t] : t \in TerminalTypes}
<1> DEFINE before == {m \in RowsOf(ledger, i) : m < k}
<1>1. k \in 1 .. Len(ledger) /\ RowsOf(ledger, i) \in SUBSET (1 .. Len(ledger))
  BY RowsArePositions
<1>2. RowsTo(ledger, i, k - 1) = before
  BY <1>1, RowsToStep
<1>3. "NONE" \notin {StatusByType[t] : t \in TerminalTypes}
  BY DEF StatusByType, TerminalTypes, IntentTypes
<1>4. ASSUME before # {}
      PROVE  StatusByType[ledger[LastOf(before)].type] \notin {StatusByType[t] : t \in TerminalTypes}
  <2>1. before \in SUBSET (1 .. Len(ledger)) /\ Len(ledger) \in Nat
    BY <1>1, RowsArePositions
  <2>2. LastOf(before) \in before
    <3> HIDE DEF before
    <3> QED
      BY <1>4, <2>1, LastOfIsGreatest
  <2>3. ledger[LastOf(before)].type \in IntentTypes
    BY <2>2 DEF RowsOf
  <2>4. AllowedIntentTransitions[ledger[LastOf(before)].type] # {}
    BY <1>4 DEF LegalIntentHistory
  <2> QED
    BY <2>3, <2>4 DEF AllowedIntentTransitions, StatusByType, TerminalTypes, IntentTypes
<1> QED
  BY <1>2, <1>3, <1>4 DEF RowTo

LEMMA ExpectedIntentsRow ==
  ASSUME TypeOK, LegalIntentHistory, IntentsAreKnown, NEW i \in Intents
  PROVE  ExpectedIntents(ledger)[i] = ExpectedIntentRow(ledger, i)
<1> DEFINE final == {StatusByType[t] : t \in TerminalTypes}
           start == [j \in Intents |-> [status |-> "NONE", event |-> NoId]]
           step(was, k) ==
             IF ledger[k].type \in IntentTypes /\ was[ledger[k].intent].status \notin final
             THEN [was EXCEPT ![ledger[k].intent] =
                     [status |-> StatusByType[ledger[k].type], event |-> k]]
             ELSE was
           n == Len(ledger)
           walk == CHOOSE at : at = [k \in 0 .. n |-> IF k = 0 THEN start ELSE step(at[k - 1], k)]
           rows(k) == [j \in Intents |-> RowTo(ledger, j, k)]
           closed == [k \in 0 .. n |-> rows(k)]
<1>1. ledger \in Seq(Event) /\ n \in Nat /\ DOMAIN ledger = 1 .. n
  BY LenProperties DEF TypeOK
<1>2. rows(0) = start
  <2>1. \A j \in Intents : RowsTo(ledger, j, 0) = {}
    BY <1>1 DEF RowsTo, RowsOf
  <2> QED
    BY <2>1 DEF RowTo
<1>3. ASSUME NEW k \in 1 .. n PROVE rows(k) = step(rows(k - 1), k)
  <2>1. CASE ledger[k].type \notin IntentTypes
    BY <1>1, <2>1, RowToStep
  <2>2. CASE ledger[k].type \in IntentTypes
    <3> DEFINE j == ledger[k].intent
    <3>1. j \in Intents /\ k \in RowsOf(ledger, j)
      BY <1>1, <2>2 DEF IntentsAreKnown, RowsOf
    <3>2. rows(k - 1)[j].status \notin final
      BY <1>1, <3>1, NoRowAfterOutcome
    <3>3. \A m \in Intents : RowTo(ledger, m, k)
            = IF m = j THEN [status |-> StatusByType[ledger[k].type], event |-> k]
              ELSE RowTo(ledger, m, k - 1)
      BY <1>1, <2>2, RowToStep
    <3> QED
      BY <2>2, <3>1, <3>2, <3>3
  <2> QED
    BY <2>1, <2>2
<1>4. closed = [k \in 0 .. n |-> IF k = 0 THEN start ELSE step(closed[k - 1], k)]
  <2> HIDE DEF start, step, rows, n
  <2>1. \A k \in 1 .. n : k - 1 \in 0 .. n
    BY <1>1
  <2>2. \A k \in 0 .. n : k = 0 \/ k \in 1 .. n
    BY <1>1
  <2> QED
    BY <1>2, <1>3, <2>1, <2>2
<1>5. walk = [k \in 0 .. n |-> IF k = 0 THEN start ELSE step(walk[k - 1], k)]
  <2> HIDE DEF start, step, closed, n
  <2> QED
    BY <1>4
<1>6. walk[n] = closed[n]
  <2> HIDE DEF start, step, closed, n, walk
  <2>1. walk[0] = closed[0] /\ \A k \in 1 .. n : walk[k - 1] = closed[k - 1] => walk[k] = closed[k]
    BY <1>1, <1>4, <1>5
  <2> QED
    BY <1>1, <2>1, WalksAgree
<1>7. ExpectedIntents(ledger) = walk[n]
  BY DEF ExpectedIntents, WalkOf
<1>8. ExpectedIntents(ledger)[i] = RowTo(ledger, i, n)
  <2> HIDE DEF walk
  <2> QED
    BY <1>1, <1>6, <1>7
<1>9. LastRowDecides(i)
  BY LastRowsDecide
<1>10. RowsTo(ledger, i, n) = RowsOf(ledger, i)
  BY <1>1 DEF RowsTo, RowsOf
<1> QED
  BY <1>8, <1>9, <1>10 DEF RowTo, LastRowDecides, LastType, ExpectedIntentRow

(* The submission of an intent among the first k events.                   *)
SubmissionTo(L, i, k) ==
  IF \E m \in SubmissionRows(L, i) : m <= k
  THEN StatusByType[L[FirstOf(SubmissionRows(L, i))].type] ELSE "NONE"

LEMMA OneSubmission ==
  ASSUME ledger \in Seq(Event), SubmissionFirst, NEW i \in Intents,
         NEW k \in SubmissionRows(ledger, i)
  PROVE  /\ FirstOf(SubmissionRows(ledger, i)) = k
         /\ \A m \in SubmissionRows(ledger, i) : m = k
<1>1. SubmissionRows(ledger, i) \in SUBSET (1 .. Len(ledger)) /\ Len(ledger) \in Nat
  BY RowsArePositions DEF SubmissionRows
<1>2. \A m \in SubmissionRows(ledger, i) : m <= k /\ k <= m
  BY DEF SubmissionRows, SubmissionFirst
<1>3. \A m \in SubmissionRows(ledger, i) : m = k
  BY <1>1, <1>2
<1>4. FirstOf(SubmissionRows(ledger, i)) \in SubmissionRows(ledger, i)
  BY <1>1, FirstOfIsLeast
<1> QED
  BY <1>3, <1>4

LEMMA SubmissionToStep ==
  ASSUME ledger \in Seq(Event), SubmissionFirst, NEW i \in Intents, NEW k \in 1 .. Len(ledger)
  PROVE  SubmissionTo(ledger, i, k)
           = IF ledger[k].type \in Submissions /\ ledger[k].intent = i
             THEN StatusByType[ledger[k].type]
             ELSE SubmissionTo(ledger, i, k - 1)
<1>1. /\ DOMAIN ledger = 1 .. Len(ledger) /\ Len(ledger) \in Nat
      /\ SubmissionRows(ledger, i) \in SUBSET (1 .. Len(ledger))
  BY LenProperties, RowsArePositions DEF SubmissionRows
<1>2. k \in SubmissionRows(ledger, i)
        <=> ledger[k].type \in Submissions /\ ledger[k].intent = i
  BY <1>1, TypesApart DEF SubmissionRows, RowsOf
<1>3. CASE k \in SubmissionRows(ledger, i)
  BY <1>1, <1>2, <1>3, OneSubmission DEF SubmissionTo
<1>4. CASE k \notin SubmissionRows(ledger, i)
  <2>1. \A m \in SubmissionRows(ledger, i) : m <= k <=> m <= k - 1
    BY <1>1, <1>4
  <2> QED
    BY <1>2, <1>4, <2>1 DEF SubmissionTo
<1> QED
  BY <1>3, <1>4

LEMMA ExpectedSubmissionRow ==
  ASSUME TypeOK, SubmissionFirst, IntentsAreKnown, NEW i \in Intents
  PROVE  ExpectedSubmission(ledger)[i] = ExpectedInboxRow(ledger, i)
<1> DEFINE start == [j \in Intents |-> "NONE"]
           step(was, k) ==
             IF ledger[k].type \in {"intent_submitted", "intent_rejected"}
             THEN [was EXCEPT ![ledger[k].intent] = StatusByType[ledger[k].type]] ELSE was
           n == Len(ledger)
           walk == CHOOSE at : at = [k \in 0 .. n |-> IF k = 0 THEN start ELSE step(at[k - 1], k)]
           rows(k) == [j \in Intents |-> SubmissionTo(ledger, j, k)]
           closed == [k \in 0 .. n |-> rows(k)]
<1>1. ledger \in Seq(Event) /\ n \in Nat /\ DOMAIN ledger = 1 .. n
  BY LenProperties DEF TypeOK
<1>2. rows(0) = start
  <2>1. \A j \in Intents : ~ \E m \in SubmissionRows(ledger, j) : m <= 0
    BY <1>1 DEF SubmissionRows, RowsOf
  <2> QED
    BY <2>1 DEF SubmissionTo
<1>3. ASSUME NEW k \in 1 .. n PROVE rows(k) = step(rows(k - 1), k)
  <2>1. CASE ledger[k].type \notin Submissions
    BY <1>1, <2>1, SubmissionToStep DEF Submissions
  <2>2. CASE ledger[k].type \in Submissions
    <3> DEFINE j == ledger[k].intent
    <3>1. j \in Intents
      BY <1>1, <2>2, TypesApart DEF IntentsAreKnown
    <3>2. \A m \in Intents : SubmissionTo(ledger, m, k)
            = IF m = j THEN StatusByType[ledger[k].type] ELSE SubmissionTo(ledger, m, k - 1)
      BY <1>1, <2>2, SubmissionToStep
    <3> QED
      BY <2>2, <3>1, <3>2 DEF Submissions
  <2> QED
    BY <2>1, <2>2
<1>4. closed = [k \in 0 .. n |-> IF k = 0 THEN start ELSE step(closed[k - 1], k)]
  <2> HIDE DEF start, step, rows, n
  <2>1. \A k \in 1 .. n : k - 1 \in 0 .. n
    BY <1>1
  <2>2. \A k \in 0 .. n : k = 0 \/ k \in 1 .. n
    BY <1>1
  <2> QED
    BY <1>2, <1>3, <2>1, <2>2
<1>5. walk = [k \in 0 .. n |-> IF k = 0 THEN start ELSE step(walk[k - 1], k)]
  <2> HIDE DEF start, step, closed, n
  <2> QED
    BY <1>4
<1>6. walk[n] = closed[n]
  <2> HIDE DEF start, step, closed, n, walk
  <2>1. walk[0] = closed[0] /\ \A k \in 1 .. n : walk[k - 1] = closed[k - 1] => walk[k] = closed[k]
    BY <1>1, <1>4, <1>5
  <2> QED
    BY <1>1, <2>1, WalksAgree
<1>7. ExpectedSubmission(ledger) = walk[n]
  BY DEF ExpectedSubmission, WalkOf
<1>8. ExpectedSubmission(ledger)[i] = SubmissionTo(ledger, i, n)
  <2> HIDE DEF walk
  <2> QED
    BY <1>1, <1>6, <1>7
<1>9. \A m \in SubmissionRows(ledger, i) : m <= n
  BY <1>1 DEF SubmissionRows, RowsOf
<1> QED
  BY <1>8, <1>9 DEF SubmissionTo, SubmissionRows, ExpectedInboxRow, Submissions

---------------------------------------------------------------------------
(* The claim that is active after the first k events.                      *)

ClaimsTo(L, i, k) ==
  {c \in 1 .. k : /\ IsClaim(L, c) /\ L[c].intent = i
                  /\ \A m \in 1 .. k : ~Releases(L, m, c)}

ClaimTo(L, i, k) == IF ClaimsTo(L, i, k) = {} THEN NoId ELSE FirstOf(ClaimsTo(L, i, k))

LEMMA ClaimToIsTheOne ==
  ASSUME NEW L, NEW i, NEW k \in Nat, NEW c, ClaimsTo(L, i, k) = {c}
  PROVE  ClaimTo(L, i, k) = c /\ c # NoId
<1>1. {c} \in SUBSET Nat /\ c # 0
  BY DEF ClaimsTo
<1>2. FirstOf({c}) \in {c}
  BY <1>1, FirstOfIsLeast
<1> QED
  BY <1>1, <1>2 DEF ClaimTo, NoId

(* A claim finds none active.                                              *)
LEMMA ClaimStepTo ==
  ASSUME ledger \in Seq(Event), ExclusiveClaims, NEW i \in Intents,
         NEW k \in 1 .. Len(ledger), IsClaim(ledger, k), ledger[k].intent = i
  PROVE  ClaimsTo(ledger, i, k - 1) = {} /\ ClaimsTo(ledger, i, k) = {k}
<1>1. DOMAIN ledger = 1 .. Len(ledger) /\ Len(ledger) \in Nat
  BY LenProperties
<1>2. \A c \in 1 .. k - 1 : c \in 1 .. Len(ledger) /\ c < k
  BY <1>1
<1>3. ASSUME NEW c \in 1 .. k - 1, IsClaim(ledger, c), ledger[c].intent = i
      PROVE  \E m \in 1 .. k - 1 : Releases(ledger, m, c)
  <2>1. PICK m \in DOMAIN ledger : m < k /\ Releases(ledger, m, c)
    BY <1>1, <1>2, <1>3 DEF ExclusiveClaims, IsClaim
  <2>2. m \in 1 .. k - 1
    BY <1>1, <2>1
  <2> QED
    BY <2>1, <2>2
<1>4. ClaimsTo(ledger, i, k - 1) = {}
  BY <1>3 DEF ClaimsTo
<1>5. \A c \in 1 .. k : c = k \/ c \in 1 .. k - 1
  OBVIOUS
<1>6. \A m \in 1 .. k - 1 : m \in 1 .. k
  OBVIOUS
<1>7. \A m \in 1 .. k : ~Releases(ledger, m, k)
  BY DEF Releases
<1> QED
  BY <1>3, <1>4, <1>5, <1>6, <1>7 DEF ClaimsTo

(* A release finds the claim that it names, and no other.                  *)
LEMMA ReleaseStepTo ==
  ASSUME ledger \in Seq(Event), ExclusiveClaims, NEW i \in Intents,
         NEW k \in 1 .. Len(ledger), ledger[k].type = "intent_released", ledger[k].intent = i
  PROVE  \E c \in 1 .. k - 1 : /\ ClaimsTo(ledger, i, k - 1) = {c}
                               /\ ClaimsTo(ledger, i, k) = {}
                               /\ ledger[c].claim = ledger[k].claim
                               /\ ledger[c].owner = ledger[k].owner
<1>1. DOMAIN ledger = 1 .. Len(ledger) /\ Len(ledger) \in Nat
  BY LenProperties
<1>2. PICK c \in DOMAIN ledger :
        /\ IsClaim(ledger, c) /\ Releases(ledger, k, c)
        /\ \A m \in DOMAIN ledger : Releases(ledger, m, c) => m = k
  BY <1>1 DEF ExclusiveClaims, IsClaim
<1>3. /\ c < k /\ c \in 1 .. k - 1 /\ ledger[c].intent = i
      /\ ledger[c].claim = ledger[k].claim /\ ledger[c].owner = ledger[k].owner
  BY <1>1, <1>2 DEF Releases
<1>4. \A m \in 1 .. k - 1 : m \in DOMAIN ledger /\ m # k /\ m \in 1 .. k
  BY <1>1
<1>5. c \in ClaimsTo(ledger, i, k - 1)
  BY <1>2, <1>3, <1>4 DEF ClaimsTo
<1>6. ASSUME NEW d \in ClaimsTo(ledger, i, k - 1), d # c PROVE FALSE
  <2>1. d \in 1 .. k - 1 /\ IsClaim(ledger, d) /\ ledger[d].intent = i
    BY DEF ClaimsTo
  <2>2. CASE d < c
    <3>1. PICK m \in DOMAIN ledger : m < c /\ Releases(ledger, m, d)
      BY <1>2, <1>3, <1>4, <2>1, <2>2 DEF ExclusiveClaims, IsClaim
    <3>2. m \in 1 .. k - 1
      BY <1>1, <1>3, <3>1
    <3> QED
      BY <3>1, <3>2 DEF ClaimsTo
  <2>3. CASE c < d
    <3>1. PICK m \in DOMAIN ledger : m < d /\ Releases(ledger, m, c)
      BY <1>2, <1>3, <1>4, <2>1, <2>3 DEF ExclusiveClaims, IsClaim
    <3>2. m = k /\ d < k
      BY <1>2, <2>1, <3>1
    <3> QED
      BY <1>1, <2>1, <3>1, <3>2
  <2> QED
    BY <1>1, <1>2, <1>6, <2>1, <2>2, <2>3
<1>7. ClaimsTo(ledger, i, k - 1) = {c}
  BY <1>5, <1>6
<1>8. ASSUME NEW d \in ClaimsTo(ledger, i, k) PROVE FALSE
  <2>1. d \in 1 .. k /\ IsClaim(ledger, d) /\ d # k
    BY DEF ClaimsTo, IsClaim
  <2>2. d \in 1 .. k - 1
    BY <2>1
  <2>3. d \in ClaimsTo(ledger, i, k - 1)
    BY <1>4, <1>8, <2>2 DEF ClaimsTo
  <2>4. d = c /\ k \in 1 .. k
    BY <1>7, <2>3
  <2> QED
    BY <1>2, <1>8, <2>4 DEF ClaimsTo
<1> QED
  BY <1>3, <1>7, <1>8

LEMMA OtherStepTo ==
  ASSUME ledger \in Seq(Event), NEW i \in Intents, NEW k \in 1 .. Len(ledger),
         ledger[k].type \notin ClaimTypes \/ ledger[k].intent # i
  PROVE  ClaimsTo(ledger, i, k) = ClaimsTo(ledger, i, k - 1)
<1>1. \A c \in 1 .. k : c = k \/ c \in 1 .. k - 1
  OBVIOUS
<1>2. \A m \in 1 .. k - 1 : m \in 1 .. k
  OBVIOUS
<1>3. ~(IsClaim(ledger, k) /\ ledger[k].intent = i)
  BY DEF IsClaim, ClaimTypes
<1>4. \A c : ledger[c].intent = i => ~Releases(ledger, k, c)
  BY DEF Releases, ClaimTypes
<1> QED
  BY <1>1, <1>2, <1>3, <1>4 DEF ClaimsTo

LEMMA WholeClaims ==
  ASSUME ledger \in Seq(Event), NEW i
  PROVE  ClaimTo(ledger, i, 0) = NoId /\ ClaimTo(ledger, i, Len(ledger)) = ActiveClaim(ledger, i)
<1>1. DOMAIN ledger = 1 .. Len(ledger)
  BY LenProperties
<1>2. ClaimsTo(ledger, i, Len(ledger)) = ActiveClaims(ledger, i)
  BY <1>1 DEF ClaimsTo, ActiveClaims, IsClaim
<1>3. ClaimsTo(ledger, i, 0) = {}
  BY DEF ClaimsTo
<1> QED
  BY <1>2, <1>3 DEF ClaimTo, ActiveClaim

(* replay_claim_events, one event at a time.                               *)
LEMMA ReplayStep ==
  ASSUME TypeOK, ClaimInv, NEW i \in Intents, NEW k \in 1 .. Len(ledger)
  PROVE  LET was == ClaimTo(ledger, i, k - 1)
         IN  ClaimTo(ledger, i, k) =
               CASE ledger[k].type = "intent_claim_established" /\ ledger[k].intent = i /\ was = NoId
                      -> ledger[k].claim
                 [] /\ ledger[k].type = "intent_released" /\ ledger[k].intent = i /\ was # NoId
                    /\ ledger[k].claim = was /\ ledger[k].owner = ledger[was].owner
                      -> NoId
                 [] OTHER -> was
<1> DEFINE was == ClaimTo(ledger, i, k - 1)
<1>1. /\ ledger \in Seq(Event) /\ DOMAIN ledger = 1 .. Len(ledger) /\ Len(ledger) \in Nat
      /\ k - 1 \in Nat /\ k \in Nat
  BY LenProperties DEF TypeOK
<1>2. ExclusiveClaims /\ \A c \in 1 .. Len(ledger) : IsClaim(ledger, c) => ledger[c].claim = c
  BY <1>1 DEF ClaimInv, OwnIds
<1>3. CASE ledger[k].type = "intent_claim_established" /\ ledger[k].intent = i
  <2>1. ClaimsTo(ledger, i, k - 1) = {} /\ ClaimsTo(ledger, i, k) = {k}
    BY <1>1, <1>2, <1>3, ClaimStepTo DEF IsClaim
  <2>2. was = NoId /\ ClaimTo(ledger, i, k) = k
    BY <1>1, <2>1, ClaimToIsTheOne DEF ClaimTo
  <2>3. ledger[k].claim = k
    BY <1>2, <1>3 DEF IsClaim
  <2> HIDE DEF was
  <2> QED
    BY <1>3, <2>2, <2>3 DEF was
<1>4. CASE ledger[k].type = "intent_released" /\ ledger[k].intent = i
  <2>1. PICK c \in 1 .. k - 1 : /\ ClaimsTo(ledger, i, k - 1) = {c}
                                /\ ClaimsTo(ledger, i, k) = {}
                                /\ ledger[c].claim = ledger[k].claim
                                /\ ledger[c].owner = ledger[k].owner
    BY <1>1, <1>2, <1>4, ReleaseStepTo
  <2>2. was = c /\ was # NoId /\ ClaimTo(ledger, i, k) = NoId
    BY <1>1, <2>1, ClaimToIsTheOne DEF ClaimTo
  <2>3. c \in 1 .. Len(ledger) /\ IsClaim(ledger, c)
    BY <1>1, <2>1 DEF ClaimsTo
  <2>4. ledger[c].claim = c
    BY <1>2, <2>3
  <2> HIDE DEF was
  <2> QED
    BY <1>4, <2>1, <2>2, <2>4 DEF was
<1>5. CASE ~(ledger[k].type \in ClaimTypes /\ ledger[k].intent = i)
  <2>1. ClaimTo(ledger, i, k) = was
    BY <1>1, <1>5, OtherStepTo DEF ClaimTo
  <2> HIDE DEF was
  <2> QED
    BY <1>5, <2>1 DEF was, ClaimTypes
<1> QED
  BY <1>3, <1>4, <1>5 DEF ClaimTypes

LEMMA ReplayFindsTheActiveClaim ==
  ASSUME TypeOK, ClaimInv, NEW i \in Intents
  PROVE  ReplayClaim(ledger, i) = ActiveClaim(ledger, i)
<1> DEFINE step(was, k) ==
             CASE ledger[k].type = "intent_claim_established" /\ ledger[k].intent = i /\ was = NoId
                    -> ledger[k].claim
               [] /\ ledger[k].type = "intent_released" /\ ledger[k].intent = i /\ was # NoId
                  /\ ledger[k].claim = was /\ ledger[k].owner = ledger[was].owner
                    -> NoId
               [] OTHER -> was
           n == Len(ledger)
           walk == CHOOSE at : at = [k \in 0 .. n |-> IF k = 0 THEN NoId ELSE step(at[k - 1], k)]
           closed == [k \in 0 .. n |-> ClaimTo(ledger, i, k)]
<1>1. ledger \in Seq(Event) /\ n \in Nat
  BY LenProperties DEF TypeOK
<1>2. \A k \in 1 .. n : ClaimTo(ledger, i, k) = step(ClaimTo(ledger, i, k - 1), k)
  BY ReplayStep
<1>3. closed = [k \in 0 .. n |-> IF k = 0 THEN NoId ELSE step(closed[k - 1], k)]
  <2> HIDE DEF step, n
  <2>1. \A k \in 1 .. n : k - 1 \in 0 .. n
    BY <1>1
  <2>2. \A k \in 0 .. n : k = 0 \/ k \in 1 .. n
    BY <1>1
  <2> QED
    BY <1>1, <1>2, <2>1, <2>2, WholeClaims
<1>4. walk = [k \in 0 .. n |-> IF k = 0 THEN NoId ELSE step(walk[k - 1], k)]
  <2> HIDE DEF step, closed, n
  <2> QED
    BY <1>3
<1>5. walk[n] = closed[n]
  <2> HIDE DEF step, closed, n, walk
  <2>1. walk[0] = closed[0] /\ \A k \in 1 .. n : walk[k - 1] = closed[k - 1] => walk[k] = closed[k]
    BY <1>1, <1>3, <1>4
  <2> QED
    BY <1>1, <2>1, WalksAgree
<1>6. ReplayClaim(ledger, i) = walk[n]
  BY DEF ReplayClaim
<1> QED
  <2> HIDE DEF walk
  <2> QED
    BY <1>1, <1>5, <1>6, WholeClaims

(* check_claim_history: the same claim, and never an error.                *)
LEMMA ClaimHistoryWalk ==
  ASSUME TypeOK, ClaimInv, IntentsAreKnown
  PROVE  CheckClaimHistory(ledger) = {}
<1> DEFINE start == [active |-> [i \in Intents |-> NoId], errors |-> {}]
           step(was, k) ==
             LET active == was.active[ledger[k].intent]
             IN  CASE ledger[k].type = "intent_claim_established" /\ active # NoId ->
                        [was EXCEPT !.errors = @ \union {<<"DUPLICATE_ACTIVE_CLAIM", k>>}]
                   [] ledger[k].type = "intent_claim_established" /\ active = NoId ->
                        [was EXCEPT !.active[ledger[k].intent] = k]
                   [] ledger[k].type = "intent_released" /\ active # NoId ->
                        IF ledger[k].claim = ledger[active].claim /\ ledger[k].owner = ledger[active].owner
                        THEN [was EXCEPT !.active[ledger[k].intent] = NoId]
                        ELSE [was EXCEPT !.errors = @ \union {<<"RELEASE_OWNER_MISMATCH", k>>}]
                   [] OTHER -> was
           n == Len(ledger)
           walk == CHOOSE at : at = [k \in 0 .. n |-> IF k = 0 THEN start ELSE step(at[k - 1], k)]
           claims(k) == [active |-> [i \in Intents |-> ClaimTo(ledger, i, k)], errors |-> {}]
           closed == [k \in 0 .. n |-> claims(k)]
<1>1. ledger \in Seq(Event) /\ n \in Nat /\ DOMAIN ledger = 1 .. n
  BY LenProperties DEF TypeOK
<1>2. claims(0) = start
  BY <1>1, WholeClaims
<1>3. ASSUME NEW k \in 1 .. n PROVE claims(k) = step(claims(k - 1), k)
  <2> DEFINE j == ledger[k].intent
             active == claims(k - 1).active[j]
  <2>0. ExclusiveClaims /\ k - 1 \in Nat /\ k \in Nat
    BY <1>1 DEF ClaimInv
  <2>1. \A i \in Intents : i # j => ClaimTo(ledger, i, k) = ClaimTo(ledger, i, k - 1)
    BY <1>1, OtherStepTo DEF ClaimTo
  <2>2. CASE ledger[k].type = "intent_claim_established"
    <3>1. j \in Intents
      BY <1>1, <2>2 DEF IntentsAreKnown, ClaimTypes
    <3>2. ClaimsTo(ledger, j, k - 1) = {} /\ ClaimsTo(ledger, j, k) = {k}
      BY <1>1, <2>0, <2>2, <3>1, ClaimStepTo DEF IsClaim
    <3>3. active = NoId /\ ClaimTo(ledger, j, k) = k
      BY <2>0, <3>1, <3>2, ClaimToIsTheOne DEF ClaimTo
    <3>4. claims(k) = [claims(k - 1) EXCEPT !.active[j] = k]
      <4> DEFINE f == [i \in Intents |-> ClaimTo(ledger, i, k - 1)]
                 g == [i \in Intents |-> ClaimTo(ledger, i, k)]
      <4>1. g = [f EXCEPT ![j] = k]
        BY <2>1, <3>1, <3>3
      <4>2. claims(k - 1) = [active |-> f, errors |-> {}]
        OBVIOUS
      <4>3. claims(k) = [active |-> g, errors |-> {}]
        OBVIOUS
      <4> HIDE DEF claims, f, g, j, active, start, step, n, walk, closed
      <4>4. ASSUME NEW c PROVE [claims(k - 1) EXCEPT !.active[j] = c]
                                 = [active |-> [f EXCEPT ![j] = c], errors |-> {}]
        BY <4>2
      <4> QED
        BY <4>1, <4>3, <4>4
    <3>5. step(claims(k - 1), k) = [claims(k - 1) EXCEPT !.active[j] = k]
      <4> HIDE DEF claims
      <4> QED
        BY <2>2, <3>3
    <3> QED
      BY <3>4, <3>5
  <2>3. CASE ledger[k].type = "intent_released"
    <3>1. j \in Intents
      BY <1>1, <2>3 DEF IntentsAreKnown, ClaimTypes
    <3>2. PICK c \in 1 .. k - 1 : /\ ClaimsTo(ledger, j, k - 1) = {c}
                                  /\ ClaimsTo(ledger, j, k) = {}
                                  /\ ledger[c].claim = ledger[k].claim
                                  /\ ledger[c].owner = ledger[k].owner
      BY <1>1, <2>0, <2>3, <3>1, ReleaseStepTo
    <3>3. active = c /\ active # NoId /\ ClaimTo(ledger, j, k) = NoId
      <4>1. ClaimTo(ledger, j, k - 1) = c /\ c # NoId
        BY <2>0, <3>2, ClaimToIsTheOne
      <4>2. ClaimTo(ledger, j, k) = NoId
        BY <3>2 DEF ClaimTo
      <4> QED
        BY <3>1, <4>1, <4>2
    <3>4. claims(k) = [claims(k - 1) EXCEPT !.active[j] = NoId]
      <4> DEFINE f == [i \in Intents |-> ClaimTo(ledger, i, k - 1)]
                 g == [i \in Intents |-> ClaimTo(ledger, i, k)]
      <4>1. g = [f EXCEPT ![j] = NoId]
        BY <2>1, <3>1, <3>3
      <4>2. claims(k - 1) = [active |-> f, errors |-> {}]
        OBVIOUS
      <4>3. claims(k) = [active |-> g, errors |-> {}]
        OBVIOUS
      <4> HIDE DEF claims, f, g, j, active, start, step, n, walk, closed
      <4> QED
        BY <4>1, <4>2, <4>3
    <3>5. step(claims(k - 1), k) = [claims(k - 1) EXCEPT !.active[j] = NoId]
      <4> HIDE DEF claims
      <4> QED
        BY <2>3, <3>2, <3>3
    <3> QED
      BY <3>4, <3>5
  <2>4. CASE ledger[k].type \notin ClaimTypes
    <3>1. claims(k) = claims(k - 1)
      BY <1>1, <2>4, OtherStepTo DEF ClaimTo
    <3>2. step(claims(k - 1), k) = claims(k - 1)
      <4> HIDE DEF claims
      <4> QED
        BY <2>4 DEF ClaimTypes
    <3> QED
      BY <3>1, <3>2
  <2> QED
    BY <2>2, <2>3, <2>4 DEF ClaimTypes
<1>4. closed = [k \in 0 .. n |-> IF k = 0 THEN start ELSE step(closed[k - 1], k)]
  <2> HIDE DEF start, step, claims, n
  <2>1. \A k \in 1 .. n : k - 1 \in 0 .. n
    BY <1>1
  <2>2. \A k \in 0 .. n : k = 0 \/ k \in 1 .. n
    BY <1>1
  <2> QED
    BY <1>2, <1>3, <2>1, <2>2
<1>5. walk = [k \in 0 .. n |-> IF k = 0 THEN start ELSE step(walk[k - 1], k)]
  <2> HIDE DEF start, step, closed, n
  <2> QED
    BY <1>4
<1>6. walk[n] = closed[n]
  <2> HIDE DEF start, step, closed, n, walk
  <2>1. walk[0] = closed[0] /\ \A k \in 1 .. n : walk[k - 1] = closed[k - 1] => walk[k] = closed[k]
    BY <1>1, <1>4, <1>5
  <2> QED
    BY <1>1, <2>1, WalksAgree
<1>7. CheckClaimHistory(ledger) = walk[n].errors
  BY DEF CheckClaimHistory, WalkOf
<1> QED
  <2> HIDE DEF walk
  <2> QED
    BY <1>1, <1>6, <1>7

---------------------------------------------------------------------------
(* The auditor's checks of the history find nothing.                       *)

LEMMA FieldsRead ==
  ASSUME NEW e \in Event
  PROVE  e["intent"] = e.intent /\ e["run"] = e.run
BY DEF Event

LEMMA TransitionsAreLegal ==
  ASSUME TypeOK, LegalIntentHistory, IntentsAreKnown
  PROVE  CheckIntentTransitions(ledger) = {}
<1> SUFFICES ASSUME NEW k \in DOMAIN ledger, ledger[k].type \in IntentTypes
             PROVE  IF PreviousType(ledger, IntentTypes, "intent", k) = "none"
                    THEN ledger[k].type \in Submissions
                    ELSE ledger[k].type
                           \in AllowedIntentTransitions[PreviousType(ledger, IntentTypes, "intent", k)]
  BY DEF CheckIntentTransitions, Submissions
<1> DEFINE i == ledger[k].intent
           before == {m \in RowsOf(ledger, i) : m < k}
<1>1. /\ ledger \in Seq(Event) /\ Len(ledger) \in Nat /\ DOMAIN ledger = 1 .. Len(ledger)
      /\ \A m \in DOMAIN ledger : ledger[m] \in Event
  BY LenProperties DEF TypeOK
<1>2. i \in Intents /\ k \in RowsOf(ledger, i)
  BY DEF IntentsAreKnown, RowsOf
<1>3. \A m : m \in 1 .. k - 1 <=> m \in DOMAIN ledger /\ m < k
  BY <1>1
<1>4. {m \in 1 .. k - 1 : ledger[m].type \in IntentTypes /\ ledger[m]["intent"] = ledger[k]["intent"]}
        = before
  BY <1>1, <1>3, FieldsRead DEF RowsOf
<1>5. PreviousType(ledger, IntentTypes, "intent", k)
        = IF before = {} THEN "none" ELSE ledger[LastOf(before)].type
  <2> HIDE DEF before
  <2> QED
    BY <1>4 DEF PreviousType
<1>6. before # {} => LastOf(before) \in RowsOf(ledger, i)
  <2>1. before \in SUBSET (1 .. Len(ledger))
    BY <1>1 DEF RowsOf
  <2> QED
    BY <1>1, <2>1, LastOfIsGreatest
<1>7. before # {} => ledger[LastOf(before)].type # "none"
  BY <1>6 DEF RowsOf, IntentTypes
<1>8. IF before = {} THEN ledger[k].type \in Submissions
      ELSE ledger[k].type \in AllowedIntentTransitions[ledger[LastOf(before)].type]
  BY <1>2 DEF LegalIntentHistory, Submissions
<1> HIDE DEF before
<1> QED
  BY <1>5, <1>7, <1>8

LEMMA RunTransitionsAreLegal ==
  ASSUME TypeOK, LegalRunHistory
  PROVE  CheckLifecycleTransitions(ledger) = {}
<1> SUFFICES ASSUME NEW k \in DOMAIN ledger, ledger[k].type \in RunTypes
             PROVE  IF PreviousType(ledger, RunTypes, "run", k) = "none"
                    THEN ledger[k].type = "run_created"
                    ELSE ledger[k].type
                           \in AllowedRunTransitions[PreviousType(ledger, RunTypes, "run", k)]
  BY DEF CheckLifecycleTransitions
<1> DEFINE before == EarlierRunRows(ledger, k)
<1>1. /\ ledger \in Seq(Event) /\ Len(ledger) \in Nat /\ DOMAIN ledger = 1 .. Len(ledger)
      /\ \A m \in DOMAIN ledger : ledger[m] \in Event
  BY LenProperties DEF TypeOK
<1>3. \A m : m \in 1 .. k - 1 <=> m \in DOMAIN ledger /\ m < k
  BY <1>1
<1>4. {m \in 1 .. k - 1 : ledger[m].type \in RunTypes /\ ledger[m]["run"] = ledger[k]["run"]} = before
  BY <1>1, <1>3, FieldsRead DEF RunRows, EarlierRunRows
<1>5. PreviousType(ledger, RunTypes, "run", k)
        = IF before = {} THEN "none" ELSE ledger[LastOf(before)].type
  <2> HIDE DEF before
  <2> QED
    BY <1>4 DEF PreviousType
<1>7. before # {} => ledger[LastOf(before)].type # "none"
  BY <1>1, EarlierIsEarlier DEF EarlierRunRows, RunRows, RunTypes
<1>8. IF before = {} THEN ledger[k].type = "run_created"
      ELSE ledger[k].type \in AllowedRunTransitions[ledger[LastOf(before)].type]
  BY DEF LegalRunHistory
<1> HIDE DEF before
<1> QED
  BY <1>5, <1>7, <1>8

LEMMA HistoryIsClean ==
  ASSUME TypeOK, HistoryInv, ClaimInv, RunHistory, IntentsAreKnown
  PROVE  HistoryErrors(ledger) = {}
<1>1. CheckIntentTransitions(ledger) = {}
  BY TransitionsAreLegal DEF HistoryInv
<1>2. CheckLifecycleTransitions(ledger) = {}
  BY RunTransitionsAreLegal DEF RunHistory
<1>3. CheckClaimHistory(ledger) = {}
  BY ClaimHistoryWalk
<1>4. \A k \in DOMAIN ledger : k \in Nat /\ DOMAIN ledger = 1 .. Len(ledger) /\ Len(ledger) \in Nat
  BY LenProperties DEF TypeOK
<1>5. CheckDuplicateClaims(ledger) = {}
  <2> SUFFICES ASSUME NEW j \in DOMAIN ledger, NEW m \in DOMAIN ledger, j < m,
                      ledger[j].type = "intent_claimed", ledger[m].type = "intent_claimed",
                      ledger[j].intent = ledger[m].intent
               PROVE  FALSE
    BY DEF CheckDuplicateClaims
  <2>1. ledger[m].intent \in Intents
    BY DEF IntentsAreKnown, IntentTypes
  <2> QED
    BY <1>4, <2>1 DEF HistoryInv, SingleClaim
<1>6. CheckArtifactSchema(ledger) = {}
  <2> SUFFICES ASSUME NEW m \in DOMAIN ledger, ledger[m].type = "artifact_written"
               PROVE  \E c \in DOMAIN ledger :
                        ledger[c].type = "run_created" /\ ledger[c].run = ledger[m].run
    BY DEF CheckArtifactSchema
  <2>1. ledger[m].run \in DOMAIN ledger
    BY <1>4 DEF RunHistory, RunsBegin, RunTypes
  <2> QED
    BY <2>1 DEF RunHistory, RunsBegin, RunTypes
<1> QED
  BY <1>1, <1>2, <1>3, <1>5, <1>6 DEF HistoryErrors

---------------------------------------------------------------------------
(* Its checks of the tables find only rows that missed a write.            *)

LEMMA IntentTablesPass ==
  ASSUME TypeOK, HistoryInv, IntentsAreKnown, LiveEqualsRebuilt, stale \cap {"inbox", "intents"} = {}
  PROVE  CheckIntents(ledger, inbox, intentProj) = {}
<1>1. \A i \in Intents : /\ inbox[i] = ExpectedInboxRow(ledger, i)
                         /\ intentProj[i] = ExpectedIntentRow(ledger, i)
  BY DEF LiveEqualsRebuilt
<1>2. \A i \in Intents : /\ ExpectedSubmission(ledger)[i] = ExpectedInboxRow(ledger, i)
                         /\ ExpectedIntents(ledger)[i] = ExpectedIntentRow(ledger, i)
  BY ExpectedSubmissionRow, ExpectedIntentsRow DEF HistoryInv
<1> QED
  BY <1>1, <1>2 DEF CheckIntents

LEMMA ClaimTablePasses ==
  ASSUME TypeOK, ClaimInv, LiveEqualsRebuilt, "claims" \notin stale
  PROVE  CheckClaimProjection(ledger, claimProj) = {}
<1>1. \A i \in Intents : claimProj[i] = ClaimRow(i, ActiveClaim(ledger, i))
  BY DEF LiveEqualsRebuilt
<1>2. \A i \in Intents : ReplayClaim(ledger, i) = ActiveClaim(ledger, i)
  BY ReplayFindsTheActiveClaim
<1> QED
  BY <1>1, <1>2 DEF CheckClaimProjection, ClaimRow, NoClaimRow

LEMMA RunTablePasses ==
  ASSUME TypeOK, LiveEqualsRebuilt, "runs" \notin stale
  PROVE  CheckProjections(ledger, runProj) = {}
<1> SUFFICES ASSUME NEW m \in DOMAIN ledger, ledger[m].type \in RunTypes
             PROVE  LET r == ledger[m].run
                    IN  {row \in runProj : row.run = r}
                          = {[run |-> r, state |-> ledger[LastOf(RunRows(ledger, r))].type,
                              event |-> LastOf(RunRows(ledger, r))]}
  BY DEF CheckProjections, RunRows
<1> DEFINE r == ledger[m].run
           rowOf(q) == [run |-> q, state |-> RunState(ledger, q), event |-> LastOf(RunRows(ledger, q))]
<1>1. runProj = {rowOf(q) : q \in RunIds(ledger)}
  BY DEF LiveEqualsRebuilt, ExpectedRunRows
<1>2. r \in RunIds(ledger) /\ RunState(ledger, r) = ledger[LastOf(RunRows(ledger, r))].type
  BY DEF RunIds, RunState, RunRows
<1>3. \A q : rowOf(q).run = q
  OBVIOUS
<1>4. {row \in runProj : row.run = r} = {rowOf(r)}
  <2> HIDE DEF rowOf, r
  <2> QED
    BY <1>1, <1>2, <1>3
<1> QED
  BY <1>2, <1>4

LEMMA AuditFindsOnlyLostWrites ==
  TypeOK /\ HistoryInv /\ ClaimInv /\ RunHistory /\ IntentsAreKnown /\ LiveEqualsRebuilt
    => AuditAccusesOnlyLostWrites
BY HistoryIsClean, IntentTablesPass, ClaimTablePasses, RunTablePasses
   DEF AuditAccusesOnlyLostWrites

LEMMA RunInit == Init => RunHistory /\ IntentsAreKnown
BY DEF Init, RunHistory, RunsBegin, LegalRunHistory, IntentsAreKnown

(* `leira audit` accuses nobody wrongly.  The history the kernels make is  *)
(* one the auditor's own walks accept, and where a check of a table fails, *)
(* that table has missed a write.                                          *)
THEOREM AuditIsFair ==
  ASSUME NestedIds = FALSE
  PROVE  Spec => []AuditAccusesOnlyLostWrites
<1>1. TypeOK /\ TypeOK' /\ HistoryInv /\ IntentsAreKnown /\ [Next]_vars => IntentsAreKnown'
  BY StepShape, IntentsKnownNext
<1> QED
  BY <1>1, RunInit, RunHistoryNext, AuditFindsOnlyLostWrites, HistoryCorrect, ClaimsCorrect,
     LiveIsRebuilt, TypeCorrect, PTL DEF Spec

===========================================================================
