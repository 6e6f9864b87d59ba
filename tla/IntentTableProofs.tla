------------------------ MODULE IntentTableProofs -------------------------
(***************************************************************************)
(* Who owns an intent, and what the tables beside the ledger say: theorems *)
(* about IntentDispatch, for any number of intents, owners, events, nested *)
(* dispatches and faults.                                                  *)
(*                                                                         *)
(* Claims need no assumption about payloads (NestedIds): the claim store   *)
(* compares the id in what its LIKE finds, get_intent_status does not.     *)
(***************************************************************************)
EXTENDS IntentDispatchProofs

(* The inductive invariant: the claim id of a claim is its own, and claims *)
(* are exclusive.                                                          *)
IsClaim(L, k) == L[k].type = "intent_claim_established"

OwnIds(L) == \A k \in DOMAIN L : IsClaim(L, k) => L[k].claim = k

ClaimInv == OwnIds(ledger) /\ ExclusiveClaims

---------------------------------------------------------------------------
(* What a step says of claims.                                             *)

SaysNothing ==
  \/ UNCHANGED ledger
  \/ \E e \in Event :
       Appends(e) /\ e.type \notin {"intent_claim_established", "intent_released"}

Establishes(i, o) ==
  /\ ActiveClaim(ledger, i) = NoId
  /\ Appends(ClaimEvent("intent_claim_established", i, Here, o))

Relinquishes(i, o) ==
  /\ Releasable(i, o)
  /\ Appends(ClaimEvent("intent_released", i, ActiveClaim(ledger, i), o))

ClaimStep ==
  \/ SaysNothing
  \/ \E i \in Intents, o \in Owners : Establishes(i, o)
  \/ \E i \in Intents \union {NoIntent}, o \in Owners : Relinquishes(i, o)

LEMMA FailedAppendSaysNothing == ASSUME AppendFails PROVE SaysNothing
BY DEF AppendFails, db, SaysNothing

LEMMA NoteSaysNothing ==
  ASSUME NEW e \in Event, e.type \notin {"intent_claim_established", "intent_released"},
         Note(e)
  PROVE  SaysNothing
<1>1. CASE AppendNote(e)
  BY <1>1 DEF AppendNote, Append1, SaysNothing, Appends
<1> QED
  BY <1>1, FailedAppendSaysNothing DEF Note

LEMMA IntentEventSaysNothing ==
  ASSUME NEW t \in IntentTypes, NEW i \in Intents \union {NoIntent},
         ledger' = Append(ledger, IntentEvent(t, i))
  PROVE  SaysNothing
<1>1. t \notin {"intent_claim_established", "intent_released"}
  BY DEF IntentTypes
<1> QED
  BY <1>1, EventsTyped, IntentEventSays DEF SaysNothing, Appends

LEMMA RunEventSaysNothing ==
  ASSUME NEW t \in RunTypes, NEW i \in Intents \union {NoIntent}, NEW r \in Nat,
         AppendRunEvent(RunEvent(t, i, r))
  PROVE  SaysNothing
<1>1. t \notin {"intent_claim_established", "intent_released"}
  BY DEF RunTypes
<1> QED
  BY <1>1, EventsTyped, RunEventSays DEF SaysNothing, Appends, AppendRunEvent, Append1

LEMMA SubmitSaysNothing ==
  ASSUME NEW i \in Intents, NEW type \in Submissions, NEW nested \in SUBSET Intents,
         Submit(i, type, nested)
  PROVE  SaysNothing
<1> DEFINE e == SubmitEvent(type, i, nested)
<1>1. e \in Event /\ e.type = type
  BY EventsTyped, SubmitEventSays DEF Submissions, IntentTypes
<1>2. type \notin {"intent_claim_established", "intent_released"}
  BY DEF Submissions
<1>3. Appends(e) \/ AppendFails
  BY DEF Submit, Append1, Appends
<1> HIDE DEF e
<1> QED
  BY <1>1, <1>2, <1>3, FailedAppendSaysNothing DEF SaysNothing

LEMMA ClaimCallStep ==
  ASSUME DbOK, NEW i \in Intents \union {NoIntent}, NEW o \in Owners \union {NoOwner},
         \/ i \in Intents /\ Claimable(i, o) /\ EstablishClaim(i, o)
         \/ i \in Intents /\ RejectClaim(i, o)
         \/ ReleaseClaim(i, o)
  PROVE  ClaimStep
<1>1. Here \in Nat /\ ActiveClaim(ledger, i) \in Nat
  BY ActiveClaimTyped DEF DbOK, Here
<1>2. \A t \in {"intent_claim_rejected", "intent_release_rejected"}, c \in Nat :
        Note(ClaimEvent(t, i, c, o)) => SaysNothing
  <2> SUFFICES ASSUME NEW t \in {"intent_claim_rejected", "intent_release_rejected"},
                      NEW c \in Nat, Note(ClaimEvent(t, i, c, o))
               PROVE  SaysNothing
    OBVIOUS
  <2>1. t \in IntentTypes \union RunTypes \union OtherTypes
    BY DEF OtherTypes
  <2>2. ClaimEvent(t, i, c, o) \in Event
    BY <2>1, EventsTyped
  <2>3. ClaimEvent(t, i, c, o).type \notin {"intent_claim_established", "intent_released"}
    BY ClaimEventSays
  <2> QED
    BY <2>2, <2>3, NoteSaysNothing
<1>3. CASE i \in Intents /\ Claimable(i, o) /\ EstablishClaim(i, o)
  BY <1>3 DEF EstablishClaim, Claimable, ClaimStep, Establishes, Append1, Appends
<1>4. CASE i \in Intents /\ RejectClaim(i, o)
  BY <1>2, <1>4 DEF RejectClaim, ClaimStep, NoId
<1>5. CASE ReleaseClaim(i, o)
  <2> DEFINE c == IF o = NoOwner THEN NoId ELSE ActiveClaim(ledger, i)
  <2>1. c \in Nat
    BY <1>1 DEF NoId
  <2>2. \/ Note(ClaimEvent("intent_release_rejected", i, c, o))
        \/ Relinquishes(i, o) /\ o \in Owners
        \/ AppendFails
    BY <1>5 DEF ReleaseClaim, Relinquishes, Releasable, Append1, Appends
  <2> HIDE DEF c
  <2> QED
    BY <1>2, <2>1, <2>2, FailedAppendSaysNothing DEF ClaimStep
<1> QED
  BY <1>3, <1>4, <1>5

LEMMA CallClaimStep == ASSUME TypeOK, Call PROVE ClaimStep
<1>1. PICK i \in Intents :
        \/ SubmitAccepted(i)
        \/ SubmitRejected(i)
        \/ \E o \in Owners \union {NoOwner} : ClaimIntent(i, o) \/ CallRelease(i, o)
        \/ \E named \in BOOLEAN, capture \in Captures :
             \/ Dispatch(i, named, capture)
             \/ \E o \in Owners \union {NoOwner} : DispatchAndTrack(i, named, o, capture)
  BY DEF Call
<1>2. DbOK
  BY TypeParts
<1>3. CASE SubmitAccepted(i) \/ SubmitRejected(i)
  <2>1. Payloads \subseteq SUBSET Intents
    BY DEF Payloads
  <2> QED
    BY <1>3, <2>1, SubmitSaysNothing DEF SubmitAccepted, SubmitRejected, Submissions, ClaimStep
<1>4. ASSUME NEW o \in Owners \union {NoOwner}, ClaimIntent(i, o) \/ CallRelease(i, o)
      PROVE  ClaimStep
  <2>1. \/ Claimable(i, o) /\ EstablishClaim(i, o)
        \/ RejectClaim(i, o) \/ ReleaseClaim(i, o) \/ AppendFails
    BY <1>4 DEF ClaimIntent, CallRelease
  <2> QED
    BY <1>2, <2>1, ClaimCallStep, FailedAppendSaysNothing DEF ClaimStep
<1>5. ASSUME NEW named, NEW capture, Dispatch(i, named, capture) PROVE ClaimStep
  BY <1>5 DEF Dispatch, db, ClaimStep, SaysNothing
<1>6. ASSUME NEW named, NEW capture, NEW o \in Owners \union {NoOwner},
             DispatchAndTrack(i, named, o, capture)
      PROVE  ClaimStep
  <2>1. \/ Claimable(i, o) /\ EstablishClaim(i, o)
        \/ RejectClaim(i, o) \/ AppendFails
    BY <1>6 DEF DispatchAndTrack
  <2> QED
    BY <1>2, <2>1, ClaimCallStep, FailedAppendSaysNothing DEF ClaimStep
<1> QED
  BY <1>1, <1>3, <1>4, <1>5, <1>6

LEMMA DispatchClaimStep == ASSUME TypeOK, DispatchStep PROVE ClaimStep
<1>1. Top \in Frame
  BY TopTyped
<1>2. /\ Top.intent \in Intents \union {NoIntent} /\ Top.owner \in Owners \union {NoOwner}
      /\ Top.run \in Nat
  BY <1>1, FrameFields
<1>3. DbOK /\ Here \in Nat
  BY TypeParts, LenProperties DEF Here, DbOK
<1>4. ASSUME NEW t \in IntentTypes \union OtherTypes,
             t \notin {"intent_claim_established", "intent_released"},
             ledger' = Append(ledger, IntentEvent(t, Top.intent))
      PROVE  SaysNothing
  BY <1>2, <1>4, EventsTyped, IntentEventSays DEF SaysNothing, Appends
<1>5. CASE BeginDispatch
  <2>1. \/ ledger' = Append(ledger, IntentEvent("intent_claimed", Top.intent))
        \/ UNCHANGED ledger
    BY <1>5 DEF BeginDispatch, AppendIntentEvent, Append1, AppendFails, db
  <2> QED
    BY <1>4, <2>1 DEF ClaimStep, SaysNothing, IntentTypes
<1>6. ASSUME NEW step, NEW captured \in OtherTypes, NEW failed \in OtherTypes, NEW next,
             Capture(step, captured, failed, next),
             captured \notin {"intent_claim_established", "intent_released"},
             failed \notin {"intent_claim_established", "intent_released"}
      PROVE  ClaimStep
  <2>1. \/ ledger' = Append(ledger, IntentEvent(captured, Top.intent))
        \/ ledger' = Append(ledger, IntentEvent(failed, Top.intent))
        \/ UNCHANGED ledger
    BY <1>6 DEF Capture, AppendNote, Append1, AppendFails, db
  <2> QED
    BY <1>4, <1>6, <2>1 DEF ClaimStep, SaysNothing
<1>7. CASE CaptureProvenance \/ CaptureEnvironment
  BY <1>6, <1>7 DEF CaptureProvenance, CaptureEnvironment, OtherTypes
<1>8. CASE CreateRun \/ StartRunning \/ RecordArtifact
  <2>1. \/ \E t \in RunTypes, i \in Intents \union {NoIntent}, r \in Nat :
             AppendRunEvent(RunEvent(t, i, r))
        \/ UNCHANGED ledger
    BY <1>2, <1>3, <1>8 DEF CreateRun, StartRunning, RecordArtifact, AppendFails, db, RunTypes
  <2> QED
    BY <2>1, RunEventSaysNothing DEF ClaimStep, SaysNothing
<1>9. ASSUME NEW step, NEW t \in IntentTypes, Conclude(step, t) PROVE ClaimStep
  <2>1. \/ ledger' = Append(ledger, IntentEvent(t, Top.intent))
        \/ UNCHANGED ledger
    BY <1>9 DEF Conclude, AppendIntentEvent, Append1, AppendFails, db
  <2> QED
    BY <1>2, <2>1, IntentEventSaysNothing DEF ClaimStep, SaysNothing
<1>10. CASE CompleteIntent \/ FailIntent \/ AbortIntent
  BY <1>9, <1>10 DEF CompleteIntent, FailIntent, AbortIntent, IntentTypes
<1>11. CASE TrackedRelease
  BY <1>2, <1>3, <1>11, ClaimCallStep DEF TrackedRelease
<1> QED
  BY <1>5, <1>7, <1>8, <1>10, <1>11 DEF DispatchStep

LEMMA NextClaimStep == ASSUME TypeOK, [Next]_vars PROVE ClaimStep
<1>1. CASE Crash \/ Rebuilds \/ UNCHANGED vars
  BY <1>1 DEF Crash, Rebuilds, RebuildInboxEntries, RebuildIntentProjection,
              RebuildClaimProjection, RebuildProjection, Rebuild, vars, db,
              ClaimStep, SaysNothing
<1> QED
  BY <1>1, CallClaimStep, DispatchClaimStep DEF Next

---------------------------------------------------------------------------
(* Claims stay exclusive.  Both halves of the property are about a ledger, *)
(* so they are written for the ledger before and after a step.             *)

Succession(L) ==
  \A i \in Intents, j, k \in DOMAIN L :
    j < k /\ IsClaim(L, j) /\ L[j].intent = i /\ IsClaim(L, k) /\ L[k].intent = i
      => \E m \in DOMAIN L : m < k /\ Releases(L, m, j)

EndsOneClaim(L, m, k) ==
  IsClaim(L, k) /\ Releases(L, m, k) /\ \A n \in DOMAIN L : Releases(L, n, k) => n = m

Pairing(L) ==
  \A m \in DOMAIN L : L[m].type = "intent_released" => \E k \in DOMAIN L : EndsOneClaim(L, m, k)

LEMMA ClaimInvParts ==
  ClaimInv <=> OwnIds(ledger) /\ Succession(ledger) /\ Pairing(ledger)
<1>1. ExclusiveClaims <=> Succession(ledger) /\ Pairing(ledger)
  BY DEF ExclusiveClaims, Succession, Pairing, EndsOneClaim, IsClaim
<1> QED
  BY <1>1 DEF ClaimInv

LEMMA ClaimInvPartsNext ==
  ClaimInv' <=> OwnIds(ledger') /\ Succession(ledger') /\ Pairing(ledger')
<1>1. ExclusiveClaims' <=> Succession(ledger') /\ Pairing(ledger')
  BY DEF ExclusiveClaims, Succession, Pairing, EndsOneClaim, IsClaim
<1> QED
  BY <1>1 DEF ClaimInv

LEMMA KeptReleases ==
  ASSUME ledger \in Seq(Event), NEW e \in Event, Appends(e)
  PROVE  /\ DOMAIN ledger = 1 .. Len(ledger) /\ Len(ledger) \in Nat
         /\ DOMAIN ledger' = 1 .. Len(ledger) + 1 /\ ledger'[Len(ledger) + 1] = e
         /\ \A k \in 1 .. Len(ledger) : ledger'[k] = ledger[k]
         /\ \A m, k \in 1 .. Len(ledger) : Releases(ledger', m, k) <=> Releases(ledger, m, k)
         /\ \A k \in 1 .. Len(ledger) :
              Releases(ledger', Len(ledger) + 1, k) <=>
                /\ e.type = "intent_released" /\ e.intent = ledger[k].intent
                /\ e.claim = ledger[k].claim /\ e.owner = ledger[k].owner
<1>1. /\ DOMAIN ledger = 1 .. Len(ledger) /\ Len(ledger) \in Nat
      /\ DOMAIN ledger' = 1 .. Len(ledger) + 1 /\ ledger'[Len(ledger) + 1] = e
      /\ \A k \in 1 .. Len(ledger) : ledger'[k] = ledger[k]
  BY AppendedLedger, LenProperties DEF Appends
<1>2. \A k \in 1 .. Len(ledger) : Len(ledger) + 1 > k
  BY <1>1
<1> QED
  BY <1>1, <1>2 DEF Releases

LEMMA SilenceKeepsClaims ==
  ASSUME ledger \in Seq(Event), ClaimInv, SaysNothing
  PROVE  ClaimInv'
<1>1. CASE UNCHANGED ledger
  BY <1>1, ClaimInvParts, ClaimInvPartsNext
<1>2. ASSUME NEW e \in Event, Appends(e),
             e.type \notin {"intent_claim_established", "intent_released"}
      PROVE  ClaimInv'
  <2> DEFINE n == Len(ledger) + 1
  <2>1. /\ n \in Nat /\ DOMAIN ledger = 1 .. n - 1 /\ DOMAIN ledger' = 1 .. n
        /\ ledger'[n] = e
        /\ \A k \in 1 .. n - 1 : ledger'[k] = ledger[k]
        /\ \A m, k \in 1 .. n - 1 : Releases(ledger', m, k) <=> Releases(ledger, m, k)
        /\ \A k \in 1 .. n - 1 : ~Releases(ledger', n, k)
    BY <1>2, KeptReleases
  <2> HIDE DEF n
  <2>2. \A k \in 1 .. n : IsClaim(ledger', k) => k \in 1 .. n - 1 /\ IsClaim(ledger, k)
    BY <1>2, <2>1 DEF IsClaim
  <2>3. OwnIds(ledger')
    BY <2>1, <2>2, ClaimInvParts DEF OwnIds
  <2>4. Succession(ledger')
    <3> SUFFICES ASSUME NEW i \in Intents, NEW j \in 1 .. n, NEW k \in 1 .. n, j < k,
                        IsClaim(ledger', j), ledger'[j].intent = i,
                        IsClaim(ledger', k), ledger'[k].intent = i
                 PROVE  \E m \in 1 .. n : m < k /\ Releases(ledger', m, j)
      BY <2>1 DEF Succession
    <3>1. PICK m \in 1 .. n - 1 : m < k /\ Releases(ledger, m, j)
      BY <2>1, <2>2, ClaimInvParts DEF Succession
    <3> QED
      BY <2>1, <2>2, <3>1
  <2>5. Pairing(ledger')
    <3> SUFFICES ASSUME NEW m \in 1 .. n, ledger'[m].type = "intent_released"
                 PROVE  \E k \in 1 .. n : EndsOneClaim(ledger', m, k)
      BY <2>1 DEF Pairing
    <3>1. m \in 1 .. n - 1 /\ ledger[m].type = "intent_released"
      BY <1>2, <2>1
    <3>2. PICK k \in 1 .. n - 1 : EndsOneClaim(ledger, m, k)
      BY <2>1, <3>1, ClaimInvParts DEF Pairing
    <3>3. \A x \in 1 .. n : Releases(ledger', x, k) => x = m
      BY <2>1, <3>1, <3>2 DEF EndsOneClaim
    <3> QED
      BY <2>1, <3>1, <3>2, <3>3 DEF EndsOneClaim, IsClaim
  <2> QED
    BY <2>3, <2>4, <2>5, ClaimInvPartsNext
<1> QED
  BY <1>1, <1>2 DEF SaysNothing

LEMMA NoActiveClaim ==
  ASSUME ledger \in Seq(Event), NEW i, ActiveClaim(ledger, i) = NoId
  PROVE  ActiveClaims(ledger, i) = {}
<1>1. ActiveClaims(ledger, i) \in SUBSET (1 .. Len(ledger)) /\ Len(ledger) \in Nat
  BY LenProperties DEF ActiveClaims
<1>2. ActiveClaims(ledger, i) \in SUBSET Nat /\ NoId \notin ActiveClaims(ledger, i)
  BY <1>1 DEF NoId
<1> QED
  BY <1>2, FirstOfIsLeast DEF ActiveClaim

LEMMA ClaimKeepsClaims ==
  ASSUME ledger \in Seq(Event), ClaimInv,
         NEW i \in Intents, NEW o \in Owners, Establishes(i, o)
  PROVE  ClaimInv'
<1> DEFINE n == Len(ledger) + 1
           e == ClaimEvent("intent_claim_established", i, n, o)
<1>1. e \in Event /\ Appends(e)
  <2>1. n \in Nat /\ n = Here
    BY LenProperties DEF Here
  <2>2. "intent_claim_established" \in IntentTypes \union RunTypes \union OtherTypes
    BY DEF OtherTypes
  <2> QED
    BY <2>1, <2>2, EventsTyped DEF Establishes
<1>2. e.type = "intent_claim_established" /\ e.intent = i /\ e.claim = n
  BY ClaimEventSays
<1> HIDE DEF e
<1>3. /\ n \in Nat /\ DOMAIN ledger = 1 .. n - 1 /\ DOMAIN ledger' = 1 .. n
      /\ ledger'[n] = e
      /\ \A k \in 1 .. n - 1 : ledger'[k] = ledger[k]
      /\ \A m, k \in 1 .. n - 1 : Releases(ledger', m, k) <=> Releases(ledger, m, k)
      /\ \A k \in 1 .. n - 1 : ~Releases(ledger', n, k)
  BY <1>1, <1>2, KeptReleases
<1>4. ActiveClaims(ledger, i) = {}
  BY NoActiveClaim DEF Establishes
<1> HIDE DEF n
<1>5. \A k \in 1 .. n - 1 : IsClaim(ledger', k) => IsClaim(ledger, k)
  BY <1>3 DEF IsClaim
<1>6. OwnIds(ledger')
  BY <1>2, <1>3, <1>5, ClaimInvParts DEF OwnIds
<1>7. Succession(ledger')
  <2> SUFFICES ASSUME NEW x \in Intents, NEW j \in 1 .. n, NEW k \in 1 .. n, j < k,
                      IsClaim(ledger', j), ledger'[j].intent = x,
                      IsClaim(ledger', k), ledger'[k].intent = x
               PROVE  \E m \in 1 .. n : m < k /\ Releases(ledger', m, j)
    BY <1>3 DEF Succession
  <2>1. j \in 1 .. n - 1 /\ IsClaim(ledger, j) /\ ledger[j].intent = x
    BY <1>3, <1>5
  <2>2. CASE k = n
    <3>1. j \notin ActiveClaims(ledger, i) /\ x = i
      BY <1>2, <1>3, <1>4, <2>2
    <3>2. PICK m \in 1 .. n - 1 : Releases(ledger, m, j)
      BY <1>3, <2>1, <3>1 DEF ActiveClaims, IsClaim
    <3> QED
      BY <1>3, <2>1, <2>2, <3>2
  <2>3. CASE k # n
    <3>1. k \in 1 .. n - 1 /\ IsClaim(ledger, k) /\ ledger[k].intent = x
      BY <1>3, <1>5, <2>3
    <3>2. PICK m \in 1 .. n - 1 : m < k /\ Releases(ledger, m, j)
      BY <1>3, <2>1, <3>1, ClaimInvParts DEF Succession
    <3> QED
      BY <1>3, <2>1, <3>2
  <2> QED
    BY <2>2, <2>3
<1>8. Pairing(ledger')
  <2> SUFFICES ASSUME NEW m \in 1 .. n, ledger'[m].type = "intent_released"
               PROVE  \E k \in 1 .. n : EndsOneClaim(ledger', m, k)
    BY <1>3 DEF Pairing
  <2>1. m \in 1 .. n - 1 /\ ledger[m].type = "intent_released"
    BY <1>2, <1>3
  <2>2. PICK k \in 1 .. n - 1 : EndsOneClaim(ledger, m, k)
    BY <1>3, <2>1, ClaimInvParts DEF Pairing
  <2>3. \A x \in 1 .. n : Releases(ledger', x, k) => x = m
    BY <1>3, <2>1, <2>2 DEF EndsOneClaim
  <2> QED
    BY <1>3, <2>1, <2>2, <2>3 DEF EndsOneClaim, IsClaim
<1> QED
  BY <1>6, <1>7, <1>8, ClaimInvPartsNext

LEMMA ReleaseKeepsClaims ==
  ASSUME ledger \in Seq(Event), ClaimInv,
         NEW i \in Intents \union {NoIntent}, NEW o \in Owners, Relinquishes(i, o)
  PROVE  ClaimInv'
<1> DEFINE n == Len(ledger) + 1
           a == ActiveClaim(ledger, i)
           e == ClaimEvent("intent_released", i, a, o)
<1>1. a \in Nat /\ a \in ActiveClaims(ledger, i) /\ ledger[a].owner = o
  BY ActiveClaimTyped DEF Relinquishes, Releasable
<1>2. e \in Event /\ Appends(e)
  <2>1. "intent_released" \in IntentTypes \union RunTypes \union OtherTypes
    BY DEF OtherTypes
  <2> QED
    BY <1>1, <2>1, EventsTyped DEF Relinquishes
<1>3. e.type = "intent_released" /\ e.intent = i /\ e.claim = a /\ e.owner = o
  BY ClaimEventSays
<1> HIDE DEF e, a
<1>4. /\ n \in Nat /\ DOMAIN ledger = 1 .. n - 1 /\ DOMAIN ledger' = 1 .. n
      /\ ledger'[n] = e
      /\ \A k \in 1 .. n - 1 : ledger'[k] = ledger[k]
      /\ \A m, k \in 1 .. n - 1 : Releases(ledger', m, k) <=> Releases(ledger, m, k)
      /\ \A k \in 1 .. n - 1 :
           Releases(ledger', n, k) <=>
             /\ e.type = "intent_released" /\ e.intent = ledger[k].intent
             /\ e.claim = ledger[k].claim /\ e.owner = ledger[k].owner
  BY <1>2, KeptReleases
<1> HIDE DEF n
<1>5. /\ a \in 1 .. n - 1 /\ IsClaim(ledger, a) /\ ledger[a].intent = i
      /\ \A m \in 1 .. n - 1 : ~Releases(ledger, m, a)
  BY <1>1, <1>4 DEF ActiveClaims, IsClaim
<1>6. \A k \in 1 .. n : IsClaim(ledger', k) => k \in 1 .. n - 1 /\ IsClaim(ledger, k)
  BY <1>3, <1>4 DEF IsClaim
<1>7. \A k \in 1 .. n - 1 : IsClaim(ledger, k) => (Releases(ledger', n, k) <=> k = a)
  BY <1>1, <1>3, <1>4, <1>5, ClaimInvParts DEF OwnIds
<1>8. OwnIds(ledger')
  BY <1>4, <1>6, ClaimInvParts DEF OwnIds
<1>9. Succession(ledger')
  <2> SUFFICES ASSUME NEW x \in Intents, NEW j \in 1 .. n, NEW k \in 1 .. n, j < k,
                      IsClaim(ledger', j), ledger'[j].intent = x,
                      IsClaim(ledger', k), ledger'[k].intent = x
               PROVE  \E m \in 1 .. n : m < k /\ Releases(ledger', m, j)
    BY <1>4 DEF Succession
  <2>1. PICK m \in 1 .. n - 1 : m < k /\ Releases(ledger, m, j)
    BY <1>4, <1>6, ClaimInvParts DEF Succession
  <2> QED
    BY <1>4, <1>6, <2>1
<1>10. Pairing(ledger')
  <2> SUFFICES ASSUME NEW m \in 1 .. n, ledger'[m].type = "intent_released"
               PROVE  \E k \in 1 .. n : EndsOneClaim(ledger', m, k)
    BY <1>4 DEF Pairing
  <2>1. CASE m = n
    <3>1. IsClaim(ledger', a) /\ Releases(ledger', n, a)
      BY <1>4, <1>5, <1>7 DEF IsClaim
    <3>2. \A x \in 1 .. n : Releases(ledger', x, a) => x = n
      BY <1>4, <1>5
    <3> QED
      BY <1>4, <1>5, <2>1, <3>1, <3>2 DEF EndsOneClaim
  <2>2. CASE m # n
    <3>1. m \in 1 .. n - 1 /\ ledger[m].type = "intent_released"
      BY <1>4, <2>2
    <3>2. PICK k \in 1 .. n - 1 : EndsOneClaim(ledger, m, k)
      BY <1>4, <3>1, ClaimInvParts DEF Pairing
    <3>3. IsClaim(ledger, k) /\ Releases(ledger, m, k) /\ k # a
      BY <1>5, <3>1, <3>2 DEF EndsOneClaim
    <3>4. \A x \in 1 .. n : Releases(ledger', x, k) => x = m
      BY <1>4, <1>7, <3>2, <3>3 DEF EndsOneClaim
    <3> QED
      BY <1>4, <3>1, <3>3, <3>4 DEF EndsOneClaim, IsClaim
  <2> QED
    BY <2>1, <2>2
<1> QED
  BY <1>8, <1>9, <1>10, ClaimInvPartsNext

LEMMA ClaimInit == Init => ClaimInv
BY DEF Init, ClaimInv, OwnIds, ExclusiveClaims

LEMMA ClaimNext == TypeOK /\ ClaimInv /\ [Next]_vars => ClaimInv'
<1> SUFFICES ASSUME TypeOK, ClaimInv, [Next]_vars PROVE ClaimInv'
  OBVIOUS
<1>1. ledger \in Seq(Event)
  BY DEF TypeOK
<1> QED
  BY <1>1, NextClaimStep, SilenceKeepsClaims, ClaimKeepsClaims, ReleaseKeepsClaims DEF ClaimStep

(* Claims are exclusive, whatever crashes, fails or nests: an intent has at*)
(* most one active claim, a second one is only established behind the      *)
(* release of the first, and each release ends exactly one claim.          *)
THEOREM ClaimsAreExclusive == Spec => []ExclusiveClaims
<1>1. ClaimInv => ExclusiveClaims
  BY DEF ClaimInv
<1> QED
  BY <1>1, ClaimInit, ClaimNext, TypeCorrect, PTL DEF Spec

---------------------------------------------------------------------------
(* What a step writes: to the ledger, and to the tables beside it.         *)

tableVars == <<inbox, intentProj, claimProj, runProj>>

ClaimTypes == {"intent_claim_established", "intent_released"}

(* Nothing, or an event that no table is about.                            *)
WritesNote ==
  \/ UNCHANGED db
  \/ \E e \in Event :
       Appends(e) /\ e.type \in OtherTypes \ ClaimTypes /\ UNCHANGED <<tableVars, stale>>

(* The first row of an intent: both of its tables, or neither.             *)
WritesSubmission ==
  \E e \in Event :
    /\ Appends(e) /\ e.type \in Submissions /\ e.intent \in Intents
    /\ RowsOf(ledger, e.intent) = {}
    /\ UNCHANGED <<claimProj, runProj>>
    /\ \/ /\ inbox' = [inbox EXCEPT ![e.intent] = StatusByType[e.type]]
          /\ UpsertIntentRow(e.intent, StatusByType[e.type])
          /\ UNCHANGED stale
       \/ UNCHANGED <<inbox, intentProj>> /\ stale' = stale \union {"inbox", "intents"}

WritesIntent ==
  \E e \in Event :
    /\ Appends(e) /\ e.type \in IntentTypes \ Submissions
    /\ UNCHANGED <<inbox, claimProj, runProj>>
    /\ \/ UpsertIntentRow(e.intent, StatusByType[e.type]) /\ UNCHANGED stale
       \/ UNCHANGED intentProj /\ stale' = stale \union {"intents"}

(* A run begins under a new id, or goes on as its state allows.            *)
WritesRun ==
  \E e \in Event :
    /\ Appends(e) /\ e.type \in RunTypes
    /\ \/ e.type = "run_created" /\ e.run = Here
       \/ CanFollow(e.type, e.run)
    /\ UNCHANGED <<inbox, intentProj, claimProj>>
    /\ \/ UpsertRunRow(e.run, e.type) /\ UNCHANGED stale
       \/ UNCHANGED runProj /\ stale' = stale \union {"runs"}

WritesClaim(i, o) ==
  /\ ActiveClaim(ledger, i) = NoId
  /\ Appends(ClaimEvent("intent_claim_established", i, Here, o))
  /\ UNCHANGED <<inbox, intentProj, runProj>>
  /\ \/ claimProj' = [claimProj EXCEPT ![i] = [claim |-> Here, owner |-> o]] /\ UNCHANGED stale
     \/ UNCHANGED claimProj /\ stale' = stale \union {"claims"}

WritesRelease(i, o) ==
  /\ Releasable(i, o)
  /\ Appends(ClaimEvent("intent_released", i, ActiveClaim(ledger, i), o))
  /\ UNCHANGED <<inbox, intentProj, runProj>>
  /\ \/ claimProj' = [claimProj EXCEPT ![i] = NoClaimRow] /\ UNCHANGED stale
     \/ UNCHANGED claimProj /\ stale' = stale \union {"claims"}

CallWrites ==
  \/ WritesNote \/ WritesSubmission
  \/ \E i \in Intents, o \in Owners : WritesClaim(i, o)
  \/ \E i \in Intents \union {NoIntent}, o \in Owners : WritesRelease(i, o)

DispatchWrites ==
  \/ WritesNote \/ WritesIntent \/ WritesRun
  \/ \E i \in Intents \union {NoIntent}, o \in Owners : WritesRelease(i, o)

Writes ==
  \/ CallWrites \/ DispatchWrites
  \/ RebuildInboxEntries \/ RebuildIntentProjection \/ RebuildClaimProjection
  \/ RebuildProjection

LEMMA FailureWrites == ASSUME AppendFails PROVE WritesNote
BY DEF AppendFails, WritesNote

LEMMA NoteWrites ==
  ASSUME NEW e \in Event, e.type \in OtherTypes \ ClaimTypes, Note(e)
  PROVE  WritesNote
BY FailureWrites DEF Note, AppendNote, Append1, Appends, WritesNote, tableVars

LEMMA IntentEventWrites ==
  ASSUME NEW t \in IntentTypes \ Submissions, NEW i \in Intents \union {NoIntent},
         AppendIntentEvent(IntentEvent(t, i))
  PROVE  WritesIntent
<1>1. IntentEvent(t, i) \in Event /\ IntentEvent(t, i).type = t
  BY EventsTyped, IntentEventSays
<1> QED
  BY <1>1 DEF AppendIntentEvent, BestEffort, Append1, Appends, WritesIntent

LEMMA RunEventWrites ==
  ASSUME NEW t \in RunTypes, NEW i \in Intents \union {NoIntent}, NEW r \in Nat,
         (t = "run_created" /\ r = Here) \/ CanFollow(t, r),
         AppendRunEvent(RunEvent(t, i, r))
  PROVE  WritesRun
<1>1. RunEvent(t, i, r) \in Event
  BY EventsTyped
<1>2. RunEvent(t, i, r).type = t /\ RunEvent(t, i, r).run = r
  BY RunEventSays
<1> QED
  BY <1>1, <1>2 DEF AppendRunEvent, BestEffort, Append1, Appends, WritesRun

LEMMA SubmitWrites ==
  ASSUME NEW i \in Intents, NEW type \in Submissions, NEW nested \in SUBSET Intents,
         Submit(i, type, nested)
  PROVE  WritesSubmission \/ WritesNote
<1> DEFINE e == SubmitEvent(type, i, nested)
<1>1. e \in Event
  BY EventsTyped DEF Submissions, IntentTypes
<1>2. e.type = type /\ e.intent = i
  BY SubmitEventSays
<1>3. RowsOf(ledger, i) = {}
  BY DEF Submit, Known, Mentions, RowsOf
<1> HIDE DEF e
<1>4. CASE AppendFails
  BY <1>4, FailureWrites
<1>5. CASE ~AppendFails
  BY <1>1, <1>2, <1>3, <1>5 DEF Submit, Append1, Appends, WritesSubmission, e
<1> QED
  BY <1>4, <1>5

LEMMA RefusalWrites ==
  ASSUME NEW t \in {"intent_claim_rejected", "intent_release_rejected"},
         NEW i \in Intents \union {NoIntent}, NEW c \in Nat,
         NEW o \in Owners \union {NoOwner}, Note(ClaimEvent(t, i, c, o))
  PROVE  WritesNote
<1>1. ClaimEvent(t, i, c, o) \in Event
  BY EventsTyped DEF OtherTypes
<1>2. ClaimEvent(t, i, c, o).type \in OtherTypes \ ClaimTypes
  BY ClaimEventSays DEF OtherTypes, ClaimTypes
<1> QED
  BY <1>1, <1>2, NoteWrites

LEMMA ClaimWrites ==
  ASSUME NEW i \in Intents, NEW o \in Owners \union {NoOwner},
         (Claimable(i, o) /\ EstablishClaim(i, o)) \/ RejectClaim(i, o)
  PROVE  CallWrites
<1>1. CASE Claimable(i, o) /\ EstablishClaim(i, o)
  <2>1. WritesClaim(i, o) /\ o \in Owners
    BY <1>1 DEF EstablishClaim, BestEffort, Claimable, WritesClaim, Append1, Appends
  <2> QED
    BY <2>1 DEF CallWrites
<1>2. CASE RejectClaim(i, o)
  BY <1>2, RefusalWrites DEF RejectClaim, CallWrites, NoId
<1> QED
  BY <1>1, <1>2

LEMMA ReleaseWrites ==
  ASSUME DbOK, NEW i \in Intents \union {NoIntent}, NEW o \in Owners \union {NoOwner},
         ReleaseClaim(i, o)
  PROVE  CallWrites /\ DispatchWrites
<1> DEFINE c == IF o = NoOwner THEN NoId ELSE ActiveClaim(ledger, i)
<1>1. c \in Nat
  BY ActiveClaimTyped DEF NoId, DbOK
<1>2. \/ Note(ClaimEvent("intent_release_rejected", i, c, o))
      \/ WritesRelease(i, o) /\ o \in Owners
      \/ AppendFails
  BY DEF ReleaseClaim, BestEffort, WritesRelease, Releasable, Append1, Appends
<1> HIDE DEF c
<1> QED
  BY <1>1, <1>2, RefusalWrites, FailureWrites DEF CallWrites, DispatchWrites

LEMMA CallStepWrites == ASSUME TypeOK, Call PROVE CallWrites
<1>1. PICK i \in Intents :
        \/ SubmitAccepted(i)
        \/ SubmitRejected(i)
        \/ \E o \in Owners \union {NoOwner} : ClaimIntent(i, o) \/ CallRelease(i, o)
        \/ \E named \in BOOLEAN, capture \in Captures :
             \/ Dispatch(i, named, capture)
             \/ \E o \in Owners \union {NoOwner} : DispatchAndTrack(i, named, o, capture)
  BY DEF Call
<1>2. DbOK
  BY TypeParts
<1>3. CASE SubmitAccepted(i) \/ SubmitRejected(i)
  <2>1. Payloads \subseteq SUBSET Intents
    BY DEF Payloads
  <2> QED
    BY <1>3, <2>1, SubmitWrites DEF SubmitAccepted, SubmitRejected, Submissions, CallWrites
<1>4. ASSUME NEW o \in Owners \union {NoOwner}, ClaimIntent(i, o) \/ CallRelease(i, o)
      PROVE  CallWrites
  <2>1. \/ Claimable(i, o) /\ EstablishClaim(i, o)
        \/ RejectClaim(i, o) \/ ReleaseClaim(i, o) \/ AppendFails
    BY <1>4 DEF ClaimIntent, CallRelease
  <2> QED
    BY <1>2, <2>1, ClaimWrites, ReleaseWrites, FailureWrites DEF CallWrites
<1>5. ASSUME NEW named, NEW capture, Dispatch(i, named, capture) PROVE CallWrites
  BY <1>5 DEF Dispatch, CallWrites, WritesNote
<1>6. ASSUME NEW named, NEW capture, NEW o \in Owners \union {NoOwner},
             DispatchAndTrack(i, named, o, capture)
      PROVE  CallWrites
  <2>1. \/ Claimable(i, o) /\ EstablishClaim(i, o)
        \/ RejectClaim(i, o) \/ AppendFails
    BY <1>6 DEF DispatchAndTrack
  <2> QED
    BY <1>2, <2>1, ClaimWrites, FailureWrites DEF CallWrites
<1> QED
  BY <1>1, <1>3, <1>4, <1>5, <1>6

LEMMA DispatchStepWrites == ASSUME TypeOK, DispatchStep PROVE DispatchWrites
<1>1. Top \in Frame
  BY TopTyped
<1>2. /\ Top.intent \in Intents \union {NoIntent} /\ Top.owner \in Owners \union {NoOwner}
      /\ Top.run \in Nat /\ NoIntent \in Intents \union {NoIntent}
  BY <1>1, FrameFields
<1>3. DbOK /\ Here \in Nat
  BY TypeParts, LenProperties DEF Here, DbOK
<1>4. CASE BeginDispatch
  <2>1. \/ AppendIntentEvent(IntentEvent("intent_claimed", Top.intent))
        \/ AppendFails
        \/ UNCHANGED db
    BY <1>4 DEF BeginDispatch
  <2> QED
    BY <1>2, <2>1, FailureWrites, IntentEventWrites DEF IntentTypes, Submissions, DispatchWrites, WritesNote
<1>5. ASSUME NEW step, NEW captured \in OtherTypes \ ClaimTypes,
             NEW failed \in OtherTypes \ ClaimTypes, NEW next,
             Capture(step, captured, failed, next)
      PROVE  DispatchWrites
  <2>1. \A t \in OtherTypes : IntentEvent(t, Top.intent) \in Event
    BY <1>2, EventsTyped
  <2>2. \A t \in OtherTypes : IntentEvent(t, Top.intent).type = t
    BY IntentEventSays
  <2> QED
    BY <1>5, <2>1, <2>2, NoteWrites, FailureWrites DEF Capture, Note, DispatchWrites
<1>6. CASE CaptureProvenance \/ CaptureEnvironment
  BY <1>5, <1>6 DEF CaptureProvenance, CaptureEnvironment, OtherTypes, ClaimTypes
<1>7. CASE CreateRun
  <2>1. AppendRunEvent(RunEvent("run_created", Top.intent, Here)) \/ AppendFails
    BY <1>7 DEF CreateRun
  <2> QED
    BY <1>2, <1>3, <2>1, RunEventWrites, FailureWrites DEF RunTypes, DispatchWrites
<1>8. CASE StartRunning \/ RecordArtifact
  <2>1. \/ \E t \in {"state_running", "artifact_written"} :
             CanFollow(t, Top.run) /\ AppendRunEvent(RunEvent(t, NoIntent, Top.run))
        \/ AppendFails
        \/ UNCHANGED db
    BY <1>8 DEF StartRunning, RecordArtifact
  <2> QED
    BY <1>2, <2>1, RunEventWrites, FailureWrites DEF RunTypes, DispatchWrites, WritesNote
<1>9. ASSUME NEW step, NEW t \in Outcomes, Conclude(step, t) PROVE DispatchWrites
  BY <1>2, <1>9, IntentEventWrites, FailureWrites
  DEF Conclude, Outcomes, IntentTypes, Submissions, DispatchWrites
<1>10. CASE CompleteIntent \/ FailIntent \/ AbortIntent
  BY <1>9, <1>10 DEF CompleteIntent, FailIntent, AbortIntent, Outcomes
<1>11. CASE TrackedRelease
  BY <1>2, <1>3, <1>11, ReleaseWrites DEF TrackedRelease
<1> QED
  BY <1>4, <1>6, <1>7, <1>8, <1>10, <1>11 DEF DispatchStep

LEMMA NextWrites == ASSUME TypeOK, [Next]_vars PROVE Writes
<1>1. CASE Crash \/ UNCHANGED vars
  BY <1>1 DEF Crash, vars, db, Writes, DispatchWrites, WritesNote
<1>2. CASE Rebuilds
  BY <1>2 DEF Rebuilds, Writes
<1> QED
  BY <1>1, <1>2, CallStepWrites, DispatchStepWrites DEF Next, Writes

---------------------------------------------------------------------------
(* The rows a rebuild computes, when the ledger has one event more.        *)

LEMMA FirstOfAppended ==
  ASSUME NEW n \in Nat, NEW S \in SUBSET (1 .. n)
  PROVE  FirstOf(S \union {n + 1}) = IF S = {} THEN n + 1 ELSE FirstOf(S)
<1> DEFINE T == S \union {n + 1}
<1>1. T \in SUBSET Nat /\ T # {} /\ S \in SUBSET Nat
  OBVIOUS
<1>2. FirstOf(T) \in T /\ \A m \in T : FirstOf(T) <= m
  <2> HIDE DEF T
  <2> QED
    BY <1>1, FirstOfIsLeast
<1>3. CASE S = {}
  BY <1>2, <1>3
<1>4. CASE S # {}
  <2>1. FirstOf(S) \in S /\ \A m \in S : FirstOf(S) <= m
    BY <1>1, <1>4, FirstOfIsLeast
  <2>2. /\ FirstOf(S) \in 1 .. n /\ FirstOf(S) \in T
        /\ FirstOf(T) \in Nat /\ (FirstOf(T) \in S \/ FirstOf(T) = n + 1)
    <3>1. T \subseteq Nat /\ S \subseteq T /\ \A k \in T : k \in S \/ k = n + 1
      OBVIOUS
    <3> HIDE DEF T
    <3> QED
      BY <1>2, <2>1, <3>1
  <2> HIDE DEF T
  <2>3. FirstOf(T) <= FirstOf(S)
    BY <1>2, <2>2
  <2>4. FirstOf(T) \in S
    BY <2>2, <2>3
  <2>5. FirstOf(S) <= FirstOf(T)
    BY <2>1, <2>4
  <2> QED
    BY <1>4, <2>2, <2>3, <2>5 DEF T
<1> QED
  BY <1>3, <1>4

SubmissionRows(L, i) == {k \in RowsOf(L, i) : L[k].type \in Submissions}

(* inbox_entries: the submission decides for ever.                         *)
LEMMA InboxRowAppended ==
  ASSUME ledger \in Seq(Event), NEW e \in Event, Appends(e), NEW i
  PROVE  /\ ExpectedInboxRow(ledger, i) # "NONE"
              => ExpectedInboxRow(ledger', i) = ExpectedInboxRow(ledger, i)
         /\ ExpectedInboxRow(ledger, i) = "NONE"
              => ExpectedInboxRow(ledger', i)
                   = IF e.type \in Submissions /\ e.intent = i THEN StatusByType[e.type] ELSE "NONE"
<1> DEFINE S == SubmissionRows(ledger, i)
           T == SubmissionRows(ledger', i)
           n == Len(ledger)
<1>1. /\ ExpectedInboxRow(ledger, i) = IF S = {} THEN "NONE" ELSE StatusByType[ledger[FirstOf(S)].type]
      /\ ExpectedInboxRow(ledger', i) = IF T = {} THEN "NONE" ELSE StatusByType[ledger'[FirstOf(T)].type]
  BY DEF ExpectedInboxRow, SubmissionRows, Submissions
<1>2. n \in Nat /\ S \in SUBSET (1 .. n) /\ S \in SUBSET Nat
  BY RowsArePositions DEF SubmissionRows
<1>3. ledger'[n + 1] = e /\ \A k \in 1 .. n : ledger'[k] = ledger[k]
  BY AppendedLedger DEF Appends
<1>4. T = IF e.type \in Submissions /\ e.intent = i THEN S \union {n + 1} ELSE S
  <2>1. RowsOf(ledger', i) = IF e.type \in IntentTypes /\ e.intent = i
                             THEN RowsOf(ledger, i) \union {n + 1} ELSE RowsOf(ledger, i)
    BY AppendedRows DEF Appends
  <2>2. RowsOf(ledger, i) \in SUBSET (1 .. n) /\ Submissions \subseteq IntentTypes
    BY RowsArePositions DEF Submissions, IntentTypes
  <2> HIDE DEF n
  <2> QED
    BY <1>3, <2>1, <2>2 DEF SubmissionRows
<1>5. S # {} => FirstOf(S) \in S
  BY <1>2, FirstOfIsLeast
<1>6. \A t \in Submissions : StatusByType[t] # "NONE"
  BY DEF Submissions, StatusByType, IntentTypes
<1>7. CASE S = {}
  <2>1. FirstOf({n + 1}) = n + 1
    BY <1>2, FirstOfAppended
  <2> HIDE DEF S, T, n
  <2> QED
    BY <1>1, <1>3, <1>4, <1>7, <2>1
<1>8. CASE S # {}
  <2>1. FirstOf(S) \in 1 .. n /\ ledger[FirstOf(S)].type \in Submissions
    BY <1>2, <1>5, <1>8 DEF SubmissionRows
  <2>2. FirstOf(T) = FirstOf(S) /\ T # {}
    BY <1>2, <1>4, <1>8, FirstOfAppended
  <2> HIDE DEF S, T, n
  <2> QED
    BY <1>1, <1>3, <1>6, <1>8, <2>1, <2>2
<1> QED
  BY <1>7, <1>8

(* intent_projection: in a legal history the latest row decides.           *)
LEMMA IntentRowKept ==
  ASSUME ledger \in Seq(Event), NEW e \in Event, Appends(e), NEW i,
         e.type \notin IntentTypes \/ e.intent # i
  PROVE  ExpectedIntentRow(ledger', i) = ExpectedIntentRow(ledger, i)
<1> DEFINE R == RowsOf(ledger, i)
           n == Len(ledger)
<1>1. RowsOf(ledger', i) = R /\ R \in SUBSET (1 .. n)
  BY AppendedRows, RowsArePositions DEF Appends
<1>2. \A k \in 1 .. n : ledger'[k] = ledger[k]
  BY AppendedLedger DEF Appends
<1>3. CASE R # {}
  <2>1. {k \in R : ledger'[k].type \in TerminalTypes} = {k \in R : ledger[k].type \in TerminalTypes}
    BY <1>1, <1>2
  <2>2. Deciding(ledger', R) = Deciding(ledger, R)
    BY <2>1 DEF Deciding
  <2>3. Deciding(ledger, R) \in R
    BY <1>1, <1>3, DecidingIsARow, LenProperties
  <2> QED
    BY <1>1, <1>2, <1>3, <2>2, <2>3 DEF ExpectedIntentRow
<1> QED
  BY <1>1, <1>3 DEF ExpectedIntentRow

LastRowDecides(i) ==
  RowsOf(ledger, i) # {} =>
    ExpectedIntentRow(ledger, i)
      = [status |-> StatusByType[LastType(ledger, i)], event |-> LastOf(RowsOf(ledger, i))]

LEMMA LastRowsDecide ==
  TypeOK /\ LegalIntentHistory => \A i \in Intents : LastRowDecides(i)
BY LastDecides DEF TypeOK, LastRowDecides, ExpectedIntentRow, LastType

LEMMA LastRowsDecideNext ==
  (TypeOK /\ LegalIntentHistory)' => (\A i \in Intents : LastRowDecides(i))'
BY LastRowsDecide, PTL

LEMMA IntentRowAppended ==
  ASSUME TypeOK, TypeOK', LegalIntentHistory', NEW e \in Event, Appends(e),
         e.type \in IntentTypes, e.intent \in Intents
  PROVE  ExpectedIntentRow(ledger', e.intent) = [status |-> StatusByType[e.type], event |-> Here]
<1> DEFINE i == e.intent
<1>1. ledger \in Seq(Event)
  BY DEF TypeOK
<1>2. /\ RowsOf(ledger', i) = RowsOf(ledger, i) \union {Len(ledger) + 1}
      /\ LastType(ledger', i) = e.type
  BY <1>1, OwnHistory
<1>3. LastOf(RowsOf(ledger', i)) = Len(ledger) + 1
  BY <1>1, <1>2, RowsArePositions, LastOfAppended
<1>4. LastRowDecides(i)'
  BY LastRowsDecideNext
<1> QED
  BY <1>2, <1>3, <1>4 DEF LastRowDecides, Here

(* operation_state_projection: the latest event of each run.               *)
LEMMA RunRowsAppended ==
  ASSUME ledger \in Seq(Event), NEW e \in Event, Appends(e)
  PROVE  ExpectedRunRows(ledger')
           = IF e.type \notin RunTypes THEN ExpectedRunRows(ledger)
             ELSE {row \in ExpectedRunRows(ledger) : row.run # e.run}
                    \union {[run |-> e.run, state |-> e.type, event |-> Here]}
<1> DEFINE n == Len(ledger)
           Row(L, r) == [run |-> r, state |-> RunState(L, r), event |-> LastOf(RunRows(L, r))]
<1>1. /\ n \in Nat /\ DOMAIN ledger = 1 .. n /\ DOMAIN ledger' = 1 .. n + 1
      /\ ledger'[n + 1] = e /\ \A k \in 1 .. n : ledger'[k] = ledger[k]
  BY AppendedLedger, LenProperties DEF Appends
<1>2. \A r : RunRows(ledger, r) \in SUBSET (1 .. n)
  BY <1>1 DEF RunRows
<1>3. \A r : RunRows(ledger', r) = IF e.type \in RunTypes /\ e.run = r
                                   THEN RunRows(ledger, r) \union {n + 1} ELSE RunRows(ledger, r)
  <2> TAKE r
  <2>1. \A k \in 1 .. n + 1 : k \in 1 .. n \/ k = n + 1
    BY <1>1
  <2>2. \A k : k \in RunRows(ledger', r) <=>
                 k \in RunRows(ledger, r) \/ (k = n + 1 /\ e.type \in RunTypes /\ e.run = r)
    <3> HIDE DEF n
    <3>1. 1 .. n \subseteq 1 .. n + 1 /\ n + 1 \in 1 .. n + 1
      BY <1>1
    <3> QED
      BY <1>1, <2>1, <3>1 DEF RunRows
  <2> QED
    BY <2>2
<1>4. RunIds(ledger') = RunIds(ledger) \union (IF e.type \in RunTypes THEN {e.run} ELSE {})
  <2>1. \A L : RunIds(L) = {L[k].run : k \in {m \in DOMAIN L : L[m].type \in RunTypes}}
    BY DEF RunIds
  <2>2. \A r : r \in RunIds(ledger) <=> RunRows(ledger, r) # {}
    BY DEF RunIds, RunRows
  <2>3. \A r : r \in RunIds(ledger') <=> RunRows(ledger', r) # {}
    BY DEF RunIds, RunRows
  <2> QED
    BY <1>3, <2>2, <2>3
<1>5. \A r \in RunIds(ledger) : LastOf(RunRows(ledger, r)) \in 1 .. n
  <2> TAKE r \in RunIds(ledger)
  <2>1. RunRows(ledger, r) # {}
    BY DEF RunIds, RunRows
  <2> QED
    BY <1>1, <1>2, <2>1, LastOfIsGreatest
<1>6. ASSUME NEW r \in RunIds(ledger), ~(e.type \in RunTypes /\ e.run = r)
      PROVE  Row(ledger', r) = Row(ledger, r)
  <2>1. RunRows(ledger', r) = RunRows(ledger, r)
    BY <1>3, <1>6
  <2>2. LastOf(RunRows(ledger, r)) \in 1 .. n
    BY <1>5
  <2>3. RunState(ledger', r) = RunState(ledger, r)
    <3> HIDE DEF n
    <3> QED
    BY <1>1, <2>1, <2>2 DEF RunState
  <2> QED
    BY <2>1, <2>3
<1>7. e.type \in RunTypes => Row(ledger', e.run) = [run |-> e.run, state |-> e.type, event |-> n + 1]
  <2> SUFFICES ASSUME e.type \in RunTypes PROVE Row(ledger', e.run) = [run |-> e.run, state |-> e.type, event |-> n + 1]
    OBVIOUS
  <2>1. LastOf(RunRows(ledger', e.run)) = n + 1 /\ RunRows(ledger', e.run) # {}
    BY <1>1, <1>2, <1>3, LastOfAppended
  <2>2. RunState(ledger', e.run) = e.type
    BY <1>1, <2>1 DEF RunState
  <2> QED
    BY <2>1, <2>2
<1>8. /\ ExpectedRunRows(ledger) = {Row(ledger, r) : r \in RunIds(ledger)}
      /\ ExpectedRunRows(ledger') = {Row(ledger', r) : r \in RunIds(ledger')}
  BY DEF ExpectedRunRows
<1>9. CASE e.type \notin RunTypes
  <2> HIDE DEF Row
  <2> QED
    BY <1>4, <1>6, <1>8, <1>9
<1>10. CASE e.type \in RunTypes
  <2>1. \A r : Row(ledger, r).run = r
    OBVIOUS
  <2>2. ExpectedRunRows(ledger') = {Row(ledger', r) : r \in RunIds(ledger) \ {e.run}} \union {Row(ledger', e.run)}
    <3> HIDE DEF Row
    <3> QED
      BY <1>4, <1>8, <1>10
  <2>3. {Row(ledger', r) : r \in RunIds(ledger) \ {e.run}} = {Row(ledger, r) : r \in RunIds(ledger) \ {e.run}}
    <3> HIDE DEF Row
    <3> QED
      BY <1>6
  <2>4. {Row(ledger, r) : r \in RunIds(ledger) \ {e.run}} = {row \in ExpectedRunRows(ledger) : row.run # e.run}
    <3> HIDE DEF Row
    <3> QED
      BY <1>8, <2>1
  <2> QED
    BY <1>7, <1>10, <2>2, <2>3, <2>4 DEF Here
<1> QED
  BY <1>9, <1>10

---------------------------------------------------------------------------
(* The active claim, when the ledger has one event more.                   *)

LEMMA ActiveIsAClaim ==
  ASSUME ledger \in Seq(Event), NEW i
  PROVE  /\ ActiveClaims(ledger, i) \in SUBSET (1 .. Len(ledger)) /\ Len(ledger) \in Nat
         /\ ActiveClaim(ledger, i) = NoId <=> ActiveClaims(ledger, i) = {}
         /\ ActiveClaim(ledger, i) # NoId => ActiveClaim(ledger, i) \in ActiveClaims(ledger, i)
<1>1. ActiveClaims(ledger, i) \in SUBSET (1 .. Len(ledger)) /\ Len(ledger) \in Nat
  BY LenProperties DEF ActiveClaims
<1>2. ActiveClaims(ledger, i) \in SUBSET Nat /\ NoId \notin ActiveClaims(ledger, i)
  BY <1>1 DEF NoId
<1> QED
  BY <1>1, <1>2, FirstOfIsLeast DEF ActiveClaim

LEMMA OneActiveClaim ==
  ASSUME ledger \in Seq(Event), ExclusiveClaims, NEW i \in Intents,
         NEW c \in ActiveClaims(ledger, i), NEW d \in ActiveClaims(ledger, i)
  PROVE  c = d
<1>1. c \in 1 .. Len(ledger) /\ d \in 1 .. Len(ledger) /\ Len(ledger) \in Nat
  BY ActiveIsAClaim
<1>2. \A j, k \in ActiveClaims(ledger, i) : ~(j < k)
  BY DEF ExclusiveClaims, ActiveClaims
<1> QED
  BY <1>1, <1>2

LEMMA OtherClaimsKept ==
  ASSUME ledger \in Seq(Event), NEW e \in Event, Appends(e), NEW i,
         e.type \notin ClaimTypes \/ e.intent # i
  PROVE  /\ ActiveClaims(ledger', i) = ActiveClaims(ledger, i)
         /\ ActiveClaim(ledger', i) = ActiveClaim(ledger, i)
<1> DEFINE n == Len(ledger)
<1>1. /\ n \in Nat /\ DOMAIN ledger = 1 .. n /\ DOMAIN ledger' = 1 .. n + 1
      /\ ledger'[n + 1] = e /\ \A k \in 1 .. n : ledger'[k] = ledger[k]
  BY AppendedLedger, LenProperties DEF Appends
<1>2. \A m, k \in 1 .. n : Releases(ledger', m, k) <=> Releases(ledger, m, k)
  BY KeptReleases
<1>3. \A k \in 1 .. n : ledger[k].intent = i => ~Releases(ledger', n + 1, k)
  BY <1>1 DEF Releases, ClaimTypes
<1>4. \A k \in 1 .. n + 1 : k \in 1 .. n \/ k = n + 1
  BY <1>1
<1>5. 1 .. n \subseteq 1 .. n + 1
  BY <1>1
<1>6. ~(e.type = "intent_claim_established" /\ e.intent = i)
  BY DEF ClaimTypes
<1> HIDE DEF n
<1>7. \A k : k \in ActiveClaims(ledger', i) => k \in ActiveClaims(ledger, i)
  BY <1>1, <1>2, <1>4, <1>5, <1>6 DEF ActiveClaims
<1>8. \A k : k \in ActiveClaims(ledger, i) => k \in ActiveClaims(ledger', i)
  BY <1>1, <1>2, <1>3, <1>4, <1>5 DEF ActiveClaims
<1>9. ActiveClaims(ledger', i) = ActiveClaims(ledger, i)
  BY <1>7, <1>8
<1> QED
  BY <1>9 DEF ActiveClaim

LEMMA ClaimBecomesActive ==
  ASSUME ledger \in Seq(Event), NEW i \in Intents, NEW o \in Owners,
         ActiveClaim(ledger, i) = NoId,
         Appends(ClaimEvent("intent_claim_established", i, Here, o))
  PROVE  ActiveClaim(ledger', i) = Here
<1> DEFINE n == Len(ledger)
           e == ClaimEvent("intent_claim_established", i, Here, o)
<1>1. n \in Nat /\ Here = n + 1 /\ Here # NoId
  BY LenProperties DEF Here, NoId
<1>2. e \in Event
  <2>1. i \in Intents \union {NoIntent} /\ o \in Owners \union {NoOwner} /\ Here \in Nat
        /\ "intent_claim_established" \in IntentTypes \union RunTypes \union OtherTypes
    BY <1>1 DEF OtherTypes
  <2> QED
    BY <2>1, EventsTyped
<1>3. e.type = "intent_claim_established" /\ e.intent = i
  BY ClaimEventSays
<1> HIDE DEF e
<1>4. /\ DOMAIN ledger' = 1 .. n + 1
      /\ ledger'[n + 1] = e /\ \A k \in 1 .. n : ledger'[k] = ledger[k]
  BY <1>2, AppendedLedger DEF Appends, e
<1>5. \A m, k \in 1 .. n : Releases(ledger', m, k) <=> Releases(ledger, m, k)
  BY <1>2, KeptReleases DEF e
<1>6. DOMAIN ledger = 1 .. n /\ ActiveClaims(ledger, i) = {}
  BY ActiveIsAClaim, LenProperties
<1>7. \A m \in 1 .. n + 1 : ~Releases(ledger', m, n + 1)
  BY <1>1 DEF Releases
<1>8. \A k \in 1 .. n + 1 : k \in ActiveClaims(ledger', i) <=> k = n + 1
  <2> TAKE k \in 1 .. n + 1
  <2>1. CASE k = n + 1
    BY <1>3, <1>4, <1>7, <2>1 DEF ActiveClaims
  <2>2. CASE k # n + 1
    <3>1. k \in 1 .. n /\ k \notin ActiveClaims(ledger, i)
      BY <1>1, <1>6, <2>2
    <3>2. 1 .. n \subseteq 1 .. n + 1
      BY <1>1
    <3> HIDE DEF n
    <3> QED
      BY <1>4, <1>5, <1>6, <2>2, <3>1, <3>2 DEF ActiveClaims
  <2> QED
    BY <2>1, <2>2
<1>9. ActiveClaims(ledger', i) = {} \union {n + 1}
  BY <1>1, <1>4, <1>8 DEF ActiveClaims
<1>10. FirstOf({} \union {n + 1}) = n + 1
  BY <1>1, FirstOfAppended
<1> QED
  BY <1>1, <1>9, <1>10 DEF ActiveClaim

LEMMA ReleaseEndsTheClaim ==
  ASSUME ledger \in Seq(Event), ClaimInv, NEW i \in Intents, NEW o \in Owners,
         Releasable(i, o),
         Appends(ClaimEvent("intent_released", i, ActiveClaim(ledger, i), o))
  PROVE  ActiveClaim(ledger', i) = NoId
<1> DEFINE n == Len(ledger)
           c == ActiveClaim(ledger, i)
           e == ClaimEvent("intent_released", i, c, o)
<1>1. n \in Nat /\ DOMAIN ledger = 1 .. n /\ ActiveClaims(ledger, i) \in SUBSET (1 .. n)
  BY LenProperties, ActiveIsAClaim
<1>2. c \in ActiveClaims(ledger, i) /\ c \in 1 .. n
  BY <1>1, ActiveIsAClaim DEF Releasable
<1>3. ledger[c].intent = i /\ ledger[c].claim = c /\ ledger[c].owner = o
  BY <1>1, <1>2 DEF ActiveClaims, ClaimInv, OwnIds, IsClaim, Releasable
<1>4. e \in Event
  <2>1. i \in Intents \union {NoIntent} /\ o \in Owners \union {NoOwner} /\ c \in Nat
        /\ "intent_released" \in IntentTypes \union RunTypes \union OtherTypes
    BY <1>2 DEF OtherTypes
  <2> HIDE DEF c
  <2> QED
    BY <2>1, EventsTyped
<1>5. e.type = "intent_released" /\ e.intent = i /\ e.claim = c /\ e.owner = o
  BY ClaimEventSays
<1> HIDE DEF e
<1>6. /\ DOMAIN ledger' = 1 .. n + 1
      /\ ledger'[n + 1] = e /\ \A k \in 1 .. n : ledger'[k] = ledger[k]
  BY <1>4, AppendedLedger DEF Appends, e
<1>7. Releases(ledger', n + 1, c)
  BY <1>1, <1>2, <1>3, <1>5, <1>6 DEF Releases
<1>8. \A m, k \in 1 .. n : Releases(ledger', m, k) <=> Releases(ledger, m, k)
  BY <1>4, KeptReleases DEF e
<1>9. ASSUME NEW k \in ActiveClaims(ledger', i) PROVE FALSE
  <2>1. k \in 1 .. n + 1 /\ \A m \in 1 .. n + 1 : ~Releases(ledger', m, k)
    BY <1>6, <1>9 DEF ActiveClaims
  <2>2. ledger'[k].type = "intent_claim_established" /\ ledger'[k].intent = i
    BY <1>9 DEF ActiveClaims
  <2>3. k # n + 1
    BY <1>5, <1>6, <2>2
  <2>4. k \in 1 .. n
    BY <1>1, <2>1, <2>3
  <2>5. \A m \in 1 .. n : m \in 1 .. n + 1
    BY <1>1
  <2> HIDE DEF c, n
  <2>6. k \in ActiveClaims(ledger, i)
    BY <1>1, <1>6, <1>8, <2>1, <2>2, <2>4, <2>5 DEF ActiveClaims
  <2>7. k = c
    BY <1>2, <2>6, OneActiveClaim DEF ClaimInv
  <2>8. n + 1 \in 1 .. n + 1
    BY <1>1
  <2> QED
    BY <1>7, <2>1, <2>7, <2>8
<1>10. ActiveClaims(ledger', i) = {}
  BY <1>9
<1> QED
  BY <1>10 DEF ActiveClaim

---------------------------------------------------------------------------
(* A table that missed no write stays what a rebuild would make of it.     *)

InboxIsLive ==
  "inbox" \notin stale => \A i \in Intents : inbox[i] = ExpectedInboxRow(ledger, i)
IntentsAreLive ==
  "intents" \notin stale => \A i \in Intents : intentProj[i] = ExpectedIntentRow(ledger, i)
ClaimsAreLive ==
  "claims" \notin stale => \A i \in Intents : claimProj[i] = ClaimRow(i, ActiveClaim(ledger, i))
RunsAreLive == "runs" \notin stale => runProj = ExpectedRunRows(ledger)

LEMMA TypesApart ==
  /\ Submissions \subseteq IntentTypes
  /\ \A t \in RunTypes : t \notin IntentTypes /\ t \notin OtherTypes
  /\ \A t \in OtherTypes : t \notin IntentTypes
  /\ ClaimTypes \subseteq OtherTypes
BY DEF Submissions, IntentTypes, RunTypes, OtherTypes, ClaimTypes

(* What a claim or a release appends.                                      *)
LEMMA ClaimWriteEvent ==
  ASSUME TypeOK, NEW i \in Intents \union {NoIntent}, NEW o \in Owners,
         (i \in Intents /\ WritesClaim(i, o)) \/ WritesRelease(i, o)
  PROVE  \E e \in Event : Appends(e) /\ e.type \in ClaimTypes /\ e.intent = i
<1>1. Here \in Nat /\ ActiveClaim(ledger, i) \in Nat /\ o \in Owners \union {NoOwner}
  BY ActiveClaimTyped, TypeParts DEF DbOK, Here
<1>2. \A t \in ClaimTypes : t \in IntentTypes \union RunTypes \union OtherTypes
  BY TypesApart
<1>3. \A t \in ClaimTypes, c \in Nat :
        ClaimEvent(t, i, c, o) \in Event /\ ClaimEvent(t, i, c, o).type = t
          /\ ClaimEvent(t, i, c, o).intent = i
  BY <1>1, <1>2, EventsTyped, ClaimEventSays
<1> QED
  BY <1>1, <1>3 DEF WritesClaim, WritesRelease, ClaimTypes

(* What a step appends is typed; a note, a run or a claim says nothing of  *)
(* a status.                                                               *)
LEMMA WritesSayLittle ==
  ASSUME TypeOK,
         \/ WritesNote \/ WritesRun
         \/ \E i \in Intents, o \in Owners : WritesClaim(i, o)
         \/ \E i \in Intents \union {NoIntent}, o \in Owners : WritesRelease(i, o)
  PROVE  /\ UNCHANGED <<inbox, intentProj>>
         /\ "inbox" \in stale => "inbox" \in stale'
         /\ "intents" \in stale => "intents" \in stale'
         /\ UNCHANGED ledger \/ \E e \in Event : Appends(e) /\ e.type \notin IntentTypes
<1>1. CASE WritesNote
  BY <1>1, TypesApart DEF WritesNote, db, tableVars
<1>2. CASE WritesRun
  BY <1>2, TypesApart DEF WritesRun
<1>3. ASSUME NEW i \in Intents, NEW o \in Owners, WritesClaim(i, o)
      PROVE  /\ UNCHANGED <<inbox, intentProj>>
             /\ "inbox" \in stale => "inbox" \in stale'
             /\ "intents" \in stale => "intents" \in stale'
             /\ \E e \in Event : Appends(e) /\ e.type \notin IntentTypes
  <2>1. \E e \in Event : Appends(e) /\ e.type \notin IntentTypes
    BY <1>3, ClaimWriteEvent, TypesApart
  <2> QED
    BY <1>3, <2>1 DEF WritesClaim
<1>4. ASSUME NEW i \in Intents \union {NoIntent}, NEW o \in Owners, WritesRelease(i, o)
      PROVE  /\ UNCHANGED <<inbox, intentProj>>
             /\ "inbox" \in stale => "inbox" \in stale'
             /\ "intents" \in stale => "intents" \in stale'
             /\ \E e \in Event : Appends(e) /\ e.type \notin IntentTypes
  <2>1. \E e \in Event : Appends(e) /\ e.type \notin IntentTypes
    BY <1>4, ClaimWriteEvent, TypesApart
  <2> QED
    BY <1>4, <2>1 DEF WritesRelease
<1> QED
  BY <1>1, <1>2, <1>3, <1>4

LEMMA InboxStaysLive ==
  ASSUME TypeOK, Writes, InboxIsLive PROVE InboxIsLive'
<1>1. ledger \in Seq(Event) /\ inbox \in [Intents -> {"NONE", "PENDING", "REJECTED"}]
  BY DEF TypeOK
<1>2. ASSUME UNCHANGED inbox, "inbox" \in stale => "inbox" \in stale',
             UNCHANGED ledger \/ \E e \in Event : Appends(e) /\ e.type \notin Submissions
      PROVE  InboxIsLive'
  <2>1. \A i \in Intents : ExpectedInboxRow(ledger', i) = ExpectedInboxRow(ledger, i)
    BY <1>1, <1>2, InboxRowAppended
  <2> QED
    BY <1>2, <2>1 DEF InboxIsLive
<1>3. CASE WritesSubmission
  <2>1. PICK e \in Event : /\ Appends(e) /\ e.type \in Submissions /\ e.intent \in Intents
                           /\ RowsOf(ledger, e.intent) = {}
                           /\ \/ /\ inbox' = [inbox EXCEPT ![e.intent] = StatusByType[e.type]]
                                 /\ UNCHANGED stale
                              \/ "inbox" \in stale'
    BY <1>3 DEF WritesSubmission
  <2>2. ExpectedInboxRow(ledger, e.intent) = "NONE"
    BY <2>1 DEF ExpectedInboxRow
  <2>3. \A i \in Intents :
          ExpectedInboxRow(ledger', i) = IF i = e.intent THEN StatusByType[e.type]
                                         ELSE ExpectedInboxRow(ledger, i)
    BY <1>1, <2>1, <2>2, InboxRowAppended
  <2> QED
    BY <1>1, <2>1, <2>3 DEF InboxIsLive
<1>4. CASE WritesIntent
  BY <1>2, <1>4 DEF WritesIntent
<1>5. CASE RebuildInboxEntries
  BY <1>5 DEF RebuildInboxEntries, Rebuild, InboxIsLive
<1>6. CASE RebuildIntentProjection \/ RebuildClaimProjection \/ RebuildProjection
  BY <1>2, <1>6 DEF RebuildIntentProjection, RebuildClaimProjection, RebuildProjection, Rebuild
<1> QED
  BY <1>2, <1>3, <1>4, <1>5, <1>6, WritesSayLittle, TypesApart DEF Writes, CallWrites, DispatchWrites

LEMMA IntentsStayLive ==
  ASSUME TypeOK, TypeOK', LegalIntentHistory', Writes, IntentsAreLive PROVE IntentsAreLive'
<1>1. /\ ledger \in Seq(Event)
      /\ intentProj \in [Intents -> [status : {"NONE", "PENDING", "RUNNING", "REJECTED",
                                               "COMPLETED", "FAILED"}, event : Nat]]
  BY DEF TypeOK
<1>2. ASSUME UNCHANGED intentProj, "intents" \in stale => "intents" \in stale',
             UNCHANGED ledger \/ \E e \in Event : Appends(e) /\ e.type \notin IntentTypes
      PROVE  IntentsAreLive'
  <2>1. \A i \in Intents : ExpectedIntentRow(ledger', i) = ExpectedIntentRow(ledger, i)
    BY <1>1, <1>2, IntentRowKept
  <2> QED
    BY <1>2, <2>1 DEF IntentsAreLive
<1>3. ASSUME NEW e \in Event, Appends(e), e.type \in IntentTypes,
             \/ UpsertIntentRow(e.intent, StatusByType[e.type]) /\ UNCHANGED stale
             \/ "intents" \in stale'
      PROVE  IntentsAreLive'
  <2>1. \A i \in Intents :
          ExpectedIntentRow(ledger', i)
            = IF i = e.intent THEN [status |-> StatusByType[e.type], event |-> Here]
              ELSE ExpectedIntentRow(ledger, i)
    BY <1>1, <1>3, IntentRowKept, IntentRowAppended
  <2> QED
    BY <1>1, <1>3, <2>1 DEF IntentsAreLive, UpsertIntentRow
<1>4. CASE WritesSubmission \/ WritesIntent
  BY <1>3, <1>4, TypesApart DEF WritesSubmission, WritesIntent
<1>5. CASE RebuildIntentProjection
  BY <1>5 DEF RebuildIntentProjection, Rebuild, IntentsAreLive
<1>6. CASE RebuildInboxEntries \/ RebuildClaimProjection \/ RebuildProjection
  BY <1>2, <1>6 DEF RebuildInboxEntries, RebuildClaimProjection, RebuildProjection, Rebuild
<1> QED
  BY <1>2, <1>4, <1>5, <1>6, WritesSayLittle DEF Writes, CallWrites, DispatchWrites

LEMMA RunsStayLive ==
  ASSUME TypeOK, Writes, RunsAreLive PROVE RunsAreLive'
<1>1. ledger \in Seq(Event)
  BY DEF TypeOK
<1>2. ASSUME UNCHANGED runProj, "runs" \in stale => "runs" \in stale',
             UNCHANGED ledger \/ \E e \in Event : Appends(e) /\ e.type \notin RunTypes
      PROVE  RunsAreLive'
  <2>1. ExpectedRunRows(ledger') = ExpectedRunRows(ledger)
    BY <1>1, <1>2, RunRowsAppended
  <2> QED
    BY <1>2, <2>1 DEF RunsAreLive
<1>3. CASE WritesRun
  <2>1. PICK e \in Event : /\ Appends(e) /\ e.type \in RunTypes
                           /\ \/ UpsertRunRow(e.run, e.type) /\ UNCHANGED stale
                              \/ "runs" \in stale'
    BY <1>3 DEF WritesRun
  <2>2. ExpectedRunRows(ledger')
          = {row \in ExpectedRunRows(ledger) : row.run # e.run}
              \union {[run |-> e.run, state |-> e.type, event |-> Here]}
    BY <1>1, <2>1, RunRowsAppended
  <2> QED
    BY <2>1, <2>2 DEF RunsAreLive, UpsertRunRow
<1>4. CASE WritesNote \/ WritesSubmission \/ WritesIntent
  BY <1>2, <1>4, TypesApart DEF WritesNote, db, tableVars, WritesSubmission, WritesIntent
<1>5. ASSUME NEW i \in Intents \union {NoIntent}, NEW o \in Owners,
             (i \in Intents /\ WritesClaim(i, o)) \/ WritesRelease(i, o)
      PROVE  RunsAreLive'
  <2>1. \E e \in Event : Appends(e) /\ e.type \notin RunTypes
    BY <1>5, ClaimWriteEvent, TypesApart
  <2> QED
    BY <1>2, <1>5, <2>1 DEF WritesClaim, WritesRelease
<1>6. CASE RebuildProjection
  BY <1>6 DEF RebuildProjection, Rebuild, RunsAreLive
<1>7. CASE RebuildInboxEntries \/ RebuildIntentProjection \/ RebuildClaimProjection
  BY <1>2, <1>7 DEF RebuildInboxEntries, RebuildIntentProjection, RebuildClaimProjection, Rebuild
<1> QED
  BY <1>3, <1>4, <1>5, <1>6, <1>7 DEF Writes, CallWrites, DispatchWrites

(* A claim that stays active stays where it is in the ledger.              *)
LEMMA ClaimRowKept ==
  ASSUME ledger \in Seq(Event), NEW e \in Event, Appends(e), NEW i,
         e.type \notin ClaimTypes \/ e.intent # i
  PROVE  ClaimRow(i, ActiveClaim(ledger, i))' = ClaimRow(i, ActiveClaim(ledger, i))
<1> DEFINE c == ActiveClaim(ledger, i)
<1>1. ActiveClaim(ledger', i) = c
  BY OtherClaimsKept
<1>2. c # NoId => c \in 1 .. Len(ledger)
  BY ActiveIsAClaim
<1>3. c # NoId => ledger'[c] = ledger[c]
  BY <1>2, AppendedLedger DEF Appends
<1> HIDE DEF c
<1>4. ClaimRow(i, ActiveClaim(ledger, i))'
        = IF c = NoId THEN NoClaimRow ELSE [claim |-> c, owner |-> ledger'[c].owner]
  BY <1>1 DEF ClaimRow, NoClaimRow
<1> QED
  BY <1>3, <1>4 DEF ClaimRow, c

LEMMA ClaimsStayLive ==
  ASSUME TypeOK, ClaimInv, Writes, ClaimsAreLive PROVE ClaimsAreLive'
<1>1. ledger \in Seq(Event) /\ claimProj \in [Intents -> [claim : Nat, owner : Owners \union {NoOwner}]]
  BY DEF TypeOK
<1>2. ASSUME UNCHANGED claimProj, "claims" \in stale => "claims" \in stale',
             UNCHANGED ledger \/ \E e \in Event : Appends(e) /\ e.type \notin ClaimTypes
      PROVE  ClaimsAreLive'
  <2>1. \A i \in Intents : ClaimRow(i, ActiveClaim(ledger, i))' = ClaimRow(i, ActiveClaim(ledger, i))
    BY <1>1, <1>2, ClaimRowKept DEF ClaimRow, NoClaimRow
  <2> QED
    BY <1>2, <2>1 DEF ClaimsAreLive
<1>3. CASE WritesNote \/ WritesSubmission \/ WritesIntent \/ WritesRun
  <2>1. \A t \in IntentTypes \union RunTypes : t \notin ClaimTypes
    BY TypesApart
  <2> QED
    BY <1>2, <1>3, <2>1, TypesApart DEF WritesNote, db, tableVars, WritesSubmission, WritesIntent, WritesRun
<1>4. ASSUME NEW i \in Intents, NEW o \in Owners, WritesClaim(i, o)
      PROVE  ClaimsAreLive'
  <2>1. PICK e \in Event : Appends(e) /\ e.type \in ClaimTypes /\ e.intent = i
    BY <1>4, ClaimWriteEvent
  <2>2. \A j \in Intents \ {i} : ClaimRow(j, ActiveClaim(ledger, j))' = ClaimRow(j, ActiveClaim(ledger, j))
    BY <1>1, <2>1, ClaimRowKept
  <2>3. ActiveClaim(ledger', i) = Here /\ Here # NoId
    <3>1. ActiveClaim(ledger', i) = Here
      BY <1>1, <1>4, ClaimBecomesActive DEF WritesClaim
    <3> QED
      BY <1>1, <3>1, LenProperties DEF Here, NoId
  <2>4. ledger'[Here].owner = o
    <3>1. ledger' = Append(ledger, ClaimEvent("intent_claim_established", i, Here, o))
      BY <1>4 DEF WritesClaim, Appends
    <3>2. ledger'[Here] = ClaimEvent("intent_claim_established", i, Here, o)
      BY <1>1, <2>1, <3>1, AppendedLedger DEF Here, Appends
    <3> QED
      BY <3>2, ClaimEventSays
  <2>5. ClaimRow(i, ActiveClaim(ledger, i))' = [claim |-> Here, owner |-> o]
    BY <2>3, <2>4 DEF ClaimRow
  <2> QED
    BY <1>1, <1>4, <2>2, <2>5 DEF WritesClaim, ClaimsAreLive
<1>5. ASSUME NEW i \in Intents \union {NoIntent}, NEW o \in Owners, WritesRelease(i, o)
      PROVE  ClaimsAreLive'
  <2>1. PICK e \in Event : Appends(e) /\ e.type \in ClaimTypes /\ e.intent = i
    BY <1>5, ClaimWriteEvent
  <2>2. \A j \in Intents \ {i} : ClaimRow(j, ActiveClaim(ledger, j))' = ClaimRow(j, ActiveClaim(ledger, j))
    BY <1>1, <2>1, ClaimRowKept
  <2>3. i \in Intents => ClaimRow(i, ActiveClaim(ledger, i))' = NoClaimRow
    <3> SUFFICES ASSUME i \in Intents PROVE ClaimRow(i, ActiveClaim(ledger, i))' = NoClaimRow
      OBVIOUS
    <3>1. ActiveClaim(ledger', i) = NoId
      BY <1>1, <1>5, ReleaseEndsTheClaim DEF WritesRelease
    <3> QED
      BY <3>1 DEF ClaimRow, NoClaimRow
  <2>4. /\ "claims" \in stale => "claims" \in stale'
        /\ "claims" \in stale' \/ claimProj' = [claimProj EXCEPT ![i] = NoClaimRow]
    BY <1>5 DEF WritesRelease
  <2> QED
    BY <1>1, <2>2, <2>3, <2>4 DEF ClaimsAreLive
<1>6. CASE RebuildClaimProjection
  BY <1>6 DEF RebuildClaimProjection, Rebuild, ClaimsAreLive, ClaimRow, NoClaimRow
<1>7. CASE RebuildInboxEntries \/ RebuildIntentProjection \/ RebuildProjection
  BY <1>2, <1>7 DEF RebuildInboxEntries, RebuildIntentProjection, RebuildProjection, Rebuild
<1> QED
  BY <1>3, <1>4, <1>5, <1>6, <1>7 DEF Writes, CallWrites, DispatchWrites

LEMMA LiveParts ==
  /\ LiveEqualsRebuilt <=> InboxIsLive /\ IntentsAreLive /\ ClaimsAreLive /\ RunsAreLive
  /\ LiveEqualsRebuilt' <=> InboxIsLive' /\ IntentsAreLive' /\ ClaimsAreLive' /\ RunsAreLive'
BY DEF LiveEqualsRebuilt, InboxIsLive, IntentsAreLive, ClaimsAreLive, RunsAreLive

LEMMA LiveInit == Init => LiveEqualsRebuilt
<1> SUFFICES ASSUME Init PROVE LiveEqualsRebuilt
  OBVIOUS
<1>1. ledger = <<>> /\ DOMAIN ledger = {}
  BY DEF Init
<1>2. \A i : RowsOf(ledger, i) = {} /\ ActiveClaims(ledger, i) = {} /\ RunIds(ledger) = {}
  BY <1>1 DEF RowsOf, ActiveClaims, RunIds
<1>3. \A i : ExpectedInboxRow(ledger, i) = "NONE" /\ ExpectedIntentRow(ledger, i) = NoIntentRow
  BY <1>2 DEF ExpectedInboxRow, ExpectedIntentRow, NoIntentRow
<1>4. \A i : ClaimRow(i, ActiveClaim(ledger, i)) = NoClaimRow
  BY <1>2 DEF ActiveClaim, ClaimRow
<1>5. ExpectedRunRows(ledger) = {}
  BY <1>2 DEF ExpectedRunRows
<1> QED
  BY <1>3, <1>4, <1>5 DEF Init, LiveEqualsRebuilt

LEMMA LiveNext ==
  ASSUME TypeOK, TypeOK', LegalIntentHistory', ClaimInv, LiveEqualsRebuilt, [Next]_vars
  PROVE  LiveEqualsRebuilt'
BY NextWrites, LiveParts, InboxStaysLive, IntentsStayLive, ClaimsStayLive, RunsStayLive

LEMMA ClaimsCorrect == Spec => []ClaimInv
BY ClaimInit, ClaimNext, TypeCorrect, PTL DEF Spec

(* However writes fail and rebuilds are interrupted, a table that missed no*)
(* write since its last rebuild is the table that a rebuild would make.    *)
THEOREM LiveIsRebuilt ==
  ASSUME NestedIds = FALSE
  PROVE  Spec => []LiveEqualsRebuilt
<1>1. HistoryInv => LegalIntentHistory
  BY DEF HistoryInv
<1>2. TypeOK /\ TypeOK' /\ LegalIntentHistory' /\ ClaimInv /\ LiveEqualsRebuilt /\ [Next]_vars
        => LiveEqualsRebuilt'
  BY LiveNext
<1> QED
  BY <1>1, <1>2, LiveInit, TypeCorrect, HistoryCorrect, ClaimsCorrect, PTL DEF Spec

---------------------------------------------------------------------------
(* A row of a table says what an event once established.                   *)

InboxRowsRecorded ==
  \A i \in Intents : inbox[i] # "NONE" => inbox[i] = ExpectedInboxRow(ledger, i)

IntentRowsRecorded ==
  \A i \in Intents :
    intentProj[i] # NoIntentRow =>
      /\ intentProj[i].event \in RowsOf(ledger, i)
      /\ StatusByType[ledger[intentProj[i].event].type] = intentProj[i].status

ClaimRowsRecorded ==
  \A i \in Intents :
    claimProj[i] # NoClaimRow =>
      /\ claimProj[i].claim \in DOMAIN ledger
      /\ ledger[claimProj[i].claim]
           = ClaimEvent("intent_claim_established", i, claimProj[i].claim, claimProj[i].owner)

RunRowsRecorded ==
  \A row \in runProj :
    row.event \in RunRows(ledger, row.run) /\ row.state = ledger[row.event].type

(* A claim as it was recorded: the event is the claim and nothing else.    *)
ClaimsAreEvents ==
  \A k \in DOMAIN ledger :
    IsClaim(ledger, k) =>
      ledger[k] = ClaimEvent("intent_claim_established", ledger[k].intent, k, ledger[k].owner)

LEMMA RecordedParts ==
  /\ RowsWereRecorded
       <=> InboxRowsRecorded /\ IntentRowsRecorded /\ ClaimRowsRecorded /\ RunRowsRecorded
  /\ RowsWereRecorded'
       <=> InboxRowsRecorded' /\ IntentRowsRecorded' /\ ClaimRowsRecorded' /\ RunRowsRecorded'
BY DEF RowsWereRecorded, InboxRowsRecorded, IntentRowsRecorded, ClaimRowsRecorded, RunRowsRecorded

(* The ledger only grows.                                                  *)
Grows ==
  /\ DOMAIN ledger \subseteq DOMAIN ledger'
  /\ \A k \in DOMAIN ledger : ledger'[k] = ledger[k]

LEMMA AppendGrows ==
  ASSUME ledger \in Seq(Event), NEW e \in Event, Appends(e) PROVE Grows
BY AppendedLedger, LenProperties DEF Appends, Grows

LEMMA WritesGrow == ASSUME TypeOK, Writes PROVE Grows
<1>1. ledger \in Seq(Event)
  BY DEF TypeOK
<1>2. CASE UNCHANGED ledger
  BY <1>2 DEF Grows
<1>3. ASSUME NEW i \in Intents \union {NoIntent}, NEW o \in Owners,
             (i \in Intents /\ WritesClaim(i, o)) \/ WritesRelease(i, o)
      PROVE  Grows
  BY <1>1, <1>3, ClaimWriteEvent, AppendGrows
<1>4. CASE WritesNote \/ WritesSubmission \/ WritesIntent \/ WritesRun
  BY <1>1, <1>2, <1>4, AppendGrows DEF WritesNote, db, WritesSubmission, WritesIntent, WritesRun
<1> QED
  BY <1>2, <1>3, <1>4
  DEF Writes, CallWrites, DispatchWrites, RebuildInboxEntries, RebuildIntentProjection, RebuildClaimProjection,
      RebuildProjection, Rebuild

LEMMA RowsStayWhereTheyAre ==
  ASSUME Grows
  PROVE  /\ \A i : RowsOf(ledger, i) \subseteq RowsOf(ledger', i)
         /\ \A r : RunRows(ledger, r) \subseteq RunRows(ledger', r)
BY DEF Grows, RowsOf, RunRows

LEMMA InboxStaysRecorded ==
  ASSUME TypeOK, Writes, InboxRowsRecorded PROVE InboxRowsRecorded'
<1>1. ledger \in Seq(Event) /\ inbox \in [Intents -> {"NONE", "PENDING", "REJECTED"}]
  BY DEF TypeOK
<1>2. ASSUME UNCHANGED inbox, UNCHANGED ledger \/ \E e \in Event : Appends(e)
      PROVE  InboxRowsRecorded'
  BY <1>1, <1>2, InboxRowAppended DEF InboxRowsRecorded
<1>3. CASE WritesSubmission
  <2>1. PICK e \in Event : /\ Appends(e) /\ e.type \in Submissions /\ e.intent \in Intents
                           /\ RowsOf(ledger, e.intent) = {}
                           /\ \/ inbox' = [inbox EXCEPT ![e.intent] = StatusByType[e.type]]
                              \/ UNCHANGED inbox
    BY <1>3 DEF WritesSubmission
  <2>2. ExpectedInboxRow(ledger, e.intent) = "NONE"
    BY <2>1 DEF ExpectedInboxRow
  <2>3. ExpectedInboxRow(ledger', e.intent) = StatusByType[e.type]
    BY <1>1, <2>1, <2>2, InboxRowAppended
  <2>4. \A i \in Intents : inbox[i] # "NONE" => inbox[i] = ExpectedInboxRow(ledger', i)
    BY <1>1, <2>1, InboxRowAppended DEF InboxRowsRecorded
  <2> QED
    BY <1>1, <2>1, <2>3, <2>4 DEF InboxRowsRecorded
<1>4. CASE WritesIntent
  BY <1>2, <1>4 DEF WritesIntent
<1>5. CASE RebuildInboxEntries
  BY <1>5 DEF RebuildInboxEntries, Rebuild, InboxRowsRecorded
<1>6. CASE RebuildIntentProjection \/ RebuildClaimProjection \/ RebuildProjection
  BY <1>2, <1>6 DEF RebuildIntentProjection, RebuildClaimProjection, RebuildProjection, Rebuild
<1> QED
  BY <1>2, <1>3, <1>4, <1>5, <1>6, WritesSayLittle DEF Writes, CallWrites, DispatchWrites

LEMMA IntentRowsStayRecorded ==
  ASSUME TypeOK, Writes, IntentRowsRecorded PROVE IntentRowsRecorded'
<1>1. /\ ledger \in Seq(Event)
      /\ intentProj \in [Intents -> [status : {"NONE", "PENDING", "RUNNING", "REJECTED",
                                               "COMPLETED", "FAILED"}, event : Nat]]
  BY DEF TypeOK
<1>2. Grows /\ \A i : RowsOf(ledger, i) \subseteq RowsOf(ledger', i)
  BY WritesGrow, RowsStayWhereTheyAre
<1>3. ASSUME NEW i \in Intents, intentProj'[i] = intentProj[i], intentProj'[i] # NoIntentRow
      PROVE  /\ intentProj'[i].event \in RowsOf(ledger', i)
             /\ StatusByType[ledger'[intentProj'[i].event].type] = intentProj'[i].status
  <2>1. intentProj[i].event \in RowsOf(ledger, i)
    BY <1>3 DEF IntentRowsRecorded
  <2>2. ledger'[intentProj[i].event] = ledger[intentProj[i].event]
    BY <1>2, <2>1 DEF Grows, RowsOf
  <2> QED
    BY <1>2, <1>3, <2>1, <2>2 DEF IntentRowsRecorded
<1>4. ASSUME UNCHANGED intentProj PROVE IntentRowsRecorded'
  BY <1>3, <1>4 DEF IntentRowsRecorded
<1>5. ASSUME NEW e \in Event, Appends(e), e.type \in IntentTypes,
             UpsertIntentRow(e.intent, StatusByType[e.type]) \/ UNCHANGED intentProj
      PROVE  IntentRowsRecorded'
  <2>1. Here \in RowsOf(ledger', e.intent) /\ ledger'[Here] = e
    BY <1>1, <1>5, OwnHistory, AppendedLedger DEF Appends, Here
  <2>2. ASSUME NEW i \in Intents, intentProj'[i] # intentProj[i]
        PROVE  i = e.intent /\ intentProj'[i] = [status |-> StatusByType[e.type], event |-> Here]
    BY <1>1, <1>5, <2>2 DEF UpsertIntentRow
  <2>3. ASSUME NEW i \in Intents, intentProj'[i] # NoIntentRow
        PROVE  /\ intentProj'[i].event \in RowsOf(ledger', i)
               /\ StatusByType[ledger'[intentProj'[i].event].type] = intentProj'[i].status
    BY <1>3, <2>1, <2>2, <2>3
  <2> QED
    BY <2>3 DEF IntentRowsRecorded
<1>6. CASE WritesSubmission \/ WritesIntent
  BY <1>5, <1>6, TypesApart DEF WritesSubmission, WritesIntent
<1>7. CASE RebuildIntentProjection
  <2>1. ledger' = ledger /\ \A i \in Intents : intentProj'[i] = ExpectedIntentRow(ledger, i)
    BY <1>7 DEF RebuildIntentProjection, Rebuild
  <2>2. \A i \in Intents : RowsOf(ledger, i) = {} => ExpectedIntentRow(ledger, i) = NoIntentRow
    BY DEF ExpectedIntentRow, NoIntentRow
  <2>3. ASSUME NEW i \in Intents, RowsOf(ledger, i) # {}
        PROVE  /\ ExpectedIntentRow(ledger, i).event \in RowsOf(ledger, i)
               /\ StatusByType[ledger[ExpectedIntentRow(ledger, i).event].type]
                    = ExpectedIntentRow(ledger, i).status
    <3> DEFINE k == Deciding(ledger, RowsOf(ledger, i))
    <3>1. k \in RowsOf(ledger, i)
      BY <1>1, <2>3, RowsArePositions, DecidingIsARow
    <3>2. ExpectedIntentRow(ledger, i) = [status |-> StatusByType[ledger[k].type], event |-> k]
      BY <2>3 DEF ExpectedIntentRow
    <3> QED
      BY <3>1, <3>2
  <2> QED
    BY <2>1, <2>2, <2>3 DEF IntentRowsRecorded
<1>8. CASE RebuildInboxEntries \/ RebuildClaimProjection \/ RebuildProjection
  BY <1>4, <1>8 DEF RebuildInboxEntries, RebuildClaimProjection, RebuildProjection
<1> QED
  BY <1>4, <1>6, <1>7, <1>8, WritesSayLittle DEF Writes, CallWrites, DispatchWrites

LEMMA ClaimEventsStay ==
  ASSUME TypeOK, Writes, ClaimsAreEvents PROVE ClaimsAreEvents'
<1>1. ledger \in Seq(Event)
  BY DEF TypeOK
<1>2. ASSUME NEW e \in Event, Appends(e),
             e.type = "intent_claim_established"
               => e = ClaimEvent("intent_claim_established", e.intent, Here, e.owner)
      PROVE  ClaimsAreEvents'
  BY <1>1, <1>2, AppendedLedger, LenProperties DEF ClaimsAreEvents, IsClaim, Appends, Here
<1>3. CASE UNCHANGED ledger
  BY <1>3 DEF ClaimsAreEvents, IsClaim
<1>4. CASE WritesNote \/ WritesSubmission \/ WritesIntent \/ WritesRun
  <2>1. \A t \in IntentTypes \union RunTypes \union (OtherTypes \ ClaimTypes) :
          t # "intent_claim_established"
    BY TypesApart DEF ClaimTypes, OtherTypes, IntentTypes, RunTypes
  <2> QED
    BY <1>2, <1>3, <1>4, <2>1, TypesApart DEF WritesNote, db, WritesSubmission, WritesIntent, WritesRun
<1>5. ASSUME NEW i \in Intents \union {NoIntent}, NEW o \in Owners, WritesRelease(i, o)
      PROVE  ClaimsAreEvents'
  <2> DEFINE e == ClaimEvent("intent_released", i, ActiveClaim(ledger, i), o)
  <2>1. Appends(e) /\ e.type = "intent_released"
    BY <1>5, ClaimEventSays DEF WritesRelease
  <2>2. \E x \in Event : Appends(x)
    BY <1>5, ClaimWriteEvent
  <2>3. ASSUME NEW x \in Event, Appends(x) PROVE x = e
    BY <1>1, <2>1, <2>3 DEF Appends
  <2> HIDE DEF e
  <2> QED
    BY <1>2, <2>1, <2>2, <2>3
<1>6. ASSUME NEW i \in Intents, NEW o \in Owners, WritesClaim(i, o)
      PROVE  ClaimsAreEvents'
  <2> DEFINE e == ClaimEvent("intent_claim_established", i, Here, o)
  <2>1. Appends(e)
    BY <1>6 DEF WritesClaim
  <2>2. e.type = "intent_claim_established" /\ e.intent = i /\ e.owner = o
    BY ClaimEventSays
  <2>3. e \in Event
    <3>1. /\ i \in Intents \union {NoIntent} /\ o \in Owners \union {NoOwner} /\ Here \in Nat
          /\ "intent_claim_established" \in IntentTypes \union RunTypes \union OtherTypes
      BY <1>1, LenProperties DEF OtherTypes, Here
    <3> QED
      BY <3>1, EventsTyped
  <2>4. e = ClaimEvent("intent_claim_established", e.intent, Here, e.owner)
    BY <2>2
  <2> HIDE DEF e
  <2> QED
    BY <1>2, <2>1, <2>3, <2>4
<1> QED
  BY <1>3, <1>4, <1>5, <1>6
  DEF Writes, CallWrites, DispatchWrites, RebuildInboxEntries, RebuildIntentProjection, RebuildClaimProjection,
      RebuildProjection, Rebuild

LEMMA ClaimRowsStayRecorded ==
  ASSUME TypeOK, ClaimsAreEvents, ClaimsAreEvents', Writes, ClaimRowsRecorded
  PROVE  ClaimRowsRecorded'
<1>1. ledger \in Seq(Event) /\ claimProj \in [Intents -> [claim : Nat, owner : Owners \union {NoOwner}]]
  BY DEF TypeOK
<1>2. Grows
  BY WritesGrow
<1>3. ASSUME NEW i \in Intents, claimProj'[i] = claimProj[i], claimProj'[i] # NoClaimRow
      PROVE  /\ claimProj'[i].claim \in DOMAIN ledger'
             /\ ledger'[claimProj'[i].claim]
                  = ClaimEvent("intent_claim_established", i, claimProj'[i].claim, claimProj'[i].owner)
  BY <1>2, <1>3 DEF ClaimRowsRecorded, Grows
<1>4. ASSUME UNCHANGED claimProj PROVE ClaimRowsRecorded'
  BY <1>3, <1>4 DEF ClaimRowsRecorded
<1>5. CASE WritesNote \/ WritesSubmission \/ WritesIntent \/ WritesRun
  BY <1>4, <1>5 DEF WritesNote, db, tableVars, WritesSubmission, WritesIntent, WritesRun
<1>6. ASSUME NEW i \in Intents, NEW o \in Owners, WritesClaim(i, o)
      PROVE  ClaimRowsRecorded'
  <2>1. PICK e \in Event : Appends(e)
    BY <1>6, ClaimWriteEvent
  <2>2. Appends(ClaimEvent("intent_claim_established", i, Here, o))
    BY <1>6 DEF WritesClaim
  <2>3. ledger'[Here] = ClaimEvent("intent_claim_established", i, Here, o) /\ Here \in DOMAIN ledger'
    BY <1>1, <2>1, <2>2, AppendedLedger DEF Appends, Here
  <2>4. \/ claimProj' = [claimProj EXCEPT ![i] = [claim |-> Here, owner |-> o]]
        \/ UNCHANGED claimProj
    BY <1>6 DEF WritesClaim
  <2>5. \A j \in Intents : claimProj'[j] # claimProj[j]
                             => j = i /\ claimProj'[j] = [claim |-> Here, owner |-> o]
    BY <1>1, <2>4
  <2> QED
    BY <1>3, <2>3, <2>5 DEF ClaimRowsRecorded
<1>7. ASSUME NEW i \in Intents \union {NoIntent}, NEW o \in Owners, WritesRelease(i, o)
      PROVE  ClaimRowsRecorded'
  <2>1. \/ claimProj' = [claimProj EXCEPT ![i] = NoClaimRow]
        \/ UNCHANGED claimProj
    BY <1>7 DEF WritesRelease
  <2>2. \A j \in Intents : claimProj'[j] # claimProj[j] => claimProj'[j] = NoClaimRow
    BY <1>1, <2>1
  <2> QED
    BY <1>3, <2>2 DEF ClaimRowsRecorded
<1>8. CASE RebuildClaimProjection
  <2>1. ledger' = ledger /\ \A i \in Intents : claimProj'[i] = ClaimRow(i, ActiveClaim(ledger, i))
    BY <1>8 DEF RebuildClaimProjection, Rebuild
  <2>2. ASSUME NEW i \in Intents, claimProj'[i] # NoClaimRow
        PROVE  /\ claimProj'[i].claim \in DOMAIN ledger
               /\ ledger[claimProj'[i].claim]
                    = ClaimEvent("intent_claim_established", i, claimProj'[i].claim, claimProj'[i].owner)
    <3> DEFINE c == ActiveClaim(ledger, i)
    <3>1. c # NoId /\ claimProj'[i] = [claim |-> c, owner |-> ledger[c].owner]
      BY <2>1, <2>2 DEF ClaimRow
    <3>2. c \in DOMAIN ledger /\ IsClaim(ledger, c) /\ ledger[c].intent = i
      BY <1>1, <3>1, ActiveIsAClaim DEF ActiveClaims, IsClaim
    <3>3. ledger[c] = ClaimEvent("intent_claim_established", i, c, ledger[c].owner)
      BY <3>2 DEF ClaimsAreEvents
    <3>4. claimProj'[i].claim = c /\ claimProj'[i].owner = ledger[c].owner
      BY <3>1
    <3> QED
      BY <3>2, <3>3, <3>4
  <2> QED
    BY <2>1, <2>2 DEF ClaimRowsRecorded
<1>9. CASE RebuildInboxEntries \/ RebuildIntentProjection \/ RebuildProjection
  BY <1>4, <1>9 DEF RebuildInboxEntries, RebuildIntentProjection, RebuildProjection
<1> QED
  BY <1>5, <1>6, <1>7, <1>8, <1>9 DEF Writes, CallWrites, DispatchWrites

LEMMA RunRowsStayRecorded ==
  ASSUME TypeOK, Writes, RunRowsRecorded PROVE RunRowsRecorded'
<1>1. ledger \in Seq(Event) /\ DOMAIN ledger = 1 .. Len(ledger) /\ Len(ledger) \in Nat
  BY LenProperties DEF TypeOK
<1>2. Grows /\ \A r : RunRows(ledger, r) \subseteq RunRows(ledger', r)
  BY WritesGrow, RowsStayWhereTheyAre
<1>3. \A row \in runProj :
        row.event \in RunRows(ledger', row.run) /\ row.state = ledger'[row.event].type
  BY <1>2 DEF RunRowsRecorded, Grows, RunRows
<1>4. ASSUME UNCHANGED runProj PROVE RunRowsRecorded'
  BY <1>3, <1>4 DEF RunRowsRecorded
<1>5. CASE WritesRun
  <2>1. PICK e \in Event : /\ Appends(e) /\ e.type \in RunTypes
                           /\ UpsertRunRow(e.run, e.type) \/ UNCHANGED runProj
    BY <1>5 DEF WritesRun
  <2>2. ledger'[Here] = e /\ Here \in DOMAIN ledger'
    BY <1>1, <2>1, AppendedLedger DEF Appends, Here
  <2>3. Here \in RunRows(ledger', e.run)
    BY <2>1, <2>2 DEF RunRows
  <2>4. \A row \in runProj' :
          row \in runProj \/ row = [run |-> e.run, state |-> e.type, event |-> Here]
    BY <2>1 DEF UpsertRunRow
  <2> QED
    BY <1>3, <2>2, <2>3, <2>4 DEF RunRowsRecorded
<1>6. CASE WritesNote \/ WritesSubmission \/ WritesIntent
  BY <1>4, <1>6 DEF WritesNote, db, tableVars, WritesSubmission, WritesIntent
<1>7. CASE RebuildProjection
  <2>1. ledger' = ledger /\ runProj' = ExpectedRunRows(ledger)
    BY <1>7 DEF RebuildProjection, Rebuild
  <2>2. ASSUME NEW row \in ExpectedRunRows(ledger)
        PROVE  row.event \in RunRows(ledger, row.run) /\ row.state = ledger[row.event].type
    <3>1. PICK r \in RunIds(ledger) :
            row = [run |-> r, state |-> RunState(ledger, r), event |-> LastOf(RunRows(ledger, r))]
      BY <2>2 DEF ExpectedRunRows
    <3>2. RunRows(ledger, r) # {} /\ RunRows(ledger, r) \in SUBSET (1 .. Len(ledger))
      BY <1>1, <3>1 DEF RunIds, RunRows
    <3>3. LastOf(RunRows(ledger, r)) \in RunRows(ledger, r)
      BY <1>1, <3>2, LastOfIsGreatest
    <3>4. RunState(ledger, r) = ledger[LastOf(RunRows(ledger, r))].type
      BY <3>2 DEF RunState
    <3> QED
      BY <3>1, <3>3, <3>4
  <2> QED
    BY <2>1, <2>2 DEF RunRowsRecorded
<1>8. CASE RebuildInboxEntries \/ RebuildIntentProjection \/ RebuildClaimProjection
  BY <1>4, <1>8 DEF RebuildInboxEntries, RebuildIntentProjection, RebuildClaimProjection
<1> QED
  BY <1>4, <1>5, <1>6, <1>7, <1>8 DEF Writes, CallWrites, DispatchWrites, WritesClaim, WritesRelease

RecordedInv == ClaimsAreEvents /\ RowsWereRecorded

LEMMA RecordedInit == Init => RecordedInv
BY DEF Init, RecordedInv, ClaimsAreEvents, RowsWereRecorded

LEMMA RecordedNext == TypeOK /\ RecordedInv /\ [Next]_vars => RecordedInv'
<1> SUFFICES ASSUME TypeOK, RecordedInv, [Next]_vars PROVE RecordedInv'
  OBVIOUS
<1>1. Writes /\ ClaimsAreEvents'
  BY NextWrites, ClaimEventsStay DEF RecordedInv
<1> QED
  BY <1>1, RecordedParts, InboxStaysRecorded, IntentRowsStayRecorded, ClaimRowsStayRecorded,
     RunRowsStayRecorded
  DEF RecordedInv

(* However many writes a table missed, it is only behind: each of its rows *)
(* is what an event of the ledger established, whatever payloads carry.    *)
THEOREM RowsAreRecorded == Spec => []RowsWereRecorded
<1>1. RecordedInv => RowsWereRecorded
  BY DEF RecordedInv
<1> QED
  BY <1>1, RecordedInit, RecordedNext, TypeCorrect, PTL DEF Spec

===========================================================================
