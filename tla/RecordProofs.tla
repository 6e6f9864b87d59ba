--------------------------- MODULE RecordProofs ---------------------------
(***************************************************************************)
(* Proofs about RecordSystem, for every set of intents, names, paths and   *)
(* contents, and any number of events and faults: types, the registry, the *)
(* sessions, and the tables that are derived from the ledger.              *)
(* ArchiveProofs goes on with the workspace, the archive and the audit.    *)
(***************************************************************************)
EXTENDS RecordSystem, SequenceTheorems, FiniteSetTheorems, WellFoundedInduction, TLAPS

---------------------------------------------------------------------------
(* Positions of the ledger.                                                *)

LEMMA FirstIsLeast ==
  ASSUME NEW S, S \subseteq Nat, S # {}
  PROVE  FirstOf(S) \in S /\ \A m \in S : FirstOf(S) <= m
<1>1. PICK n \in S : \A m \in S : ~(<<m, n>> \in OpToRel(<, Nat))
  BY WFMin, NatLessThanWellFounded
<1>2. \A m \in S : n <= m
  <2> TAKE m \in S
  <2>1. m \in Nat /\ n \in Nat
    OBVIOUS
  <2>2. ~(m < n)
    BY <1>1, <2>1 DEF OpToRel
  <2> QED
    BY <2>1, <2>2
<1> QED
  BY <1>2 DEF FirstOf

LEMMA LastIsGreatest ==
  ASSUME NEW n \in Nat, NEW S \in SUBSET (1 .. n), S # {}
  PROVE  LastOf(S) \in S /\ \A m \in S : m <= LastOf(S)
<1> DEFINE T == {n - k : k \in S}
<1>1. T \subseteq Nat /\ T # {}
  <2>1. \A k \in S : n - k \in Nat
    OBVIOUS
  <2>2. PICK k \in S : TRUE
    OBVIOUS
  <2> QED
    BY <2>1, <2>2
<1>2. PICK d \in T : \A c \in T : d <= c
  <2> HIDE DEF T
  <2> QED
    BY <1>1, FirstIsLeast
<1>3. PICK k \in S : d = n - k
  BY <1>2
<1>4. \A m \in S : m <= k
  <2> TAKE m \in S
  <2>1. d <= n - m
    BY <1>2
  <2> QED
    BY <1>3, <2>1
<1>5. k \in S /\ \A m \in S : m <= k
  BY <1>4
<1> QED
  <2> HIDE DEF T
  <2> QED
    BY <1>5 DEF LastOf

LEMMA Positions ==
  ASSUME NEW L \in Seq(Event)
  PROVE  /\ DOMAIN L = 1 .. Len(L) /\ Len(L) \in Nat
         /\ \A k \in DOMAIN L : k \in Nat /\ L[k] \in Event
         /\ IsFiniteSet(DOMAIN L)
<1>1. DOMAIN L = 1 .. Len(L) /\ Len(L) \in Nat
  BY LenProperties
<1>2. \A k \in DOMAIN L : k \in Nat /\ L[k] \in Event
  BY <1>1, ElementOfSeq
<1>3. IsFiniteSet(1 .. Len(L))
  BY <1>1, FS_Interval
<1> QED
  BY <1>1, <1>2, <1>3

(* A set of positions of the ledger: finite, countable, with a first and a *)
(* last member.                                                            *)
LEMMA SomePositions ==
  ASSUME NEW L \in Seq(Event), NEW S \in SUBSET DOMAIN L
  PROVE  /\ S \subseteq Nat
         /\ IsFiniteSet(S)
         /\ Cardinality(S) \in Nat
         /\ S # {} => FirstOf(S) \in Nat /\ LastOf(S) \in Nat /\ LastOf(S) \in S
<1>1. S \subseteq Nat /\ IsFiniteSet(S)
  BY Positions, FS_Subset
<1>2. Cardinality(S) \in Nat
  BY <1>1, FS_CardinalityType
<1>3. ASSUME S # {} PROVE FirstOf(S) \in Nat /\ LastOf(S) \in Nat /\ LastOf(S) \in S
  <2>1. FirstOf(S) \in S
    BY <1>1, <1>3, FirstIsLeast
  <2>2. LastOf(S) \in S
    <3>1. S \in SUBSET (1 .. Len(L)) /\ Len(L) \in Nat
      BY Positions
    <3> QED
      BY <3>1, <1>3, LastIsGreatest
  <2> QED
    BY <1>1, <2>1, <2>2
<1> QED
  BY <1>1, <1>2, <1>3

LEMMA OfTypeIsPositions ==
  ASSUME NEW L, NEW types
  PROVE  OfType(L, types) \subseteq DOMAIN L
BY DEF OfType

LEMMA Appended ==
  ASSUME NEW L \in Seq(Event), NEW e \in Event
  PROVE  /\ Append(L, e) \in Seq(Event)
         /\ Len(Append(L, e)) = Len(L) + 1
         /\ DOMAIN Append(L, e) = DOMAIN L \union {Len(L) + 1}
         /\ Len(L) + 1 \notin DOMAIN L
         /\ \A k \in DOMAIN L : Append(L, e)[k] = L[k]
         /\ Append(L, e)[Len(L) + 1] = e
<1>1. /\ Append(L, e) \in Seq(Event) /\ Len(Append(L, e)) = Len(L) + 1
      /\ \A k \in 1 .. Len(L) : Append(L, e)[k] = L[k]
      /\ Append(L, e)[Len(L) + 1] = e
  BY AppendProperties
<1>2. DOMAIN L = 1 .. Len(L) /\ Len(L) \in Nat
  BY Positions
<1>3. DOMAIN Append(L, e) = 1 .. Len(L) + 1
  BY <1>1, Positions
<1> QED
  BY <1>1, <1>2, <1>3

---------------------------------------------------------------------------
(* What a step can put on the ledger.                                      *)

(* The types, with what they need to be inductive: the table of members is *)
(* finite, and a member is an intent.                                      *)
Typed ==
  /\ TypeOK
  /\ IsFiniteSet(memberTable)
  /\ \A k \in OfType(ledger, {"session_intent_added"}) : ledger[k].intent \in Intents

Arrives(e) ==
  /\ IF e.type = "worker_registered"
     THEN e.name \in Names \ workers /\ workers' = workers \union {e.name} /\ boot' = boot
     ELSE UNCHANGED <<workers, boot>>
  /\ e.type \in {"session_created", "run_created"} => e.id = Here
  /\ e.type = "session_intent_added" =>
       /\ e.intent \in Intents
       /\ SessionExists(e.id) /\ KnownIntent(e.intent) /\ ~MembershipExists(e.id, e.intent)
  /\ e.type = "intent_claimed" =>
       Pending(e.intent) /\ (e.name # NoName => e.name \in workers)
  /\ e.type = "artifact_file_written" =>
       /\ e.intent \in Intents /\ e.path \in Paths /\ e.content \in Contents
       /\ files[e.intent][e.path] = NoContent
       /\ ~Blocked(files, e.intent, e.path)
       /\ files' = WithFile(files, e.intent, e.path, e.content)
  /\ e.type \notin {"intent_completed", "intent_failed"}
  /\ e.type \in {"session_created", "session_intent_added"} => SessionStep
  /\ e.type \in ProvenanceTypes \union EnvironmentTypes => CaptureStep
  /\ e.type = "artifact_file_written" => WorkspaceStep

OneMore == \E e \in Event : ledger' = Append(ledger, e) /\ Arrives(e)

LEMMA EventAboutTyped ==
  ASSUME NEW t \in EventTypes, NEW i \in Intents \union {NoIntent}
  PROVE  EventAbout(t, i) \in Event
BY DEF EventAbout, Event, NoId

LEMMA AppendedArrives ==
  ASSUME LedgerTypeOK, NEW e \in Event, Append1(e), Arrives(e)
  PROVE  OneMore
<1> DEFINE x == [e EXCEPT !.back = clock]
<1>1. x \in Event /\ ledger' = Append(ledger, x)
  BY DEF LedgerTypeOK, Append1, Event
<1>2. /\ x.type = e.type /\ x.intent = e.intent /\ x.id = e.id /\ x.name = e.name
      /\ x.path = e.path /\ x.content = e.content
  BY DEF Event
<1>3. Arrives(x)
  <2> HIDE DEF x
  <2> QED
    BY <1>2 DEF Arrives, ProvenanceTypes, EnvironmentTypes
<1> QED
  BY <1>1, <1>3 DEF OneMore

LEMMA RecordedArrives ==
  ASSUME LedgerTypeOK, NEW e \in Event, Record(e), Arrives(e)
  PROVE  UNCHANGED ledger \/ OneMore
BY AppendedArrives DEF Record, AppendFails

LEMMA RunArrives ==
  ASSUME Typed, RunStep, UNCHANGED <<workers, boot>>
  PROVE  UNCHANGED ledger \/ OneMore
<1>1. LedgerTypeOK
  BY DEF Typed, TypeOK
<1>2. Nested \subseteq SUBSET Intents
  BY DEF Nested
<1>3. Here \in Nat
  BY <1>1, Positions DEF LedgerTypeOK, Here
<1>4. ASSUME NEW i \in Intents, NEW t \in SubmissionTypes, NEW nested \in Nested,
             SubmitIntent(i, t, nested)
      PROVE  UNCHANGED ledger \/ OneMore
  <2> DEFINE e == [EventAbout(t, i) EXCEPT !.nested = nested]
  <2>1. e \in Event /\ e.type = t
    BY <1>2 DEF EventAbout, Event, NoId, SubmissionTypes, EventTypes, IntentTypes
  <2>2. Append1(e) \/ UNCHANGED ledger
    BY <1>4 DEF SubmitIntent, AppendFails
  <2>3. Arrives(e)
    <3> HIDE DEF e
    <3> QED
      BY <2>1 DEF Arrives, SubmissionTypes, ProvenanceTypes, EnvironmentTypes
  <2> HIDE DEF e
  <2> QED
    BY <1>1, <2>1, <2>2, <2>3, AppendedArrives
<1>5. ASSUME NEW i \in Intents, CreateRun(i)
      PROVE  UNCHANGED ledger \/ OneMore
  <2> DEFINE e == [EventAbout("run_created", NoIntent) EXCEPT !.op = i, !.id = Here]
  <2>1. e \in Event /\ e.type = "run_created" /\ e.id = Here
    BY <1>3 DEF EventAbout, Event, NoId, EventTypes, RunTypes
  <2>2. Append1(e) \/ UNCHANGED ledger
    BY <1>5 DEF CreateRun, AppendFails
  <2>3. Arrives(e)
    <3> HIDE DEF e
    <3> QED
      BY <2>1 DEF Arrives, ProvenanceTypes, EnvironmentTypes
  <2> HIDE DEF e
  <2> QED
    BY <1>1, <2>1, <2>2, <2>3, AppendedArrives
<1>6. ASSUME NEW r \in OfType(ledger, {"run_created"}), NEW nested \in Nested,
             NEW about \in {NoIntent} \union UNION Nested, AppendRunEvent(r, about, nested)
      PROVE  UNCHANGED ledger \/ OneMore
  <2>1. PICK t \in {"state_running", "artifact_written", "state_completed"} :
          Append1([EventAbout(t, about) EXCEPT !.id = r, !.nested = nested]) \/ UNCHANGED ledger
    <3> DEFINE rows == {k \in OfType(ledger, RunTypes) : ledger[k].id = r}
               last == ledger[LastOf(rows)].type
    <3>1. CASE last = "run_created"
      BY <1>6, <3>1 DEF AppendRunEvent, AppendFails
    <3>2. CASE last = "state_running"
      BY <1>6, <3>2 DEF AppendRunEvent, AppendFails
    <3>3. CASE last \notin {"run_created", "state_running"}
      BY <1>6, <3>3 DEF AppendRunEvent, AppendFails
    <3> QED
      BY <3>1, <3>2, <3>3
  <2> DEFINE e == [EventAbout(t, about) EXCEPT !.id = r, !.nested = nested]
  <2>2. r \in Nat
    BY <1>1, Positions, OfTypeIsPositions DEF LedgerTypeOK
  <2>3. about \in Intents \union {NoIntent} /\ nested \in SUBSET Intents
    BY <1>2
  <2>4. e \in Event /\ e.type = t
    BY <2>2, <2>3 DEF EventAbout, Event, NoId, EventTypes, RunTypes
  <2>5. Append1(e) \/ UNCHANGED ledger
    BY <2>1
  <2>6. Arrives(e)
    <3> HIDE DEF e
    <3> QED
      BY <2>4 DEF Arrives, ProvenanceTypes, EnvironmentTypes
  <2> HIDE DEF e
  <2> QED
    BY <1>1, <2>4, <2>5, <2>6, AppendedArrives
<1> QED
  BY <1>4, <1>5, <1>6 DEF RunStep

LEMMA ClaimArrives ==
  ASSUME Typed, Dispatch, UNCHANGED <<workers, boot>>
  PROVE  UNCHANGED ledger \/ OneMore
<1>1. LedgerTypeOK /\ workers \subseteq Names
  BY DEF Typed, TypeOK, RegistryTypeOK
<1>2. PICK i \in Intents, n \in workers \union {NoName} : ClaimIntent(i, n)
  BY DEF Dispatch, DispatchByName
<1> DEFINE e == [EventAbout("intent_claimed", i) EXCEPT !.name = n]
<1>3. /\ e \in Event
      /\ e.type = "intent_claimed" /\ e.intent = i /\ e.name = n
  BY <1>1 DEF EventAbout, Event, NoId, EventTypes, IntentTypes
<1>4. Append1(e) \/ UNCHANGED ledger
  BY <1>2 DEF ClaimIntent, AppendFails
<1>5. Pending(i)
  BY <1>2 DEF ClaimIntent
<1>6. Arrives(e)
  <2> HIDE DEF e
  <2> QED
    BY <1>3, <1>5 DEF Arrives, ProvenanceTypes, EnvironmentTypes
<1> HIDE DEF e
<1> QED
  BY <1>1, <1>3, <1>4, <1>6, AppendedArrives

LEMMA RegistryArrives ==
  ASSUME Typed, RegistryStep
  PROVE  \/ OneMore
         \/ UNCHANGED ledger /\ (UNCHANGED <<workers, boot>> \/ Restart)
<1>1. LedgerTypeOK
  BY DEF Typed, TypeOK
<1>2. ASSUME NEW n \in Names \union {NoName},
             Record(RegistrationEvent("worker_registration_rejected", n)), UNCHANGED registryVars
      PROVE  OneMore \/ UNCHANGED <<ledger, workers, boot>>
  <2> DEFINE e == RegistrationEvent("worker_registration_rejected", n)
  <2>1. e \in Event /\ e.type = "worker_registration_rejected"
    BY DEF RegistrationEvent, EventAbout, Event, NoId, EventTypes
  <2>2. UNCHANGED <<workers, boot>>
    BY <1>2 DEF registryVars
  <2>3. Record(e)
    BY <1>2
  <2>4. Arrives(e)
    <3> HIDE DEF e
    <3> QED
      BY <2>1, <2>2 DEF Arrives, ProvenanceTypes, EnvironmentTypes
  <2> HIDE DEF e
  <2> QED
    BY <1>1, <2>1, <2>2, <2>3, <2>4, RecordedArrives
<1>3. ASSUME NEW n \in Names, n \notin workers, workers' = workers \union {n}, UNCHANGED boot,
             Append1(RegistrationEvent("worker_registered", n))
      PROVE  OneMore
  <2> DEFINE e == RegistrationEvent("worker_registered", n)
  <2>1. e \in Event /\ e.type = "worker_registered" /\ e.name = n
    BY DEF RegistrationEvent, EventAbout, Event, NoId, EventTypes
  <2>2. Append1(e)
    BY <1>3
  <2>3. Arrives(e)
    <3> HIDE DEF e
    <3> QED
      BY <1>3, <2>1 DEF Arrives, ProvenanceTypes, EnvironmentTypes
  <2> HIDE DEF e
  <2> QED
    BY <1>1, <2>1, <2>2, <2>3, AppendedArrives
<1>4. CASE RegisterInvalid
  BY <1>2, <1>4 DEF RegisterInvalid
<1>5. ASSUME NEW n \in Names, RegisterWorker(n)
      PROVE  OneMore \/ UNCHANGED <<ledger, workers, boot>>
  <2>1. CASE n \in workers
    BY <1>2, <1>5, <2>1 DEF RegisterWorker
  <2>2. CASE n \notin workers
    BY <1>3, <1>5, <2>2 DEF RegisterWorker, AppendFails, registryVars
  <2> QED
    BY <2>1, <2>2
<1>6. CASE Restart
  BY <1>6 DEF Restart, ledgerVars
<1>7. CASE RebuildWorkerProjection
  BY <1>7 DEF RebuildWorkerProjection, Rebuild
<1> QED
  BY <1>4, <1>5, <1>6, <1>7 DEF RegistryStep

LEMMA SessionArrives ==
  ASSUME Typed, SessionStep, UNCHANGED <<workers, boot>>
  PROVE  UNCHANGED ledger \/ OneMore
<1>1. LedgerTypeOK
  BY DEF Typed, TypeOK
<1>2. Here \in Nat
  BY <1>1, Positions DEF LedgerTypeOK, Here
<1>3. CASE CreateSession
  <2> DEFINE e == SessionEvent("session_created", Here, NoIntent)
  <2>1. e \in Event /\ e.type = "session_created" /\ e.id = Here
    BY <1>2 DEF SessionEvent, EventAbout, Event, NoId, EventTypes
  <2>2. Append1(e) \/ UNCHANGED ledger
    BY <1>3 DEF CreateSession, AppendFails
  <2>3. Arrives(e)
    <3> HIDE DEF e
    <3> QED
      BY <2>1 DEF Arrives, ProvenanceTypes, EnvironmentTypes
  <2> HIDE DEF e
  <2> QED
    BY <1>1, <2>1, <2>2, <2>3, AppendedArrives
<1>4. ASSUME NEW s \in OfType(ledger, {"session_created"}) \union {NoId}, NEW i \in Intents,
             AddIntentToSession(s, i)
      PROVE  UNCHANGED ledger \/ OneMore
  <2>1. s \in Nat
    BY <1>1, Positions, OfTypeIsPositions DEF LedgerTypeOK, NoId
  <2>2. CASE Record(SessionEvent("session_intent_rejected", s, i))
    <3> DEFINE e == SessionEvent("session_intent_rejected", s, i)
    <3>1. e \in Event /\ e.type = "session_intent_rejected"
      BY <2>1 DEF SessionEvent, EventAbout, Event, NoId, EventTypes
    <3>2. Record(e)
      BY <2>2
    <3>3. Arrives(e)
      <4> HIDE DEF e
      <4> QED
        BY <3>1 DEF Arrives, ProvenanceTypes, EnvironmentTypes
    <3> HIDE DEF e
    <3> QED
      BY <1>1, <3>1, <3>2, <3>3, RecordedArrives
  <2>3. CASE /\ SessionExists(s) /\ KnownIntent(i) /\ ~MembershipExists(s, i)
             /\ Append1(SessionEvent("session_intent_added", s, i))
    <3> DEFINE e == SessionEvent("session_intent_added", s, i)
    <3>1. e \in Event /\ e.type = "session_intent_added" /\ e.id = s /\ e.intent = i
      BY <2>1 DEF SessionEvent, EventAbout, Event, NoId, EventTypes
    <3>2. Append1(e)
      BY <2>3
    <3>3. Arrives(e)
      <4> HIDE DEF e
      <4> QED
        BY <2>3, <3>1 DEF Arrives, ProvenanceTypes, EnvironmentTypes
    <3> HIDE DEF e
    <3> QED
      BY <1>1, <3>1, <3>2, <3>3, AppendedArrives
  <2> QED
    BY <1>4, <2>2, <2>3 DEF AddIntentToSession, AppendFails
<1>5. CASE RebuildSessionProjection
  BY <1>5 DEF RebuildSessionProjection, Rebuild
<1> QED
  BY <1>3, <1>4, <1>5 DEF SessionStep

LEMMA CaptureArrives ==
  ASSUME Typed, CaptureStep, UNCHANGED <<workers, boot>>
  PROVE  UNCHANGED ledger \/ OneMore
<1>1. LedgerTypeOK
  BY DEF Typed, TypeOK
<1>2. ASSUME NEW i \in Intents, NEW t \in ProvenanceTypes \union EnvironmentTypes,
             Append1(EventAbout(t, i))
      PROVE  OneMore
  <2> DEFINE e == EventAbout(t, i)
  <2>1. e \in Event /\ e.type = t
    BY DEF EventAbout, Event, NoId, EventTypes
  <2>2. Append1(e)
    BY <1>2
  <2>3. Arrives(e)
    <3> HIDE DEF e
    <3> QED
      BY <2>1 DEF Arrives, ProvenanceTypes, EnvironmentTypes
  <2> HIDE DEF e
  <2> QED
    BY <1>1, <2>1, <2>2, <2>3, AppendedArrives
<1>3. ASSUME NEW i \in Intents, NEW t \in ProvenanceTypes, CaptureProvenance(i, t)
      PROVE  UNCHANGED ledger \/ OneMore
  BY <1>2, <1>3 DEF CaptureProvenance, AppendFails
<1>4. ASSUME NEW i \in Intents, NEW t \in EnvironmentTypes, CaptureEnvironment(i, t)
      PROVE  UNCHANGED ledger \/ OneMore
  BY <1>2, <1>4 DEF CaptureEnvironment, AppendFails
<1>5. CASE RebuildProvenanceProjection \/ RebuildEnvironmentProjection
  BY <1>5 DEF RebuildProvenanceProjection, RebuildEnvironmentProjection, Rebuild
<1> QED
  BY <1>3, <1>4, <1>5 DEF CaptureStep

LEMMA WorkspaceArrives ==
  ASSUME Typed, WorkspaceStep, UNCHANGED <<workers, boot>>
  PROVE  UNCHANGED ledger \/ OneMore
<1>1. LedgerTypeOK
  BY DEF Typed, TypeOK
<1>2. ASSUME NEW i \in Intents, NEW raw \in Spellings, RejectWrite(i, raw)
      PROVE  UNCHANGED ledger \/ OneMore
  <2> DEFINE e == [EventAbout("artifact_write_rejected", i) EXCEPT !.path = raw]
  <2>1. e \in Event /\ e.type = "artifact_write_rejected"
    BY DEF EventAbout, Event, NoId, EventTypes
  <2>2. Record(e)
    BY <1>2 DEF RejectWrite
  <2>3. Arrives(e)
    <3> HIDE DEF e
    <3> QED
      BY <2>1 DEF Arrives, ProvenanceTypes, EnvironmentTypes
  <2> HIDE DEF e
  <2> QED
    BY <1>1, <2>1, <2>2, <2>3, RecordedArrives
<1>3. ASSUME NEW i \in Intents, NEW raw \in Spellings, NEW p \in Paths, NEW c \in Contents,
             WriteNormalized(i, raw, p, c)
      PROVE  UNCHANGED ledger \/ OneMore
  <2>1. CASE /\ files[i][p] = NoContent /\ ~Blocked(files, i, p)
             /\ files' = WithFile(files, i, p, c)
             /\ Append1(FileEvent(i, p, c))
    <3> DEFINE e == FileEvent(i, p, c)
    <3>1. /\ e \in Event
          /\ e.type = "artifact_file_written" /\ e.intent = i /\ e.path = p /\ e.content = c
      BY PathsAssumption DEF FileEvent, EventAbout, Event, NoId, EventTypes
    <3>2. Append1(e)
      BY <2>1
    <3>3. Arrives(e)
      <4> HIDE DEF e
      <4> QED
        BY <2>1, <3>1 DEF Arrives, ProvenanceTypes, EnvironmentTypes
    <3> HIDE DEF e
    <3> QED
      BY <1>1, <3>1, <3>2, <3>3, AppendedArrives
  <2> QED
    BY <1>2, <1>3, <2>1 DEF WriteNormalized, RecordFile, AppendFails
<1>4. ASSUME NEW i \in Intents, NEW raw \in Spellings, NEW c \in Contents, WriteArtifact(i, raw, c)
      PROVE  UNCHANGED ledger \/ OneMore
  BY <1>2, <1>3, <1>4 DEF WriteArtifact
<1>5. ASSUME NEW i \in Intents, NEW p \in Paths, DamageFile(i, p)
      PROVE  UNCHANGED ledger
  BY <1>5 DEF DamageFile, AppendFails
<1>6. CASE RebuildArtifactProjection
  BY <1>6 DEF RebuildArtifactProjection, Rebuild
<1> QED
  BY <1>4, <1>5, <1>6 DEF WorkspaceStep

(* No step but a restart does more to the ledger and the registry's memory *)
(* than one event does.                                                    *)
LEMMA LedgerStep ==
  ASSUME Typed, [Next]_vars
  PROVE  \/ OneMore
         \/ UNCHANGED ledger /\ (UNCHANGED <<workers, boot>> \/ Restart)
<1>1. CASE ReceiptStep /\ UNCHANGED registryVars
  BY <1>1 DEF ReceiptStep, GetReceiptBundle, RebuildReceiptProjection, registryVars, ledgerVars
<1>2. CASE ArchiveStep /\ UNCHANGED registryVars
  <2>1. UNCHANGED ledger
    BY <1>2 DEF ArchiveStep, ExportArchive, DamageArchive, RefuseImport, ImportLedgerEvents,
                FinishImport, ImportStops, RestoreFile, ExportFault, ledgerVars
  <2> QED
    BY <1>2, <2>1 DEF registryVars
<1>3. CASE (ClockStepsBack \/ RunStep \/ Dispatch) /\ UNCHANGED registryVars
  BY <1>3, RunArrives, ClaimArrives DEF ClockStepsBack, registryVars
<1>4. CASE SessionStep /\ UNCHANGED registryVars
  BY <1>4, SessionArrives DEF registryVars
<1>5. CASE CaptureStep /\ UNCHANGED registryVars
  BY <1>5, CaptureArrives DEF registryVars
<1>6. CASE WorkspaceStep /\ UNCHANGED registryVars
  BY <1>6, WorkspaceArrives DEF registryVars
<1>7. CASE UNCHANGED vars
  BY <1>7 DEF vars, ledgerVars, registryVars
<1> QED
  BY <1>1, <1>2, <1>3, <1>4, <1>5, <1>6, <1>7, RegistryArrives DEF Next

---------------------------------------------------------------------------
(* Types.                                                                  *)

LEMMA LedgerGrowsTyped ==
  ASSUME Typed, [Next]_vars
  PROVE  /\ ledger' \in Seq(Event)
         /\ \A k \in OfType(ledger', {"session_intent_added"}) : ledger'[k].intent \in Intents
<1>1. /\ ledger \in Seq(Event)
      /\ \A k \in OfType(ledger, {"session_intent_added"}) : ledger[k].intent \in Intents
  BY DEF Typed, TypeOK, LedgerTypeOK
<1>2. CASE UNCHANGED ledger
  BY <1>1, <1>2
<1>3. ASSUME NEW e \in Event, ledger' = Append(ledger, e), Arrives(e)
      PROVE  /\ ledger' \in Seq(Event)
             /\ \A k \in OfType(ledger', {"session_intent_added"}) : ledger'[k].intent \in Intents
  <2>1. /\ ledger' \in Seq(Event)
        /\ DOMAIN ledger' = DOMAIN ledger \union {Len(ledger) + 1}
        /\ \A k \in DOMAIN ledger : ledger'[k] = ledger[k]
        /\ ledger'[Len(ledger) + 1] = e
    BY <1>1, <1>3, Appended
  <2>2. e.type = "session_intent_added" => e.intent \in Intents
    BY <1>3 DEF Arrives
  <2> QED
    BY <1>1, <2>1, <2>2 DEF OfType
<1> QED
  BY <1>2, <1>3, LedgerStep DEF OneMore

Rest ==
  /\ stale' \subseteq Tables /\ clock' \in BOOLEAN /\ scope' \in Scopes
  /\ faults' \in Nat /\ faults <= faults'

LEMMA WritesTyped ==
  ASSUME LedgerTypeOK
  PROVE  /\ UNCHANGED ledgerVars => Rest
         /\ AppendFails => Rest
         /\ \A e : Append1(e) /\ UNCHANGED stale /\ NoFault => Rest
         /\ \A e, table : Append1(e) /\ table \in Tables /\ stale' = stale \union {table} /\ Fault => Rest
         /\ \A e : Record(e) => Rest
         /\ \A table : Rebuild(table) => Rest
<1>1. (NoFault \/ Fault) => faults' \in Nat /\ faults <= faults'
  BY DEF LedgerTypeOK, NoFault, Fault
<1>2. AppendFails => Rest
  BY <1>1 DEF LedgerTypeOK, AppendFails, Rest
<1>3. \A e : Append1(e) => clock' \in BOOLEAN /\ scope' \in Scopes
  BY DEF Append1, LedgerTypeOK
<1>4. \A e : Append1(e) /\ UNCHANGED stale /\ NoFault => Rest
  BY <1>1, <1>3 DEF LedgerTypeOK, Rest
<1>5. \A e, table : Append1(e) /\ table \in Tables /\ stale' = stale \union {table} /\ Fault => Rest
  BY <1>1, <1>3 DEF LedgerTypeOK, Rest
<1>6. UNCHANGED ledgerVars => Rest
  BY DEF LedgerTypeOK, ledgerVars, Rest
<1>7. \A table : Rebuild(table) => Rest
  BY DEF Rebuild, LedgerTypeOK, Rest
<1> QED
  BY <1>2, <1>4, <1>5, <1>6, <1>7 DEF Record

LEMMA RestOfLedgerTyped ==
  ASSUME LedgerTypeOK, [Next]_vars
  PROVE  Rest
<1> USE WritesTyped
<1>1. ClockStepsBack => Rest
  BY DEF ClockStepsBack, Fault, LedgerTypeOK, Rest
<1>2. ASSUME NEW i, NEW t, NEW nested, SubmitIntent(i, t, nested) PROVE Rest
  BY <1>2 DEF SubmitIntent
<1>3. ASSUME NEW i, CreateRun(i) PROVE Rest
  BY <1>3 DEF CreateRun
<1>4. ASSUME NEW r, NEW about, NEW nested, AppendRunEvent(r, about, nested) PROVE Rest
  <2>1. \/ \E e : Append1(e) /\ UNCHANGED stale /\ NoFault
        \/ AppendFails
    BY <1>4 DEF AppendRunEvent
  <2> QED
    BY <2>1
<1>5. ASSUME NEW i, NEW n, ClaimIntent(i, n) PROVE Rest
  BY <1>5 DEF ClaimIntent
<1>6. RegistryStep => Rest
  <2>1. ASSUME NEW n, RegisterWorker(n) PROVE Rest
    BY <2>1 DEF RegisterWorker, TableWrite, Tables
  <2> QED
    BY <2>1 DEF RegistryStep, RegisterInvalid, Restart, RebuildWorkerProjection
<1>7. SessionStep => Rest
  <2>1. CreateSession => Rest
    BY DEF CreateSession, TableWrite, Tables
  <2>2. ASSUME NEW s, NEW i, AddIntentToSession(s, i) PROVE Rest
    BY <2>2 DEF AddIntentToSession, TableWrite, Tables
  <2> QED
    BY <2>1, <2>2 DEF SessionStep, RebuildSessionProjection
<1>8. CaptureStep => Rest
  <2>1. ASSUME NEW i, NEW t, CaptureProvenance(i, t) PROVE Rest
    BY <2>1 DEF CaptureProvenance, TableWrite, Tables
  <2>2. ASSUME NEW i, NEW t, CaptureEnvironment(i, t) PROVE Rest
    BY <2>2 DEF CaptureEnvironment, TableWrite, Tables
  <2> QED
    BY <2>1, <2>2 DEF CaptureStep, RebuildProvenanceProjection, RebuildEnvironmentProjection
<1>9. ReceiptStep => Rest
  BY DEF ReceiptStep, GetReceiptBundle, RebuildReceiptProjection, Fault, NoFault, LedgerTypeOK, Rest
<1>10. WorkspaceStep => Rest
  <2>1. ASSUME NEW i, NEW raw, NEW p, NEW c, WriteNormalized(i, raw, p, c) PROVE Rest
    BY <2>1 DEF WriteNormalized, RejectWrite, RecordFile, TableWrite, Tables
  <2>2. ASSUME NEW i, NEW raw, NEW c, WriteArtifact(i, raw, c) PROVE Rest
    BY <2>1, <2>2 DEF WriteArtifact, RejectWrite
  <2>3. ASSUME NEW i, NEW p, DamageFile(i, p) PROVE Rest
    BY <2>3 DEF DamageFile
  <2> QED
    BY <2>2, <2>3 DEF WorkspaceStep, RebuildArtifactProjection
<1>11. ArchiveStep => Rest
  <2>1. ExportFault => Rest
    BY DEF ExportFault, Fault, LedgerTypeOK, Rest
  <2>2. ArchiveStep => UNCHANGED ledgerVars \/ ExportFault
    BY DEF ArchiveStep, ExportArchive, DamageArchive, RefuseImport, ImportLedgerEvents,
           FinishImport, ImportStops, RestoreFile
  <2> QED
    BY <2>1, <2>2
<1>12. UNCHANGED vars => Rest
  BY DEF vars
<1>13. RunStep \/ Dispatch => Rest
  BY <1>2, <1>3, <1>4, <1>5 DEF RunStep, Dispatch, DispatchByName
<1> QED
  BY <1>1, <1>6, <1>7, <1>8, <1>9, <1>10, <1>11, <1>12, <1>13 DEF Next

LEMMA RegistryTyped ==
  ASSUME Typed, RegistryStep
  PROVE  RegistryTypeOK'
<1>1. ledger \in Seq(Event) /\ RegistryTypeOK
  BY DEF Typed, TypeOK, LedgerTypeOK
<1>2. Len(ledger) \in Nat /\ Here \in Nat
  BY <1>1, Positions DEF Here
<1>3. RegisterInvalid => UNCHANGED registryVars
  BY DEF RegisterInvalid
<1>4. ASSUME NEW n \in Names, RegisterWorker(n)
      PROVE  RegistryTypeOK'
  BY <1>1, <1>2, <1>4 DEF RegisterWorker, InsertWorkerRow, TableWrite, RegistryTypeOK, registryVars, NoId
<1>5. Restart => RegistryTypeOK'
  BY <1>1, <1>2 DEF Restart, RegistryTypeOK, registryVars
<1>6. RebuiltWorkerTable(ledger) \in [Names -> Nat]
  <2>1. ASSUME NEW n \in Names, Registrations(ledger, n) # {}
        PROVE  FirstOf(Registrations(ledger, n)) \in Nat
    <3>1. Registrations(ledger, n) \in SUBSET DOMAIN ledger
      BY DEF Registrations, OfType
    <3> QED
      BY <1>1, <2>1, <3>1, SomePositions
  <2> QED
    BY <2>1 DEF RebuiltWorkerTable, NoId
<1>7. RebuildWorkerProjection => RegistryTypeOK'
  BY <1>1, <1>6 DEF RebuildWorkerProjection, RegistryTypeOK
<1> QED
  BY <1>1, <1>3, <1>4, <1>5, <1>7 DEF RegistryStep, RegistryTypeOK, registryVars

LEMMA SessionTyped ==
  ASSUME Typed, SessionStep
  PROVE  SessionTypeOK' /\ IsFiniteSet(memberTable')
<1>1. ledger \in Seq(Event) /\ SessionTypeOK /\ IsFiniteSet(memberTable)
  BY DEF Typed, TypeOK, LedgerTypeOK
<1>2. Here \in Nat
  BY <1>1, Positions DEF Here
<1>3. CASE UNCHANGED sessionVars
  BY <1>1, <1>3 DEF sessionVars, SessionTypeOK
<1>4. CASE CreateSession
  BY <1>1, <1>2, <1>4 DEF CreateSession, TableWrite, SessionTypeOK
<1>5. ASSUME NEW s \in Nat, NEW i \in Intents, InsertMember(s, i)
      PROVE  SessionTypeOK' /\ IsFiniteSet(memberTable')
  <2>1. NextOrder(s) \in Nat
    <3>1. IsFiniteSet(MembersOf(s))
      BY <1>1, FS_Subset DEF MembersOf
    <3> QED
      BY <3>1, FS_CardinalityType DEF NextOrder
  <2>2. IsFiniteSet(memberTable')
    BY <1>1, <1>5, FS_AddElement DEF InsertMember
  <2>3. \A row \in memberTable' : row \in [session : Nat, intent : Intents, order : Nat, event : Nat]
    <3>1. [session |-> s, intent |-> i, order |-> NextOrder(s), event |-> Here]
            \in [session : Nat, intent : Intents, order : Nat, event : Nat]
      BY <1>2, <2>1
    <3>2. memberTable' = memberTable \union
            {[session |-> s, intent |-> i, order |-> NextOrder(s), event |-> Here]}
      BY <1>5 DEF InsertMember
    <3> QED
      BY <1>1, <3>1, <3>2 DEF SessionTypeOK
  <2>4. \A row \in sessionTable' : row \in [session : Nat, count : Nat, event : Nat]
    BY <1>1, <1>2, <1>5, <2>1 DEF InsertMember, SessionTypeOK
  <2> QED
    BY <2>2, <2>3, <2>4 DEF SessionTypeOK
<1>6. ASSUME NEW s \in OfType(ledger, {"session_created"}) \union {NoId}, NEW i \in Intents,
             AddIntentToSession(s, i)
      PROVE  UNCHANGED sessionVars \/ InsertMember(s, i)
  BY <1>6 DEF AddIntentToSession, TableWrite
<1>7. \A s \in OfType(ledger, {"session_created"}) \union {NoId} : s \in Nat
  BY <1>1, Positions, OfTypeIsPositions DEF NoId
<1>8. CASE RebuildSessionProjection
  <2> DEFINE all == UNION {Members(ledger, s) : s \in OfType(ledger, {"session_created"})}
             row(k) == [session |-> ledger[k].id, intent |-> ledger[k].intent, event |-> k,
                        order |-> Cardinality({m \in Members(ledger, ledger[k].id) : m <= k})]
  <2>1. \A s : Members(ledger, s) \in SUBSET DOMAIN ledger
    BY DEF Members, OfType
  <2>2. all \in SUBSET DOMAIN ledger /\ all \subseteq OfType(ledger, {"session_intent_added"})
    BY DEF Members, OfType
  <2>3. memberTable' = {row(k) : k \in all}
    BY <1>8 DEF RebuildSessionProjection, RebuiltMemberTable
  <2>4. IsFiniteSet({row(k) : k \in all})
    <3>1. IsFiniteSet(all)
      <4> HIDE DEF all
      <4> QED
        BY <1>1, <2>2, SomePositions
    <3> DEFINE rows == {row(k) : k \in all}
               f == [k \in all |-> row(k)]
    <3>2. f \in Surjection(all, rows)
      <4> HIDE DEF all, row
      <4> QED
        BY DEF Surjection
    <3> HIDE DEF all, rows, f
    <3>3. IsFiniteSet(rows)
      BY <3>1, <3>2, FS_Surjection
    <3> QED
      BY <3>3 DEF rows
  <2>5. ASSUME NEW k \in all
        PROVE  row(k) \in [session : Nat, intent : Intents, order : Nat, event : Nat]
    <3>1. k \in Nat /\ ledger[k] \in Event /\ ledger[k].intent \in Intents
      <4> HIDE DEF all
      <4> QED
        BY <1>1, <2>2, Positions DEF Typed
    <3>2. {m \in Members(ledger, ledger[k].id) : m <= k} \in SUBSET DOMAIN ledger
      BY <2>1
    <3>3. Cardinality({m \in Members(ledger, ledger[k].id) : m <= k}) \in Nat
      BY <1>1, <3>2, SomePositions
    <3> HIDE DEF all
    <3> QED
      BY <3>1, <3>3 DEF Event
  <2>6. ASSUME NEW s \in OfType(ledger, {"session_created"})
        PROVE  /\ s \in Nat
               /\ Cardinality(Members(ledger, s)) \in Nat
               /\ LastOf(Members(ledger, s) \union {s}) \in Nat
    <3>1. Members(ledger, s) \union {s} \in SUBSET DOMAIN ledger
      BY <2>1 DEF OfType
    <3>2. LastOf(Members(ledger, s) \union {s}) \in Nat
      BY <1>1, <3>1, SomePositions
    <3> QED
      BY <1>1, <2>1, <3>1, <3>2, SomePositions
  <2>7. \A r \in sessionTable' : r \in [session : Nat, count : Nat, event : Nat]
    <3>1. \A s \in OfType(ledger, {"session_created"}) :
            [session |-> s, count |-> Cardinality(Members(ledger, s)),
             event |-> LastOf(Members(ledger, s) \union {s})]
              \in [session : Nat, count : Nat, event : Nat]
      BY <2>6
    <3>2. sessionTable' = RebuiltSessionTable(ledger)
      BY <1>8 DEF RebuildSessionProjection
    <3> QED
      BY <3>1, <3>2 DEF RebuiltSessionTable
  <2>8. \A r \in memberTable' : r \in [session : Nat, intent : Intents, order : Nat, event : Nat]
    BY <2>3, <2>5
  <2> QED
    BY <2>3, <2>4, <2>7, <2>8 DEF SessionTypeOK
<1>9. CASE \E s \in OfType(ledger, {"session_created"}) \union {NoId}, i \in Intents :
             AddIntentToSession(s, i)
  BY <1>3, <1>5, <1>6, <1>7, <1>9
<1> QED
  BY <1>1, <1>4, <1>8, <1>9 DEF SessionStep, CreateSession

LEMMA CaptureTyped ==
  ASSUME Typed, CaptureStep
  PROVE  CaptureTypeOK'
<1>1. ledger \in Seq(Event) /\ CaptureTypeOK
  BY DEF Typed, TypeOK, LedgerTypeOK
<1>2. Here \in Nat /\ \A k \in DOMAIN ledger : k \in Nat
  BY <1>1, Positions DEF Here
<1>3. ASSUME NEW i, NEW t, CaptureProvenance(i, t) PROVE CaptureTypeOK'
  BY <1>1, <1>2, <1>3 DEF CaptureProvenance, TableWrite, CaptureTypeOK
<1>4. ASSUME NEW i, NEW t, CaptureEnvironment(i, t) PROVE CaptureTypeOK'
  BY <1>1, <1>2, <1>4 DEF CaptureEnvironment, TableWrite, CaptureTypeOK
<1>5. CASE RebuildProvenanceProjection \/ RebuildEnvironmentProjection
  BY <1>1, <1>2, <1>5 DEF RebuildProvenanceProjection, RebuildEnvironmentProjection,
       RebuiltProvenanceTable, RebuiltEnvironmentTable, OfType, CaptureTypeOK
<1> QED
  BY <1>3, <1>4, <1>5 DEF CaptureStep

LEMMA OutlineTyped ==
  ASSUME NEW L \in Seq(Event), NEW i
  PROVE  Outline(ReceiptRows(L, i)) \in [first : Nat, last : Nat, count : Nat]
<1> DEFINE rows == ReceiptRows(L, i)
<1>1. rows \in SUBSET DOMAIN L
  BY DEF ReceiptRows, OfType
<1>2. rows # {} => FirstOf(rows) \in Nat /\ LastOf(rows) \in Nat /\ Cardinality(rows) \in Nat
  BY <1>1, SomePositions
<1> QED
  BY <1>2 DEF Outline, NoReceipt, NoId

LEMMA ReceiptTyped ==
  ASSUME Typed, ReceiptStep
  PROVE  ReceiptTypeOK'
<1>1. ledger \in Seq(Event) /\ ReceiptTypeOK
  BY DEF Typed, TypeOK, LedgerTypeOK
<1>2. ASSUME NEW i \in Intents, GetReceiptBundle(i) PROVE ReceiptTypeOK'
  <2>1. \/ receiptTable' = [receiptTable EXCEPT ![i] = Outline(ReceiptRows(ledger, i))]
        \/ UNCHANGED receiptTable
    BY <1>2 DEF GetReceiptBundle
  <2> QED
    BY <1>1, <2>1, OutlineTyped DEF ReceiptTypeOK
<1>3. CASE RebuildReceiptProjection
  <2>1. NoReceipt \in [first : Nat, last : Nat, count : Nat]
    BY DEF NoReceipt, NoId
  <2> QED
    BY <1>1, <1>3, <2>1, OutlineTyped DEF RebuildReceiptProjection, RebuiltReceiptTable, ReceiptTypeOK
<1> QED
  BY <1>2, <1>3 DEF ReceiptStep

LEMMA WithFileTyped ==
  ASSUME NEW tree \in FileTree, NEW i, NEW p, NEW state,
         i \in Intents /\ p \in Paths => state \in FileStates
  PROVE  WithFile(tree, i, p, state) \in FileTree
BY DEF WithFile, FileTree, FileStates

LEMMA WorkspaceTyped ==
  ASSUME Typed, WorkspaceStep
  PROVE  WorkspaceTypeOK'
<1>1. ledger \in Seq(Event) /\ WorkspaceTypeOK
  BY DEF Typed, TypeOK, LedgerTypeOK
<1>2. Here \in Nat /\ \A k \in DOMAIN ledger : k \in Nat
  BY <1>1, Positions DEF Here
<1>3. Contents \union {NoContent, "partial", "damaged", "directory"} \subseteq FileStates
  BY DEF FileStates
<1>4. ASSUME NEW i, NEW raw, RejectWrite(i, raw) PROVE WorkspaceTypeOK'
  BY <1>1, <1>4 DEF RejectWrite, workspaceVars, WorkspaceTypeOK
<1>5. ASSUME NEW i, NEW raw, NEW p, NEW c \in Contents, WriteNormalized(i, raw, p, c)
      PROVE  WorkspaceTypeOK'
  <2>1. CASE RejectWrite(i, raw)
    BY <1>4, <2>1
  <2>2. CASE files' = WithFile(files, i, p, c) /\ RecordFile(i, p, c)
    <3>1. files' \in FileTree
      BY <1>1, <1>3, <2>2, WithFileTyped DEF WorkspaceTypeOK
    <3> QED
      BY <1>1, <1>2, <2>2, <3>1 DEF RecordFile, TableWrite, WorkspaceTypeOK
  <2>3. ASSUME NEW broken \in {NoContent, "partial"}, files' = WithFile(files, i, p, broken),
               UNCHANGED artifactTable
        PROVE  WorkspaceTypeOK'
    BY <1>1, <1>3, <2>3, WithFileTyped DEF WorkspaceTypeOK
  <2> QED
    BY <1>5, <2>1, <2>2, <2>3 DEF WriteNormalized
<1>6. ASSUME NEW i, NEW raw, NEW c \in Contents, WriteArtifact(i, raw, c) PROVE WorkspaceTypeOK'
  BY <1>4, <1>5, <1>6 DEF WriteArtifact
<1>7. ASSUME NEW i, NEW p, DamageFile(i, p) PROVE WorkspaceTypeOK'
  BY <1>1, <1>3, <1>7 DEF DamageFile, WorkspaceTypeOK, FileTree
<1>8. CASE RebuildArtifactProjection
  BY <1>1, <1>2, <1>8 DEF RebuildArtifactProjection, RebuiltArtifactTable, OfType, WorkspaceTypeOK
<1> QED
  BY <1>6, <1>7, <1>8 DEF WorkspaceStep

LEMMA ArchiveTyped ==
  ASSUME Typed, ArchiveStep
  PROVE  ArchiveTypeOK'
<1>1. ledger \in Seq(Event) /\ ArchiveTypeOK /\ files \in FileTree
  BY DEF Typed, TypeOK, LedgerTypeOK, WorkspaceTypeOK
<1>2. Contents \union {NoContent, "partial", "damaged", "directory"} \subseteq FileStates
  BY DEF FileStates
<1>3. EmptyTree \in FileTree /\ CopiedFiles \in FileTree
  BY <1>1, <1>2 DEF EmptyTree, CopiedFiles, FileTree
<1>4. \A result \in {"refused", "failed", "AUDIT_FAILED", "done"} :
        Ended(result) \in [step : {"idle", "restore"}, todo : SUBSET Nat,
                           result : {"none", "refused", "failed", "AUDIT_FAILED", "done"}]
  BY DEF Ended, NotImporting
<1>5. <<>> \in Seq(Event)
  OBVIOUS
<1>6. ExportArchive => ArchiveTypeOK'
  <2> DEFINE A == [stage : {"none", "remains", "manifest"}, events : Seq(Event),
                   files : FileTree, intact : BOOLEAN]
  <2>1. FullArchive \in A
    BY <1>1, <1>3 DEF FullArchive
  <2>2. Remains \in A
    BY <1>3, <1>5 DEF Remains, NoArchive
  <2>3. ExportArchive => archive' \in A
    BY <2>1, <2>2 DEF ExportArchive
  <2> QED
    BY <1>1, <2>3 DEF ExportArchive, ArchiveTypeOK
<1>7. DamageArchive => ArchiveTypeOK'
  BY <1>1 DEF DamageArchive, ArchiveTypeOK
<1>8. RefuseImport \/ FinishImport => ArchiveTypeOK'
  BY <1>1, <1>4 DEF RefuseImport, FinishImport, ArchiveTypeOK
<1>9. ImportLedgerEvents => ArchiveTypeOK'
  <2>1. RebuiltArtifactTable(archive.events) \in SUBSET Nat
    BY <1>1, Positions DEF ArchiveTypeOK, RebuiltArtifactTable, OfType
  <2> QED
    BY <1>1, <1>4, <2>1 DEF ImportLedgerEvents, NotImporting, ArchiveTypeOK
<1>10. ImportStops => ArchiveTypeOK'
  <2>1. ImportStops => targetFiles' \in FileTree
    BY <1>1, <1>2, WithFileTyped DEF ImportStops, ArchiveTypeOK
  <2> QED
    BY <1>1, <1>4, <2>1 DEF ImportStops, ArchiveTypeOK
<1>11. ASSUME NEW k \in import.todo, RestoreFile(k) PROVE ArchiveTypeOK'
  <2>1. [import EXCEPT !.todo = @ \ {k}]
          \in [step : {"idle", "restore"}, todo : SUBSET Nat,
               result : {"none", "refused", "failed", "AUDIT_FAILED", "done"}]
    BY <1>1 DEF ArchiveTypeOK
  <2>2. import' = [import EXCEPT !.todo = @ \ {k}] \/ import' = Ended("failed")
    BY <1>11 DEF RestoreFile
  <2>3. \/ UNCHANGED targetFiles
        \/ /\ archive.files[target[k].intent][target[k].path] = target[k].content
           /\ targetFiles[target[k].intent][target[k].path] = NoContent
           /\ targetFiles' = WithFile(targetFiles, target[k].intent, target[k].path, target[k].content)
    BY <1>11 DEF RestoreFile
  <2>4. archive.files \in FileTree
    BY <1>1 DEF ArchiveTypeOK
  <2>5. targetFiles' \in FileTree
    <3>1. /\ target[k].intent \in Intents /\ target[k].path \in Paths
          /\ archive.files[target[k].intent][target[k].path] = target[k].content
          => target[k].content \in FileStates
      BY <2>4 DEF FileTree
    <3> QED
      BY <1>1, <2>3, <3>1, WithFileTyped DEF ArchiveTypeOK
  <2> QED
    BY <1>1, <1>4, <1>11, <2>1, <2>2, <2>5 DEF RestoreFile, ArchiveTypeOK
<1> QED
  BY <1>6, <1>7, <1>8, <1>9, <1>10, <1>11 DEF ArchiveStep

LEMMA TypedInit == Init => Typed
<1> SUFFICES ASSUME Init PROVE Typed
  OBVIOUS
<1>1. /\ ledger = <<>> /\ ledger \in Seq(Event)
      /\ \A k \in OfType(ledger, {"session_intent_added"}) : FALSE
  BY DEF Init, LedgerInit, OfType
<1>2. LedgerTypeOK
  BY <1>1 DEF Init, LedgerInit, LedgerTypeOK
<1>3. RegistryTypeOK
  BY DEF Init, RegistryInit, RegistryTypeOK, NoId
<1>4. SessionTypeOK /\ IsFiniteSet(memberTable)
  BY FS_EmptySet DEF Init, SessionInit, SessionTypeOK
<1>5. CaptureTypeOK
  BY DEF Init, CaptureInit, CaptureTypeOK
<1>6. ReceiptTypeOK
  BY DEF Init, ReceiptInit, ReceiptTypeOK, NoReceipt, NoId
<1>7. EmptyTree \in FileTree
  BY DEF EmptyTree, FileTree, FileStates
<1>8. WorkspaceTypeOK
  BY <1>7 DEF Init, WorkspaceInit, WorkspaceTypeOK
<1>9. ArchiveTypeOK
  <2>1. targetFiles \in FileTree
    <3>1. \A i \in Intents, p \in Paths, c \in Contents : WithFile(EmptyTree, i, p, c) \in FileTree
      BY <1>7, WithFileTyped DEF FileStates
    <3> QED
      BY <1>7, <3>1 DEF Init, ArchiveInit, TargetTrees
  <2>2. <<>> \in Seq(Event)
    OBVIOUS
  <2> QED
    BY <1>7, <2>1, <2>2 DEF Init, ArchiveInit, NoArchive, NotImporting, ArchiveTypeOK
<1> QED
  BY <1>1, <1>2, <1>3, <1>4, <1>5, <1>6, <1>8, <1>9 DEF Typed, TypeOK

LEMMA TypedNext == Typed /\ [Next]_vars => Typed'
<1> SUFFICES ASSUME Typed, [Next]_vars PROVE Typed'
  OBVIOUS
<1>1. LedgerTypeOK' /\ \A k \in OfType(ledger', {"session_intent_added"}) : ledger'[k].intent \in Intents
  BY LedgerGrowsTyped, RestOfLedgerTyped DEF Typed, TypeOK, LedgerTypeOK, Rest
<1>2. /\ RegistryTypeOK /\ SessionTypeOK /\ IsFiniteSet(memberTable) /\ CaptureTypeOK
      /\ ReceiptTypeOK /\ WorkspaceTypeOK /\ ArchiveTypeOK
  BY DEF Typed, TypeOK
<1>3. RegistryTypeOK'
  <2>1. UNCHANGED registryVars => RegistryTypeOK'
    BY <1>2 DEF registryVars, RegistryTypeOK
  <2> QED
    BY <2>1, RegistryTyped DEF Next, vars
<1>4. SessionTypeOK' /\ IsFiniteSet(memberTable')
  <2>1. UNCHANGED sessionVars => SessionTypeOK' /\ IsFiniteSet(memberTable')
    BY <1>2 DEF sessionVars, SessionTypeOK
  <2> QED
    BY <2>1, SessionTyped DEF Next, vars
<1>5. CaptureTypeOK'
  <2>1. UNCHANGED captureVars => CaptureTypeOK'
    BY <1>2 DEF captureVars, CaptureTypeOK
  <2> QED
    BY <2>1, CaptureTyped DEF Next, vars
<1>6. ReceiptTypeOK'
  <2>1. UNCHANGED receiptVars => ReceiptTypeOK'
    BY <1>2 DEF receiptVars, ReceiptTypeOK
  <2> QED
    BY <2>1, ReceiptTyped DEF Next, vars
<1>7. WorkspaceTypeOK'
  <2>1. UNCHANGED workspaceVars => WorkspaceTypeOK'
    BY <1>2 DEF workspaceVars, WorkspaceTypeOK
  <2> QED
    BY <2>1, WorkspaceTyped DEF Next, vars
<1>8. ArchiveTypeOK'
  <2>1. UNCHANGED archiveVars => ArchiveTypeOK'
    BY <1>2 DEF archiveVars, ArchiveTypeOK
  <2> QED
    BY <2>1, ArchiveTyped DEF Next, vars
<1> QED
  BY <1>1, <1>3, <1>4, <1>5, <1>6, <1>7, <1>8 DEF Typed, TypeOK

LEMMA AlwaysTyped == Spec => []Typed
<1> QED
  BY TypedInit, TypedNext, PTL DEF Spec

(* Ledger, tables, files and archive keep to their types: in particular    *)
(* nothing but an intent is ever made a member of a session.               *)
THEOREM TypeCorrect == Spec => []TypeOK
<1>1. Typed => TypeOK
  BY DEF Typed
<1> QED
  BY <1>1, AlwaysTyped, PTL

---------------------------------------------------------------------------
(* The registry.                                                           *)

Memory == MemoryIsOnRecord /\ boot \in Nat /\ boot <= Len(ledger)

LEMMA MemoryInit == Init => Memory
<1> SUFFICES ASSUME Init PROVE Memory
  OBVIOUS
<1>1. ledger = <<>> /\ boot = 0 /\ workers = {}
  BY DEF Init, LedgerInit, RegistryInit
<1>2. OfType(ledger, {"worker_registered"}) = {}
  BY <1>1 DEF OfType
<1> QED
  BY <1>1, <1>2 DEF Memory, MemoryIsOnRecord

LEMMA MemoryNext ==
  ASSUME Typed, Memory, [Next]_vars
  PROVE  Memory'
<1> DEFINE reg(L) == OfType(L, {"worker_registered"})
<1>1. ledger \in Seq(Event) /\ boot \in Nat /\ boot <= Len(ledger) /\ Len(ledger) \in Nat
  BY Positions DEF Typed, TypeOK, LedgerTypeOK, Memory
<1>2. /\ workers = {ledger[k].name : k \in {m \in reg(ledger) : m > boot}}
      /\ \A j, k \in {m \in reg(ledger) : m > boot} : ledger[j].name = ledger[k].name => j = k
  BY DEF Memory, MemoryIsOnRecord
<1>3. CASE UNCHANGED <<ledger, workers, boot>>
  BY <1>1, <1>2, <1>3 DEF Memory, MemoryIsOnRecord
<1>4. CASE UNCHANGED ledger /\ Restart
  <2>1. boot' = Len(ledger) /\ workers' = {}
    BY <1>4 DEF Restart
  <2>2. {m \in reg(ledger) : m > Len(ledger)} = {}
    BY <1>1, Positions DEF OfType
  <2>3. MemoryIsOnRecord'
    BY <1>4, <2>1, <2>2 DEF MemoryIsOnRecord
  <2> QED
    BY <1>1, <1>4, <2>1, <2>3 DEF Memory
<1>5. ASSUME NEW e \in Event, ledger' = Append(ledger, e), Arrives(e)
      PROVE  Memory'
  <2> DEFINE n == Len(ledger) + 1
  <2>1. /\ ledger' \in Seq(Event) /\ Len(ledger') = n
        /\ DOMAIN ledger' = DOMAIN ledger \union {n} /\ n \notin DOMAIN ledger
        /\ \A k \in DOMAIN ledger : ledger'[k] = ledger[k]
        /\ ledger'[n] = e
    BY <1>1, <1>5, Appended
  <2>2. boot' = boot
    BY <1>5 DEF Arrives
  <2>3. CASE e.type = "worker_registered"
    <3>1. e.name \notin workers /\ workers' = workers \union {e.name}
      BY <1>5, <2>3 DEF Arrives
    <3>2. {m \in reg(ledger') : m > boot'} = {m \in reg(ledger) : m > boot} \union {n}
      BY <1>1, <2>1, <2>2, <2>3 DEF OfType
    <3>3. \A m \in reg(ledger) : m \in DOMAIN ledger
      BY DEF OfType
    <3>4. MemoryIsOnRecord'
      BY <1>2, <2>1, <3>1, <3>2, <3>3 DEF MemoryIsOnRecord
    <3> QED
      BY <1>1, <2>1, <2>2, <3>4 DEF Memory
  <2>4. CASE e.type # "worker_registered"
    <3>1. workers' = workers
      BY <1>5, <2>4 DEF Arrives
    <3>2. {m \in reg(ledger') : m > boot'} = {m \in reg(ledger) : m > boot}
      BY <2>1, <2>2, <2>4 DEF OfType
    <3>3. \A m \in reg(ledger) : m \in DOMAIN ledger
      BY DEF OfType
    <3>4. MemoryIsOnRecord'
      BY <1>2, <2>1, <3>1, <3>2, <3>3 DEF MemoryIsOnRecord
    <3> QED
      BY <1>1, <2>1, <2>2, <3>4 DEF Memory
  <2> QED
    BY <2>3, <2>4
<1> QED
  BY <1>3, <1>4, <1>5, LedgerStep DEF OneMore

LEMMA AlwaysMemory == Spec => []Memory
<1>1. Typed /\ Memory /\ [Next]_vars => Memory'
  BY MemoryNext
<1> QED
  BY <1>1, MemoryInit, AlwaysTyped, PTL DEF Spec

(* After any failures, refusals and restarts a process's memory holds the  *)
(* names recorded since it started, each recorded once.                    *)
THEOREM RegistryMemory == Spec => []MemoryIsOnRecord
<1>1. Memory => MemoryIsOnRecord
  BY DEF Memory
<1> QED
  BY <1>1, AlwaysMemory, PTL

LEMMA NamedStep ==
  ASSUME Typed, Memory, [Next]_vars,
         NEW k \in DOMAIN ledger' \ DOMAIN ledger,
         ledger'[k].type = "intent_claimed", ledger'[k].name # NoName
  PROVE  \E j \in boot + 1 .. k - 1 :
           ledger[j].type = "worker_registered" /\ ledger[j].name = ledger'[k].name
<1>1. ledger \in Seq(Event) /\ Len(ledger) \in Nat /\ boot \in Nat
  BY Positions DEF Typed, TypeOK, LedgerTypeOK, Memory
<1>2. PICK e \in Event : ledger' = Append(ledger, e) /\ Arrives(e)
  BY LedgerStep DEF OneMore
<1>3. k = Len(ledger) + 1 /\ ledger'[k] = e
  BY <1>1, <1>2, Appended
<1>4. e.name \in workers
  BY <1>2, <1>3 DEF Arrives
<1>5. PICK j \in OfType(ledger, {"worker_registered"}) : j > boot /\ ledger[j].name = e.name
  BY <1>4 DEF Memory, MemoryIsOnRecord
<1>6. j \in 1 .. Len(ledger) /\ ledger[j].type = "worker_registered"
  BY <1>1, <1>5, Positions DEF OfType
<1>7. j \in boot + 1 .. k - 1
  BY <1>1, <1>3, <1>5, <1>6
<1> QED
  BY <1>3, <1>5, <1>6, <1>7

(* dispatch_by_name claims for a worker of this process only.              *)
THEOREM LiveWorkersOnly == Spec => OnlyLiveWorkersAreNamed
<1>1. Typed /\ Memory /\ [Next]_vars =>
        [ \A k \in DOMAIN ledger' \ DOMAIN ledger :
            ledger'[k].type = "intent_claimed" /\ ledger'[k].name # NoName
              => \E j \in boot + 1 .. k - 1 :
                   ledger[j].type = "worker_registered" /\ ledger[j].name = ledger'[k].name ]_vars
  BY NamedStep
<1> QED
  BY <1>1, AlwaysTyped, AlwaysMemory, PTL DEF Spec, OnlyLiveWorkersAreNamed

---------------------------------------------------------------------------
(* Sessions.                                                               *)

(* An intent is in a session once, the session was created before, and as  *)
(* long as no id strays into other data, the intent had been submitted.    *)
Submitted(i) == \E m \in OfType(ledger, SubmissionTypes) : ledger[m].intent = i

Admissions ==
  /\ \A j, k \in OfType(ledger, {"session_intent_added"}) :
       ledger[j].id = ledger[k].id /\ ledger[j].intent = ledger[k].intent => j = k
  /\ \A k \in OfType(ledger, {"session_intent_added"}) :
       \E m \in OfType(ledger, {"session_created"}) : m < k /\ ledger[m].id = ledger[k].id
  /\ NoForeignIds(ledger) =>
       \A k \in OfType(ledger, {"session_intent_added"} \union IntentTypes) :
         Submitted(ledger[k].intent)

LEMMA AdmissionsInit == Init => Admissions
<1> SUFFICES ASSUME Init PROVE Admissions
  OBVIOUS
<1>1. \A types : OfType(ledger, types) = {}
  BY DEF Init, LedgerInit, OfType
<1> QED
  BY <1>1 DEF Admissions

LEMMA AdmissionsNext ==
  ASSUME Typed, Admissions, [Next]_vars
  PROVE  Admissions'
<1>1. ledger \in Seq(Event)
  BY DEF Typed, TypeOK, LedgerTypeOK
<1>2. CASE UNCHANGED ledger
  BY <1>2 DEF Admissions, NoForeignIds, Submitted
<1>3. ASSUME NEW e \in Event, ledger' = Append(ledger, e), Arrives(e)
      PROVE  Admissions'
  <2> DEFINE n == Len(ledger) + 1
             added == OfType(ledger, {"session_intent_added"})
             old == OfType(ledger, {"session_intent_added"} \union IntentTypes)
  <2>1. /\ DOMAIN ledger' = DOMAIN ledger \union {n}
        /\ \A k \in DOMAIN ledger : ledger'[k] = ledger[k] /\ k < n
        /\ ledger'[n] = e
    BY <1>1, <1>3, Appended, Positions
  <2>2. \A types : OfType(ledger', types) =
                     IF e.type \in types THEN OfType(ledger, types) \union {n} ELSE OfType(ledger, types)
    BY <2>1 DEF OfType
  <2>3. \A types : \A k \in OfType(ledger, types) : ledger'[k] = ledger[k] /\ k < n
    BY <2>1 DEF OfType
  <2>4. e.type = "session_intent_added" =>
          SessionExists(e.id) /\ KnownIntent(e.intent) /\ ~MembershipExists(e.id, e.intent)
    BY <1>3 DEF Arrives
  <2>5. \A j, k \in OfType(ledger', {"session_intent_added"}) :
          ledger'[j].id = ledger'[k].id /\ ledger'[j].intent = ledger'[k].intent => j = k
    <3>1. \A j, k \in added : ledger[j].id = ledger[k].id /\ ledger[j].intent = ledger[k].intent => j = k
      BY DEF Admissions
    <3>2. CASE e.type # "session_intent_added"
      BY <2>2, <2>3, <3>1, <3>2
    <3>3. CASE e.type = "session_intent_added"
      <4>1. \A k \in added : ledger[k].id # e.id \/ ledger[k].intent # e.intent
        BY <2>4, <3>3 DEF MembershipExists, Mentions
      <4> QED
        BY <2>1, <2>2, <2>3, <3>1, <3>3, <4>1
    <3> QED
      BY <3>2, <3>3
  <2>6. \A k \in OfType(ledger', {"session_intent_added"}) :
          \E m \in OfType(ledger', {"session_created"}) : m < k /\ ledger'[m].id = ledger'[k].id
    <3>1. \A k \in added :
            \E m \in OfType(ledger, {"session_created"}) : m < k /\ ledger[m].id = ledger[k].id
      BY DEF Admissions
    <3>2. CASE e.type # "session_intent_added"
      BY <2>2, <2>3, <3>1, <3>2
    <3>3. CASE e.type = "session_intent_added"
      <4>1. \E m \in OfType(ledger, {"session_created"}) : ledger[m].id = e.id
        BY <2>4, <3>3 DEF SessionExists
      <4> QED
        BY <2>1, <2>2, <2>3, <3>1, <3>3, <4>1
    <3> QED
      BY <3>2, <3>3
  <2>7. ASSUME NoForeignIds(ledger')
        PROVE  \A k \in OfType(ledger', {"session_intent_added"} \union IntentTypes) :
                 \E m \in OfType(ledger', SubmissionTypes) : ledger'[m].intent = ledger'[k].intent
    <3>1. NoForeignIds(ledger)
      BY <2>1, <2>7 DEF NoForeignIds
    <3>2. \A k \in old : Submitted(ledger[k].intent)
      BY <3>1 DEF Admissions
    <3>3. \A k \in OfType(ledger, IntentTypes) : k \in old
      BY DEF OfType
    <3>4. \A i : (\E k \in OfType(ledger, IntentTypes) : Mentions(ledger[k], i)) => Submitted(i)
      <4>1. \A k \in OfType(ledger, IntentTypes) : ledger[k].nested = {}
        BY <3>1 DEF NoForeignIds, OfType
      <4> QED
        BY <3>2, <3>3, <4>1 DEF Mentions
    <3>5. \A i : Submitted(i) => \E m \in OfType(ledger', SubmissionTypes) : ledger'[m].intent = i
      BY <2>2, <2>3 DEF Submitted
    <3>6. e.type \in {"session_intent_added"} \union IntentTypes =>
            \E m \in OfType(ledger', SubmissionTypes) : ledger'[m].intent = e.intent
      <4>1. CASE e.type \in SubmissionTypes
        BY <2>1, <2>2, <4>1
      <4>2. CASE e.type = "session_intent_added"
        BY <2>4, <3>4, <3>5, <4>2 DEF KnownIntent
      <4>3. CASE e.type = "intent_claimed"
        <5>1. Pending(e.intent)
          BY <1>3, <4>3 DEF Arrives
        <5> QED
          BY <3>4, <3>5, <5>1 DEF Pending, RowsLike
      <4>4. e.type \notin {"intent_completed", "intent_failed"}
        BY <1>3 DEF Arrives
      <4> QED
        BY <4>1, <4>2, <4>3, <4>4 DEF IntentTypes
    <3> QED
      BY <2>1, <2>2, <2>3, <3>2, <3>5, <3>6
  <2> QED
    BY <2>5, <2>6, <2>7 DEF Admissions, Submitted
<1> QED
  BY <1>2, <1>3, LedgerStep DEF OneMore

LEMMA AdmissionsSound ==
  ASSUME Typed, Admissions
  PROVE  SessionHistoryIsSound
<1>1. ASSUME NoForeignIds(ledger)
      PROVE  CheckSessionHistory(ledger) = {}
  <2>1. \A k \in OfType(ledger, {"session_intent_added"}) :
          k \in OfType(ledger, {"session_intent_added"} \union IntentTypes)
    BY DEF OfType
  <2>2. \A k \in OfType(ledger, {"session_intent_added"}) :
          \E m \in OfType(ledger, SubmissionTypes) : ledger[m].intent = ledger[k].intent
    BY <1>1, <2>1 DEF Admissions, Submitted
  <2>3. \A k \in OfType(ledger, {"session_intent_added"}) :
          \E m \in OfType(ledger, {"session_created"}) : m < k /\ ledger[m].id = ledger[k].id
    BY DEF Admissions
  <2>4. \A j, k \in OfType(ledger, {"session_intent_added"}) :
          ~(j < k /\ ledger[j].id = ledger[k].id /\ ledger[j].intent = ledger[k].intent)
    <3>1. \A k \in OfType(ledger, {"session_intent_added"}) : k \in Nat
      BY Positions DEF OfType, Typed, TypeOK, LedgerTypeOK
    <3> QED
      BY <3>1 DEF Admissions
  <2> QED
    BY <2>2, <2>3, <2>4 DEF CheckSessionHistory
<1> QED
  BY <1>1 DEF Admissions, SessionHistoryIsSound

(* A session holds an intent once, and the auditor finds nothing wrong     *)
(* with the history of sessions unless an id strays into other data.       *)
THEOREM SoundSessionHistory == Spec => []SessionHistoryIsSound
<1>1. Typed /\ Admissions /\ [Next]_vars => Admissions'
  BY AdmissionsNext
<1>2. Typed /\ Admissions => SessionHistoryIsSound
  BY AdmissionsSound
<1> QED
  BY <1>1, <1>2, AdmissionsInit, AlwaysTyped, PTL DEF Spec

---------------------------------------------------------------------------
(* Ledgers as these parts write them.                                      *)

Created(L) == OfType(L, {"session_created"})
Added(L)   == OfType(L, {"session_intent_added"})

(* A session and a run are known by the position of their first event, a   *)
(* member comes after its session and comes once, a worker has a name, and *)
(* an artifact a place and a content.                                      *)
Sound(L) ==
  /\ \A k \in OfType(L, {"session_created", "run_created"}) : L[k].id = k
  /\ \A k \in Added(L) : L[k].id \in Created(L) /\ L[k].id < k
  /\ \A j, k \in Added(L) : L[j].id = L[k].id /\ L[j].intent = L[k].intent => j = k
  /\ \A k \in OfType(L, {"worker_registered"}) : L[k].name \in Names
  /\ \A k \in OfType(L, {"artifact_file_written"}) :
       L[k].intent \in Intents /\ L[k].path \in Paths /\ L[k].content \in Contents
  /\ NoForeignIds(L) => CheckSessionHistory(L) = {}

Admitted == Admissions /\ Sound(ledger)

LEMMA AdmittedInit == Init => Admitted
<1> SUFFICES ASSUME Init PROVE Sound(ledger)
  BY AdmissionsInit DEF Admitted
<1>1. \A types : OfType(ledger, types) = {}
  BY DEF Init, LedgerInit, OfType
<1> QED
  BY <1>1 DEF Sound, Created, Added, CheckSessionHistory

LEMMA AdmittedNext ==
  ASSUME Typed, Typed', Admitted, [Next]_vars
  PROVE  Admitted'
<1>1. ledger \in Seq(Event) /\ Admissions'
  BY AdmissionsNext DEF Typed, TypeOK, LedgerTypeOK, Admitted
<1>2. CASE UNCHANGED ledger
  <2>1. Sound(ledger)'
    BY <1>2 DEF Admitted
  <2> QED
    BY <1>1, <2>1 DEF Admitted
<1>3. ASSUME NEW e \in Event, ledger' = Append(ledger, e), Arrives(e)
      PROVE  Admitted'
  <2> DEFINE n == Len(ledger) + 1
  <2>1. /\ DOMAIN ledger' = DOMAIN ledger \union {n}
        /\ \A k \in DOMAIN ledger : ledger'[k] = ledger[k] /\ k < n
        /\ ledger'[n] = e
    BY <1>1, <1>3, Appended, Positions
  <2>2. \A types : OfType(ledger', types) =
                     IF e.type \in types THEN OfType(ledger, types) \union {n} ELSE OfType(ledger, types)
    BY <2>1 DEF OfType
  <2>3. \A types : \A k \in OfType(ledger, types) : ledger'[k] = ledger[k] /\ k < n
    BY <2>1 DEF OfType
  <2>4. Sound(ledger)
    BY DEF Admitted
  <2>5. e.type \in {"session_created", "run_created"} => e.id = n
    BY <1>3 DEF Arrives, Here
  <2> HIDE DEF n
  <2>6. \A k \in OfType(ledger', {"session_created", "run_created"}) : ledger'[k].id = k
    BY <2>1, <2>2, <2>3, <2>4, <2>5 DEF Sound
  <2>7. \A k \in OfType(ledger', {"worker_registered"}) : ledger'[k].name \in Names
    <3>1. e.type = "worker_registered" => e.name \in Names
      BY <1>3 DEF Arrives
    <3> QED
      BY <2>1, <2>2, <2>3, <2>4, <3>1 DEF Sound
  <2>8. SessionHistoryIsSound'
    <3>1. Typed' /\ Admissions' => SessionHistoryIsSound'
      BY AdmissionsSound, PTL
    <3> QED
      BY <1>1, <3>1
  <2>9. \A k \in Added(ledger') : ledger'[k].id \in Created(ledger') /\ ledger'[k].id < k
    <3>1. \A k \in Added(ledger') : \E m \in Created(ledger') : m < k /\ ledger'[m].id = ledger'[k].id
      BY <1>1 DEF Admissions, Created, Added
    <3>2. \A m \in Created(ledger') : ledger'[m].id = m
      BY <2>6 DEF Created, OfType
    <3> QED
      BY <3>1, <3>2
  <2>10. \A j, k \in Added(ledger') :
           ledger'[j].id = ledger'[k].id /\ ledger'[j].intent = ledger'[k].intent => j = k
    BY <1>1 DEF Admissions, Added
  <2>11. NoForeignIds(ledger') => CheckSessionHistory(ledger') = {}
    BY <2>8 DEF SessionHistoryIsSound
  <2>12. \A k \in OfType(ledger', {"artifact_file_written"}) :
           ledger'[k].intent \in Intents /\ ledger'[k].path \in Paths /\ ledger'[k].content \in Contents
    <3>1. e.type = "artifact_file_written" =>
            e.intent \in Intents /\ e.path \in Paths /\ e.content \in Contents
      BY <1>3 DEF Arrives
    <3> QED
      BY <2>1, <2>2, <2>3, <2>4, <3>1 DEF Sound
  <2>13. Sound(ledger')
    BY <2>6, <2>7, <2>9, <2>10, <2>11, <2>12 DEF Sound
  <2> QED
    BY <1>1, <2>13 DEF Admitted
<1> QED
  BY <1>2, <1>3, LedgerStep DEF OneMore

LEMMA AlwaysAdmitted == Spec => []Admitted
<1>1. Typed /\ Typed' /\ Admitted /\ [Next]_vars => Admitted'
  BY AdmittedNext
<1> QED
  BY <1>1, AdmittedInit, AlwaysTyped, PTL DEF Spec

---------------------------------------------------------------------------
(* One position more.                                                      *)

LEMMA FirstOfMore ==
  ASSUME NEW k \in Nat \ {0}, NEW S \in SUBSET (1 .. k - 1)
  PROVE  FirstOf(S \union {k}) = IF S = {} THEN k ELSE FirstOf(S)
<1>1. S \union {k} \subseteq Nat /\ S \subseteq Nat /\ \A m \in S : m \in Nat /\ m < k
  OBVIOUS
<1>2. FirstOf(S \union {k}) \in S \union {k} /\ \A m \in S \union {k} : FirstOf(S \union {k}) <= m
  BY <1>1, FirstIsLeast
<1>3. CASE S = {}
  BY <1>2, <1>3
<1>4. CASE S # {}
  <2>1. FirstOf(S) \in S /\ \A m \in S : FirstOf(S) <= m
    BY <1>1, <1>4, FirstIsLeast
  <2> DEFINE a == FirstOf(S)
             b == FirstOf(S \union {k})
  <2>2. a \in S /\ a \in Nat /\ a < k /\ b <= a /\ b \in Nat
    BY <1>1, <1>2, <2>1
  <2>3. b # k
    <3> HIDE DEF a, b
    <3> QED
      BY <2>2
  <2>4. b \in S /\ a <= b
    BY <1>2, <2>1, <2>3
  <2>5. a = b
    <3> HIDE DEF a, b
    <3> QED
      BY <2>2, <2>4
  <2> QED
    BY <1>4, <2>5
<1> QED
  BY <1>3, <1>4

LEMMA LastOfMore ==
  ASSUME NEW k \in Nat \ {0}, NEW S \in SUBSET (1 .. k)
  PROVE  LastOf(S \union {k}) = k
<1>1. S \union {k} \in SUBSET (1 .. k) /\ S \union {k} # {}
  OBVIOUS
<1>2. LastOf(S \union {k}) \in S \union {k} /\ \A m \in S \union {k} : m <= LastOf(S \union {k})
  BY <1>1, LastIsGreatest
<1>3. LastOf(S \union {k}) \in 1 .. k /\ k <= LastOf(S \union {k})
  BY <1>1, <1>2
<1> QED
  BY <1>3

(* Two walks of n steps that start alike, and go on alike as long as they  *)
(* are alike, end alike.                                                   *)
LEMMA WalksAgree ==
  ASSUME NEW n \in Nat, NEW f, NEW g, f[0] = g[0],
         \A k \in 1 .. n : f[k - 1] = g[k - 1] => f[k] = g[k]
  PROVE  f[n] = g[n]
<1> DEFINE Apart == {k \in 0 .. n : f[k] # g[k]}
<1>1. SUFFICES ASSUME f[n] # g[n] PROVE FALSE
  OBVIOUS
<1>2. Apart \subseteq Nat /\ Apart # {}
  BY <1>1
<1>3. PICK k \in Apart : \A m \in Apart : k <= m
  <2> HIDE DEF Apart
  <2> QED
    BY <1>2, FirstIsLeast
<1>4. k # 0 /\ k \in 1 .. n
  OBVIOUS
<1>5. k - 1 \in 0 .. n /\ ~(k <= k - 1)
  BY <1>4
<1>6. f[k - 1] = g[k - 1]
  BY <1>3, <1>5
<1> QED
  BY <1>4, <1>6

(* What one event adds to the positions so far.                            *)
LEMMA UpTo ==
  ASSUME NEW L \in Seq(Event), NEW k \in 1 .. Len(L), NEW S \in SUBSET DOMAIN L
  PROVE  /\ {m \in S : m <= k} = IF k \in S THEN {m \in S : m <= k - 1} \union {k}
                                 ELSE {m \in S : m <= k - 1}
         /\ {m \in S : m <= k - 1} \in SUBSET (1 .. k - 1)
         /\ {m \in S : m <= 0} = {}
         /\ {m \in S : m <= Len(L)} = S
         /\ k \in Nat \ {0}
<1>1. DOMAIN L = 1 .. Len(L) /\ Len(L) \in Nat
  BY Positions
<1>2. \A m \in S : m \in 1 .. Len(L)
  BY <1>1
<1>3. \A m \in 1 .. Len(L) : /\ m <= k <=> m <= k - 1 \/ m = k
                             /\ m <= k - 1 => m \in 1 .. k - 1
                             /\ ~(m <= 0) /\ ~(k <= k - 1) /\ m <= Len(L)
  BY <1>1
<1> QED
  BY <1>1, <1>2, <1>3

---------------------------------------------------------------------------
(* The tables of sessions, as the first k events make them.                *)

AddedTo(L, s, k) == {m \in {a \in Added(L) : L[a].id = s} : m <= k}

SessionRow(L, s, k) ==
  [session |-> s, count |-> Cardinality(AddedTo(L, s, k)),
   event |-> LastOf(AddedTo(L, s, k) \union {s})]

MemberRowOf(L, m) ==
  [session |-> L[m].id, intent |-> L[m].intent, event |-> m,
   order |-> Cardinality(AddedTo(L, L[m].id, m))]

SessionsTo(L, k) == {SessionRow(L, s, k) : s \in {c \in Created(L) : c <= k}}
MembersTo(L, k)  == {MemberRowOf(L, m) : m \in {a \in Added(L) : a <= k}}

LEMMA AddedToStep ==
  ASSUME NEW L \in Seq(Event), NEW k \in 1 .. Len(L), NEW s
  PROVE  /\ AddedTo(L, s, k) = IF k \in Added(L) /\ L[k].id = s
                               THEN AddedTo(L, s, k - 1) \union {k} ELSE AddedTo(L, s, k - 1)
         /\ AddedTo(L, s, k - 1) \in SUBSET (1 .. k - 1)
         /\ IsFiniteSet(AddedTo(L, s, k - 1)) /\ Cardinality(AddedTo(L, s, k - 1)) \in Nat
         /\ k \in Added(L) /\ L[k].id = s =>
              Cardinality(AddedTo(L, s, k)) = Cardinality(AddedTo(L, s, k - 1)) + 1
<1> DEFINE S == {a \in Added(L) : L[a].id = s}
<1>1. S \in SUBSET DOMAIN L
  BY DEF Added, OfType
<1>2. /\ AddedTo(L, s, k) = IF k \in S THEN AddedTo(L, s, k - 1) \union {k} ELSE AddedTo(L, s, k - 1)
      /\ AddedTo(L, s, k - 1) \in SUBSET (1 .. k - 1) /\ k \in Nat \ {0}
  BY <1>1, UpTo DEF AddedTo
<1>3. AddedTo(L, s, k - 1) \in SUBSET DOMAIN L
  BY <1>1 DEF AddedTo
<1>4. IsFiniteSet(AddedTo(L, s, k - 1)) /\ Cardinality(AddedTo(L, s, k - 1)) \in Nat
  BY <1>3, SomePositions
<1>5. k \notin AddedTo(L, s, k - 1)
  BY <1>2
<1>6. Cardinality(AddedTo(L, s, k - 1) \union {k}) = Cardinality(AddedTo(L, s, k - 1)) + 1
  BY <1>4, <1>5, FS_AddElement
<1> QED
  BY <1>2, <1>4, <1>6

LEMMA SessionsStart ==
  ASSUME NEW L \in Seq(Event)
  PROVE  SessionsTo(L, 0) = {} /\ MembersTo(L, 0) = {}
<1>1. \A c \in DOMAIN L : ~(c <= 0)
  BY Positions
<1> QED
  BY <1>1 DEF SessionsTo, MembersTo, Created, Added, OfType

LEMMA SessionsStepCreated ==
  ASSUME NEW L \in Seq(Event), Sound(L), NEW k \in 1 .. Len(L), k \in Created(L)
  PROVE  /\ L[k].id = k
         /\ SessionsTo(L, k) = SessionsTo(L, k - 1) \union {[session |-> k, count |-> 0, event |-> k]}
         /\ MembersTo(L, k) = MembersTo(L, k - 1)
         /\ \A row \in SessionsTo(L, k - 1) \union MembersTo(L, k - 1) : row.session # k
<1>1. L[k].id = k /\ k \notin Added(L) /\ k \in Nat \ {0}
  BY DEF Sound, Created, Added, OfType
<1>2. Created(L) \in SUBSET DOMAIN L /\ Added(L) \in SUBSET DOMAIN L
  BY DEF Created, Added, OfType
<1>3. \A s : AddedTo(L, s, k) = AddedTo(L, s, k - 1)
  BY <1>1, AddedToStep
<1>4. \A s : SessionRow(L, s, k) = SessionRow(L, s, k - 1)
  BY <1>3 DEF SessionRow
<1>5. /\ {c \in Created(L) : c <= k} = {c \in Created(L) : c <= k - 1} \union {k}
      /\ {a \in Added(L) : a <= k} = {a \in Added(L) : a <= k - 1}
  BY <1>1, <1>2, UpTo
<1>6. AddedTo(L, k, k) = {}
  <2>1. \A a \in Added(L) : L[a].id < a /\ a \in Nat
    BY <1>2, Positions DEF Sound
  <2>2. \A a \in Added(L) : L[a].id = k => ~(a <= k)
    BY <1>1, <2>1
  <2> QED
    BY <2>2 DEF AddedTo
<1>7. SessionRow(L, k, k) = [session |-> k, count |-> 0, event |-> k]
  <2>1. LastOf({k}) = k
    BY <1>1 DEF LastOf
  <2> QED
    BY <1>6, <2>1, FS_EmptySet DEF SessionRow
<1>8. MembersTo(L, k) = MembersTo(L, k - 1)
  BY <1>5 DEF MembersTo
<1>9. SessionsTo(L, k) = SessionsTo(L, k - 1) \union {[session |-> k, count |-> 0, event |-> k]}
  BY <1>4, <1>5, <1>7 DEF SessionsTo
<1>10. \A c \in Nat : c <= k - 1 => c # k
  BY <1>1
<1>11. \A row \in SessionsTo(L, k - 1) : row.session # k
  <2>1. \A c : SessionRow(L, c, k - 1).session = c
    BY DEF SessionRow
  <2>2. \A c \in Created(L) : c \in Nat
    BY <1>2, Positions
  <2>3. \A c \in {d \in Created(L) : d <= k - 1} : c # k
    BY <1>10, <2>2
  <2>4. \A row \in SessionsTo(L, k - 1) :
          \E c \in {d \in Created(L) : d <= k - 1} : row = SessionRow(L, c, k - 1)
    BY DEF SessionsTo
  <2> QED
    BY <2>1, <2>3, <2>4
<1>12. \A row \in MembersTo(L, k - 1) : row.session # k
  <2> SUFFICES ASSUME NEW m \in Added(L), m <= k - 1 PROVE L[m].id # k
    BY DEF MembersTo, MemberRowOf
  <2>1. L[m].id < m /\ L[m].id \in Nat /\ m \in Nat
    BY <1>2, Positions DEF Sound, Event
  <2> QED
    BY <1>1, <2>1
<1> QED
  BY <1>1, <1>8, <1>9, <1>11, <1>12

LEMMA SessionsStepOther ==
  ASSUME NEW L \in Seq(Event), Sound(L), NEW k \in 1 .. Len(L),
         k \notin Created(L), k \notin Added(L)
  PROVE  SessionsTo(L, k) = SessionsTo(L, k - 1) /\ MembersTo(L, k) = MembersTo(L, k - 1)
<1>1. Created(L) \in SUBSET DOMAIN L /\ Added(L) \in SUBSET DOMAIN L
  BY DEF Created, Added, OfType
<1>2. \A s : SessionRow(L, s, k) = SessionRow(L, s, k - 1)
  BY AddedToStep DEF SessionRow
<1>3. /\ {c \in Created(L) : c <= k} = {c \in Created(L) : c <= k - 1}
      /\ {a \in Added(L) : a <= k} = {a \in Added(L) : a <= k - 1}
  BY <1>1, UpTo
<1> QED
  BY <1>2, <1>3 DEF SessionsTo, MembersTo

(* The members of a session have a row each.                               *)
LEMMA MembersCounted ==
  ASSUME NEW L \in Seq(Event), NEW s, NEW k \in Nat
  PROVE  LET mine == {row \in MembersTo(L, k) : row.session = s}
         IN  /\ mine = {MemberRowOf(L, m) : m \in AddedTo(L, s, k)}
             /\ IsFiniteSet(mine) /\ Cardinality(mine) = Cardinality(AddedTo(L, s, k))
<1> DEFINE mine == {row \in MembersTo(L, k) : row.session = s}
           S == AddedTo(L, s, k)
           f == [m \in S |-> MemberRowOf(L, m)]
<1>1. mine = {MemberRowOf(L, m) : m \in S}
  <2> DEFINE A == {a \in Added(L) : a <= k}
  <2>1. \A m : MemberRowOf(L, m).session = L[m].id
    BY DEF MemberRowOf
  <2>2. MembersTo(L, k) = {MemberRowOf(L, m) : m \in A}
    BY DEF MembersTo
  <2>3. \A m : m \in S <=> m \in A /\ L[m].id = s
    BY DEF AddedTo
  <2> HIDE DEF A, S
  <2>4. \A row \in mine : row \in {MemberRowOf(L, m) : m \in S}
    <3> SUFFICES ASSUME NEW row \in MembersTo(L, k), row.session = s
                 PROVE  \E m \in S : row = MemberRowOf(L, m)
      OBVIOUS
    <3>1. PICK m \in A : row = MemberRowOf(L, m)
      BY <2>2
    <3> QED
      BY <2>1, <2>3, <3>1
  <2>5. \A m \in S : MemberRowOf(L, m) \in mine
    BY <2>1, <2>2, <2>3
  <2> QED
    BY <2>4, <2>5
<1>2. IsFiniteSet(S)
  <2>1. S \in SUBSET DOMAIN L
    BY DEF AddedTo, Added, OfType
  <2> QED
    BY <2>1, SomePositions
<1>3. f \in Bijection(S, mine)
  <2>1. \A a, b \in S : MemberRowOf(L, a) = MemberRowOf(L, b) => a = b
    BY DEF MemberRowOf
  <2> HIDE DEF S, mine
  <2>2. f \in Injection(S, mine)
    BY <1>1, <2>1 DEF Injection, IsInjective
  <2>3. f \in Surjection(S, mine)
    BY <1>1 DEF Surjection
  <2> QED
    BY <2>2, <2>3 DEF Bijection
<1>4. ExistsBijection(S, mine)
  BY <1>3 DEF ExistsBijection
<1>5. IsFiniteSet(mine) /\ Cardinality(mine) = Cardinality(S)
  <2> HIDE DEF S, mine
  <2> QED
    BY <1>2, <1>4, FS_Bijection
<1> QED
  BY <1>1, <1>5

LEMMA SessionsStepAdded ==
  ASSUME NEW L \in Seq(Event), Sound(L), NEW k \in 1 .. Len(L), k \in Added(L)
  PROVE  LET s == L[k].id
             order == Cardinality(AddedTo(L, s, k - 1)) + 1
             was == SessionRow(L, s, k - 1)
         IN  /\ was \in SessionsTo(L, k - 1) /\ was.session = s /\ was.count + 1 = order
             /\ \A row \in SessionsTo(L, k - 1) : row.session = s => row = was
             /\ SessionsTo(L, k) = (SessionsTo(L, k - 1) \ {was})
                                     \union {[session |-> s, count |-> order, event |-> k]}
             /\ \A row \in MembersTo(L, k - 1) : row.session = s => row.intent # L[k].intent
             /\ MembersTo(L, k) = MembersTo(L, k - 1) \union
                  {[session |-> s, intent |-> L[k].intent, order |-> order, event |-> k]}
<1> DEFINE s == L[k].id
           order == Cardinality(AddedTo(L, s, k - 1)) + 1
           was == SessionRow(L, s, k - 1)
           now == [session |-> s, count |-> order, event |-> k]
<1>1. s \in Created(L) /\ s < k /\ k \notin Created(L) /\ k \in Nat \ {0} /\ s \in Nat /\ s \in 1 .. k - 1
  <2>1. s \in Created(L) /\ s < k /\ k \notin Created(L)
    BY DEF Sound, Created, Added, OfType
  <2>2. s \in 1 .. Len(L) /\ Len(L) \in Nat
    BY <2>1, Positions DEF Created, OfType
  <2> HIDE DEF s
  <2> QED
    BY <2>1, <2>2
<1>2. Created(L) \in SUBSET DOMAIN L /\ Added(L) \in SUBSET DOMAIN L
  BY DEF Created, Added, OfType
<1>3. /\ {c \in Created(L) : c <= k} = {c \in Created(L) : c <= k - 1}
      /\ {a \in Added(L) : a <= k} = {a \in Added(L) : a <= k - 1} \union {k}
  BY <1>1, <1>2, UpTo
<1>4. /\ \A x : x # s => AddedTo(L, x, k) = AddedTo(L, x, k - 1)
      /\ AddedTo(L, s, k) = AddedTo(L, s, k - 1) \union {k}
      /\ AddedTo(L, s, k - 1) \in SUBSET (1 .. k - 1)
      /\ Cardinality(AddedTo(L, s, k)) = order
  BY AddedToStep
<1>5. \A x : x # s => SessionRow(L, x, k) = SessionRow(L, x, k - 1)
  BY <1>4 DEF SessionRow
<1>6. SessionRow(L, s, k) = now
  <2>1. LastOf(AddedTo(L, s, k) \union {s}) = k
    <3> DEFINE before == AddedTo(L, s, k - 1) \union {s}
    <3>1. AddedTo(L, s, k) \union {s} = before \union {k}
      BY <1>4
    <3>2. before \in SUBSET (1 .. k)
      BY <1>1, <1>4
    <3> HIDE DEF before, s
    <3> QED
      BY <1>1, <3>1, <3>2, LastOfMore
  <2> QED
    BY <1>4, <2>1 DEF SessionRow
<1>7. was \in SessionsTo(L, k - 1) /\ was.session = s /\ was.count + 1 = order
  <2>1. s <= k - 1
    BY <1>1
  <2> QED
    BY <1>1, <2>1 DEF SessionsTo, SessionRow
<1>8. \A row \in SessionsTo(L, k - 1) : row.session = s => row = was
  <2> SUFFICES ASSUME NEW row \in SessionsTo(L, k - 1), row.session = s PROVE row = was
    OBVIOUS
  <2>1. PICK x \in {c \in Created(L) : c <= k - 1} : row = SessionRow(L, x, k - 1)
    BY DEF SessionsTo
  <2>2. SessionRow(L, x, k - 1).session = x
    BY DEF SessionRow
  <2> QED
    BY <2>1, <2>2
<1>9. SessionsTo(L, k) = (SessionsTo(L, k - 1) \ {was}) \union {now}
  <2> DEFINE C == {c \in Created(L) : c <= k - 1}
  <2>1. SessionsTo(L, k) = {SessionRow(L, x, k) : x \in C}
        /\ SessionsTo(L, k - 1) = {SessionRow(L, x, k - 1) : x \in C}
    BY <1>3 DEF SessionsTo
  <2>2. s \in C
    BY <1>1
  <2>3. \A x : SessionRow(L, x, k - 1).session = x /\ SessionRow(L, x, k).session = x
    BY DEF SessionRow
  <2> HIDE DEF C, now, was, s
  <2>4. \A x \in C : x # s => SessionRow(L, x, k - 1) # was
    BY <1>7, <2>3
  <2>5. SessionsTo(L, k) \subseteq (SessionsTo(L, k - 1) \ {was}) \union {now}
    BY <1>5, <1>6, <2>1, <2>4
  <2>6. (SessionsTo(L, k - 1) \ {was}) \union {now} \subseteq SessionsTo(L, k)
    <3>1. now \in SessionsTo(L, k)
      BY <1>6, <2>1, <2>2
    <3>2. ASSUME NEW row \in SessionsTo(L, k - 1), row # was PROVE row \in SessionsTo(L, k)
      <4>1. PICK x \in C : row = SessionRow(L, x, k - 1)
        BY <2>1
      <4>2. x # s
        BY <3>2, <4>1 DEF was
      <4> QED
        BY <1>5, <2>1, <4>1, <4>2
    <3> QED
      BY <3>1, <3>2
  <2> QED
    BY <2>5, <2>6
<1>10. \A row \in MembersTo(L, k - 1) : row.session = s => row.intent # L[k].intent
  <2> SUFFICES ASSUME NEW m \in Added(L), m <= k - 1, L[m].id = s, L[m].intent = L[k].intent
               PROVE  FALSE
    BY DEF MembersTo, MemberRowOf
  <2>1. m = k
    BY DEF Sound
  <2> QED
    BY <1>1, <2>1
<1>11. MembersTo(L, k) = MembersTo(L, k - 1) \union
         {[session |-> s, intent |-> L[k].intent, order |-> order, event |-> k]}
  <2>1. MemberRowOf(L, k) = [session |-> s, intent |-> L[k].intent, order |-> order, event |-> k]
    BY <1>4 DEF MemberRowOf
  <2> QED
    BY <1>3, <2>1 DEF MembersTo
<1> HIDE DEF s, order, was
<1> QED
  BY <1>7, <1>8, <1>9, <1>10, <1>11 DEF s, order, was

(* The table of members, as a rebuild makes it.                            *)
LEMMA SessionsRebuilt ==
  ASSUME NEW L \in Seq(Event), Sound(L)
  PROVE  /\ RebuiltSessionTable(L) = SessionsTo(L, Len(L))
         /\ RebuiltMemberTable(L) = MembersTo(L, Len(L))
<1>1. /\ DOMAIN L = 1 .. Len(L) /\ Len(L) \in Nat
      /\ Created(L) \in SUBSET DOMAIN L /\ Added(L) \in SUBSET DOMAIN L
  BY Positions DEF Created, Added, OfType
<1>2. /\ {c \in Created(L) : c <= Len(L)} = Created(L)
      /\ {a \in Added(L) : a <= Len(L)} = Added(L)
  BY <1>1
<1>3. \A s : Members(L, s) = {a \in Added(L) : L[a].id = s}
  <2>1. \A k \in Added(L) : \A m \in Added(L) :
          m < k => L[m].id # L[k].id \/ L[m].intent # L[k].intent
    <3>1. \A k \in Added(L) : k \in Nat
      BY <1>1
    <3>2. \A k \in Added(L) : \A m \in Added(L) : m = k => ~(m < k)
      BY <3>1
    <3> QED
      BY <3>2 DEF Sound
  <2> QED
    BY <2>1 DEF Members, Added
<1>4. \A s : AddedTo(L, s, Len(L)) = Members(L, s)
  BY <1>1, <1>3 DEF AddedTo
<1>5. \A s, k : AddedTo(L, s, k) = {m \in Members(L, s) : m <= k}
  BY <1>3 DEF AddedTo
<1>6. UNION {Members(L, s) : s \in Created(L)} = Added(L)
  <2>1. \A k \in Added(L) : L[k].id \in Created(L)
    BY DEF Sound
  <2> QED
    BY <1>3, <2>1
<1>7. RebuiltSessionTable(L) = SessionsTo(L, Len(L))
  <2>1. \A s : SessionRow(L, s, Len(L)) =
          [session |-> s, count |-> Cardinality(Members(L, s)), event |-> LastOf(Members(L, s) \union {s})]
    BY <1>4 DEF SessionRow
  <2>2. SessionsTo(L, Len(L)) = {SessionRow(L, s, Len(L)) : s \in Created(L)}
    BY <1>2 DEF SessionsTo
  <2> QED
    BY <2>1, <2>2 DEF RebuiltSessionTable, Created
<1>8. RebuiltMemberTable(L) = MembersTo(L, Len(L))
  <2>1. RebuiltMemberTable(L) =
          {[session |-> L[k].id, intent |-> L[k].intent, event |-> k,
            order |-> Cardinality({m \in Members(L, L[k].id) : m <= k})] : k \in Added(L)}
    BY <1>6 DEF RebuiltMemberTable, Created
  <2>2. MembersTo(L, Len(L)) = {MemberRowOf(L, m) : m \in Added(L)}
    BY <1>2 DEF MembersTo
  <2>3. \A k : MemberRowOf(L, k) =
          [session |-> L[k].id, intent |-> L[k].intent, event |-> k,
           order |-> Cardinality({m \in Members(L, L[k].id) : m <= k})]
    BY <1>5 DEF MemberRowOf
  <2> QED
    BY <2>1, <2>2, <2>3
<1> QED
  BY <1>7, <1>8

---------------------------------------------------------------------------
(* The tables as their calls write them.                                   *)

(* A step marks no table stale but its own part's.                         *)
LEMMA StaleStep ==
  ASSUME [Next]_vars
  PROVE  /\ RegistryStep \/ (("workers" \in stale' <=> "workers" \in stale) /\ UNCHANGED registryVars)
         /\ SessionStep \/ (("sessions" \in stale' <=> "sessions" \in stale) /\ UNCHANGED sessionVars)
         /\ CaptureStep \/ /\ "provenance" \in stale' <=> "provenance" \in stale
                           /\ "environment" \in stale' <=> "environment" \in stale
                           /\ UNCHANGED captureVars
         /\ WorkspaceStep \/ (("artifacts" \in stale' <=> "artifacts" \in stale) /\ UNCHANGED workspaceVars)
<1> DEFINE Marks(tables) == stale' \subseteq stale \union tables /\ stale \subseteq stale' \union tables
           Same(table) == table \in stale' <=> table \in stale
<1> SUFFICES /\ RegistryStep \/ (Same("workers") /\ UNCHANGED registryVars)
             /\ SessionStep \/ (Same("sessions") /\ UNCHANGED sessionVars)
             /\ CaptureStep \/ (Same("provenance") /\ Same("environment") /\ UNCHANGED captureVars)
             /\ WorkspaceStep \/ (Same("artifacts") /\ UNCHANGED workspaceVars)
  OBVIOUS
<1>1. ASSUME NEW table, NEW write, NEW unchanged, TableWrite(table, write, unchanged)
      PROVE  Marks({table})
  BY <1>1 DEF TableWrite
<1>2. /\ \A e : Record(e) => UNCHANGED stale
      /\ AppendFails => UNCHANGED stale
      /\ \A table : Rebuild(table) => Marks({table})
  BY DEF Record, AppendFails, Rebuild
<1>3. ClockStepsBack \/ RunStep \/ Dispatch => UNCHANGED stale
  BY <1>2 DEF ClockStepsBack, RunStep, Dispatch, DispatchByName, SubmitIntent, CreateRun,
              AppendRunEvent, ClaimIntent
<1>4. RegistryStep => Marks({"workers"})
  BY <1>1, <1>2 DEF RegistryStep, RegisterInvalid, RegisterWorker, Restart,
                    RebuildWorkerProjection, ledgerVars
<1>5. SessionStep => Marks({"sessions"})
  BY <1>1, <1>2 DEF SessionStep, CreateSession, AddIntentToSession, RebuildSessionProjection
<1>6. CaptureStep => Marks({"provenance", "environment"})
  BY <1>1, <1>2 DEF CaptureStep, CaptureProvenance, CaptureEnvironment,
                    RebuildProvenanceProjection, RebuildEnvironmentProjection
<1>7. ReceiptStep \/ ArchiveStep => UNCHANGED stale
  BY DEF ReceiptStep, GetReceiptBundle, RebuildReceiptProjection, ArchiveStep, ExportArchive,
         DamageArchive, RefuseImport, ImportLedgerEvents, FinishImport, ImportStops, RestoreFile,
         ExportFault, ledgerVars
<1>8. WorkspaceStep => Marks({"artifacts"})
  BY <1>1, <1>2 DEF WorkspaceStep, WriteArtifact, RejectWrite, WriteNormalized, RecordFile,
                    DamageFile, RebuildArtifactProjection
<1>9. UNCHANGED vars => UNCHANGED <<stale, registryVars, sessionVars, captureVars, workspaceVars>>
  BY DEF vars, ledgerVars
<1>10. /\ UNCHANGED stale => \A table : Same(table)
       /\ \A tables : Marks(tables) => \A table : table \notin tables => Same(table)
  OBVIOUS
<1> HIDE DEF Marks, Same
<1>11. CASE RegistryStep /\ UNCHANGED <<sessionVars, captureVars, workspaceVars>>
  <2>1. Same("sessions") /\ Same("provenance") /\ Same("environment") /\ Same("artifacts")
    BY <1>4, <1>10, <1>11
  <2> QED
    BY <1>11, <2>1
<1>12. CASE SessionStep /\ UNCHANGED <<registryVars, captureVars, workspaceVars>>
  <2>1. Same("workers") /\ Same("provenance") /\ Same("environment") /\ Same("artifacts")
    BY <1>5, <1>10, <1>12
  <2> QED
    BY <1>12, <2>1
<1>13. CASE CaptureStep /\ UNCHANGED <<registryVars, sessionVars, workspaceVars>>
  <2>1. Same("workers") /\ Same("sessions") /\ Same("artifacts")
    BY <1>6, <1>10, <1>13
  <2> QED
    BY <1>13, <2>1
<1>14. CASE WorkspaceStep /\ UNCHANGED <<registryVars, sessionVars, captureVars>>
  <2>1. Same("workers") /\ Same("sessions") /\ Same("provenance") /\ Same("environment")
    BY <1>8, <1>10, <1>14
  <2> QED
    BY <1>14, <2>1
<1>15. CASE UNCHANGED <<stale, registryVars, sessionVars, captureVars, workspaceVars>>
  BY <1>10, <1>15
<1> QED
  BY <1>3, <1>7, <1>9, <1>11, <1>12, <1>13, <1>14, <1>15 DEF Next

(* What is appended is the event, but for the clock.                       *)
LEMMA AppendedEvent ==
  ASSUME Typed, NEW e \in Event, Append1(e)
  PROVE  \E x \in Event :
           /\ ledger' = Append(ledger, x) /\ ledger'[Here] = x
           /\ x.type = e.type /\ x.id = e.id /\ x.intent = e.intent /\ x.name = e.name
<1> DEFINE x == [e EXCEPT !.back = clock]
<1>1. x \in Event /\ ledger' = Append(ledger, x)
  BY DEF Typed, TypeOK, LedgerTypeOK, Append1, Event
<1>2. x.type = e.type /\ x.id = e.id /\ x.intent = e.intent /\ x.name = e.name
  BY DEF Event
<1>3. ledger \in Seq(Event)
  BY DEF Typed, TypeOK, LedgerTypeOK
<1> HIDE DEF x
<1>4. ledger'[Here] = x
  BY <1>1, <1>3, Appended DEF Here
<1> QED
  BY <1>1, <1>2, <1>4

(* The rows of some types, one event later.                                *)
LEMMA OneMoreOfType ==
  ASSUME NEW L \in Seq(Event), NEW e \in Event, NEW types, e.type \in types
  PROVE  OfType(Append(L, e), types) = OfType(L, types) \union {Len(L) + 1}
BY Appended DEF OfType

LEMMA OneOtherType ==
  ASSUME NEW L \in Seq(Event), NEW e \in Event, NEW types, e.type \notin types
  PROVE  OfType(Append(L, e), types) = OfType(L, types)
BY Appended DEF OfType

LiveCaptures ==
  /\ "provenance" \notin stale => provenanceTable = OfType(ledger, ProvenanceTypes)
  /\ "environment" \notin stale => environmentTable = OfType(ledger, EnvironmentTypes)

LEMMA LiveCapturesNext ==
  ASSUME Typed, LiveCaptures, [Next]_vars
  PROVE  LiveCaptures'
<1>1. ledger \in Seq(Event)
  BY DEF Typed, TypeOK, LedgerTypeOK
<1>2. ASSUME ~CaptureStep PROVE LiveCaptures'
  <2>1. /\ "provenance" \in stale' <=> "provenance" \in stale
        /\ "environment" \in stale' <=> "environment" \in stale
        /\ UNCHANGED <<provenanceTable, environmentTable>>
    BY <1>2, StaleStep DEF captureVars
  <2>2. \/ UNCHANGED ledger
        \/ \E e \in Event : ledger' = Append(ledger, e)
                             /\ e.type \notin ProvenanceTypes /\ e.type \notin EnvironmentTypes
    BY <1>2, LedgerStep DEF OneMore, Arrives
  <2>3. /\ OfType(ledger', ProvenanceTypes) = OfType(ledger, ProvenanceTypes)
        /\ OfType(ledger', EnvironmentTypes) = OfType(ledger, EnvironmentTypes)
    BY <1>1, <2>2, OneOtherType
  <2> QED
    BY <2>1, <2>3 DEF LiveCaptures
<1>3. ASSUME NEW i \in Intents, NEW t \in ProvenanceTypes, CaptureProvenance(i, t)
      PROVE  LiveCaptures'
  <2>1. EventAbout(t, i) \in Event /\ EventAbout(t, i).type = t /\ t \notin EnvironmentTypes
    BY DEF EventAbout, Event, EventTypes, NoId, ProvenanceTypes, EnvironmentTypes
  <2>2. UNCHANGED environmentTable
    BY <1>3 DEF CaptureProvenance
  <2>3. CASE AppendFails /\ UNCHANGED provenanceTable
    BY <2>2, <2>3 DEF AppendFails, LiveCaptures
  <2>4. CASE /\ Append1(EventAbout(t, i))
             /\ TableWrite("provenance", provenanceTable' = provenanceTable \union {Here},
                           UNCHANGED provenanceTable)
    <3>1. PICK e \in Event : ledger' = Append(ledger, e) /\ e.type = t
      BY <2>1, <2>4, AppendedEvent
    <3>2. /\ OfType(ledger', ProvenanceTypes) = OfType(ledger, ProvenanceTypes) \union {Here}
          /\ OfType(ledger', EnvironmentTypes) = OfType(ledger, EnvironmentTypes)
      BY <1>1, <2>1, <3>1, OneMoreOfType, OneOtherType DEF Here
    <3> QED
      BY <2>2, <2>4, <3>2 DEF TableWrite, LiveCaptures
  <2> QED
    BY <1>3, <2>3, <2>4 DEF CaptureProvenance
<1>4. ASSUME NEW i \in Intents, NEW t \in EnvironmentTypes, CaptureEnvironment(i, t)
      PROVE  LiveCaptures'
  <2>1. EventAbout(t, i) \in Event /\ EventAbout(t, i).type = t /\ t \notin ProvenanceTypes
    BY DEF EventAbout, Event, EventTypes, NoId, ProvenanceTypes, EnvironmentTypes
  <2>2. UNCHANGED provenanceTable
    BY <1>4 DEF CaptureEnvironment
  <2>3. CASE AppendFails /\ UNCHANGED environmentTable
    BY <2>2, <2>3 DEF AppendFails, LiveCaptures
  <2>4. CASE /\ Append1(EventAbout(t, i))
             /\ TableWrite("environment", environmentTable' = environmentTable \union {Here},
                           UNCHANGED environmentTable)
    <3>1. PICK e \in Event : ledger' = Append(ledger, e) /\ e.type = t
      BY <2>1, <2>4, AppendedEvent
    <3>2. /\ OfType(ledger', EnvironmentTypes) = OfType(ledger, EnvironmentTypes) \union {Here}
          /\ OfType(ledger', ProvenanceTypes) = OfType(ledger, ProvenanceTypes)
      BY <1>1, <2>1, <3>1, OneMoreOfType, OneOtherType DEF Here
    <3> QED
      BY <2>2, <2>4, <3>2 DEF TableWrite, LiveCaptures
  <2> QED
    BY <1>4, <2>3, <2>4 DEF CaptureEnvironment
<1>5. CASE RebuildProvenanceProjection \/ RebuildEnvironmentProjection
  BY <1>5 DEF RebuildProvenanceProjection, RebuildEnvironmentProjection, Rebuild,
              RebuiltProvenanceTable, RebuiltEnvironmentTable, LiveCaptures
<1> QED
  BY <1>2, <1>3, <1>4, <1>5 DEF CaptureStep

LiveArtifacts == "artifacts" \notin stale => artifactTable = RebuiltArtifactTable(ledger)

LEMMA LiveArtifactsNext ==
  ASSUME Typed, LiveArtifacts, [Next]_vars
  PROVE  LiveArtifacts'
<1>1. ledger \in Seq(Event)
  BY DEF Typed, TypeOK, LedgerTypeOK
<1>2. ASSUME UNCHANGED artifactTable, "artifacts" \in stale' <=> "artifacts" \in stale,
             UNCHANGED ledger \/ \E e \in Event : ledger' = Append(ledger, e)
                                                   /\ e.type # "artifact_file_written"
      PROVE  LiveArtifacts'
  <2>1. RebuiltArtifactTable(ledger') = RebuiltArtifactTable(ledger)
    <3>1. \A e \in Event : e.type \notin {"artifact_file_written"} =>
            OfType(Append(ledger, e), {"artifact_file_written"}) = OfType(ledger, {"artifact_file_written"})
      BY <1>1, OneOtherType
    <3>2. CASE UNCHANGED ledger
      BY <3>2
    <3>3. ASSUME NEW e \in Event, ledger' = Append(ledger, e), e.type # "artifact_file_written"
          PROVE  RebuiltArtifactTable(ledger') = RebuiltArtifactTable(ledger)
      BY <3>1, <3>3 DEF RebuiltArtifactTable
    <3> QED
      BY <1>2, <3>2, <3>3
  <2> QED
    BY <1>2, <2>1 DEF LiveArtifacts
<1>3. ASSUME ~WorkspaceStep PROVE LiveArtifacts'
  <2>1. ("artifacts" \in stale' <=> "artifacts" \in stale) /\ UNCHANGED artifactTable
    BY <1>3, StaleStep DEF workspaceVars
  <2>2. UNCHANGED ledger \/ \E e \in Event : ledger' = Append(ledger, e)
                                             /\ e.type # "artifact_file_written"
    BY <1>3, LedgerStep DEF OneMore, Arrives
  <2> QED
    BY <1>2, <2>1, <2>2
<1>4. ASSUME NEW i \in Intents, NEW raw \in Spellings, RejectWrite(i, raw)
      PROVE  LiveArtifacts'
  <2> DEFINE e == [EventAbout("artifact_write_rejected", i) EXCEPT !.path = raw]
  <2>1. e \in Event /\ e.type # "artifact_file_written"
    BY DEF EventAbout, Event, NoId, EventTypes
  <2>2. Record(e) /\ UNCHANGED artifactTable
    BY <1>4 DEF RejectWrite, workspaceVars
  <2> HIDE DEF e
  <2>3. UNCHANGED ledger \/ \E x \in Event : ledger' = Append(ledger, x)
                                              /\ x.type # "artifact_file_written"
    BY <2>1, <2>2, AppendedEvent DEF Record, AppendFails
  <2> QED
    BY <1>2, <2>2, <2>3 DEF Record, AppendFails
<1>5. ASSUME NEW i \in Intents, NEW p \in Paths, NEW c \in Contents, RecordFile(i, p, c)
      PROVE  LiveArtifacts'
  <2>1. FileEvent(i, p, c) \in Event /\ FileEvent(i, p, c).type = "artifact_file_written"
    BY PathsAssumption DEF FileEvent, EventAbout, Event, NoId, EventTypes
  <2>2. CASE AppendFails /\ UNCHANGED artifactTable
    BY <1>2, <2>2 DEF AppendFails
  <2>3. CASE /\ Append1(FileEvent(i, p, c))
             /\ TableWrite("artifacts", artifactTable' = artifactTable \union {Here},
                           UNCHANGED artifactTable)
    <3>1. PICK x \in Event : ledger' = Append(ledger, x) /\ x.type = "artifact_file_written"
      BY <2>1, <2>3, AppendedEvent
    <3>2. RebuiltArtifactTable(ledger') = RebuiltArtifactTable(ledger) \union {Here}
      BY <1>1, <3>1, OneMoreOfType DEF RebuiltArtifactTable, Here
    <3> QED
      BY <2>3, <3>2 DEF TableWrite, LiveArtifacts
  <2> QED
    BY <1>5, <2>2, <2>3 DEF RecordFile
<1>6. ASSUME AppendFails, UNCHANGED artifactTable PROVE LiveArtifacts'
  BY <1>2, <1>6 DEF AppendFails
<1>7. ASSUME NEW i \in Intents, NEW raw \in Spellings, NEW c \in Contents, WriteArtifact(i, raw, c)
      PROVE  LiveArtifacts'
  BY <1>4, <1>5, <1>6, <1>7 DEF WriteArtifact, WriteNormalized
<1>8. ASSUME NEW i, NEW p, DamageFile(i, p) PROVE LiveArtifacts'
  BY <1>6, <1>8 DEF DamageFile
<1>9. CASE RebuildArtifactProjection
  BY <1>9 DEF RebuildArtifactProjection, Rebuild, LiveArtifacts, RebuiltArtifactTable
<1> QED
  BY <1>3, <1>7, <1>8, <1>9 DEF WorkspaceStep

LiveWorkers == "workers" \notin stale => workerTable = RebuiltWorkerTable(ledger)

LEMMA OneMoreWorker ==
  ASSUME NEW L \in Seq(Event), NEW e \in Event
  PROVE  RebuiltWorkerTable(Append(L, e)) =
           [n \in Names |-> IF /\ e.type = "worker_registered" /\ e.name = n
                               /\ RebuiltWorkerTable(L)[n] = NoId
                            THEN Len(L) + 1 ELSE RebuiltWorkerTable(L)[n]]
<1> DEFINE M == Append(L, e)
           k == Len(L) + 1
<1>1. /\ DOMAIN M = DOMAIN L \union {k} /\ M[k] = e /\ \A m \in DOMAIN L : M[m] = L[m]
      /\ DOMAIN L = 1 .. Len(L) /\ Len(L) \in Nat
  BY Appended, Positions
<1>2. k \in Nat \ {0} /\ 1 .. k - 1 = 1 .. Len(L)
  BY <1>1
<1> HIDE DEF M, k
<1>3. \A n : Registrations(M, n) =
         IF e.type = "worker_registered" /\ e.name = n THEN Registrations(L, n) \union {k}
         ELSE Registrations(L, n)
  BY <1>1 DEF Registrations, OfType
<1>4. \A n : Registrations(L, n) \in SUBSET (1 .. k - 1)
  BY <1>1, <1>2 DEF Registrations, OfType
<1>5. \A n : FirstOf(Registrations(L, n) \union {k}) =
               IF Registrations(L, n) = {} THEN k ELSE FirstOf(Registrations(L, n))
  BY <1>2, <1>4, FirstOfMore
<1>6. \A n : Registrations(L, n) # {} => FirstOf(Registrations(L, n)) # NoId
  <2> SUFFICES ASSUME NEW n, Registrations(L, n) # {} PROVE FirstOf(Registrations(L, n)) # 0
    BY DEF NoId
  <2>1. \A m \in Registrations(L, n) : m \in Nat /\ m # 0
    BY <1>2, <1>4
  <2>2. FirstOf(Registrations(L, n)) \in Registrations(L, n)
    BY <2>1, FirstIsLeast
  <2> QED
    BY <2>1, <2>2
<1>7. \A n \in Names : RebuiltWorkerTable(M)[n] =
         IF e.type = "worker_registered" /\ e.name = n /\ RebuiltWorkerTable(L)[n] = NoId
         THEN k ELSE RebuiltWorkerTable(L)[n]
  BY <1>3, <1>5, <1>6 DEF RebuiltWorkerTable
<1> QED
  BY <1>7 DEF RebuiltWorkerTable, M, k

LEMMA LiveWorkersNext ==
  ASSUME Typed, LiveWorkers, [Next]_vars
  PROVE  LiveWorkers'
<1>1. ledger \in Seq(Event) /\ workerTable \in [Names -> Nat]
  BY DEF Typed, TypeOK, LedgerTypeOK, RegistryTypeOK
<1>2. \A e \in Event : e.type # "worker_registered" =>
         RebuiltWorkerTable(Append(ledger, e)) = RebuiltWorkerTable(ledger)
  <2> SUFFICES ASSUME NEW e \in Event, e.type # "worker_registered"
               PROVE  RebuiltWorkerTable(Append(ledger, e)) = RebuiltWorkerTable(ledger)
    OBVIOUS
  <2>1. RebuiltWorkerTable(Append(ledger, e)) = [n \in Names |-> RebuiltWorkerTable(ledger)[n]]
    BY <1>1, OneMoreWorker
  <2> QED
    BY <2>1 DEF RebuiltWorkerTable
<1>3. ASSUME UNCHANGED workerTable, "workers" \in stale' <=> "workers" \in stale,
             UNCHANGED ledger \/ \E e \in Event : ledger' = Append(ledger, e)
                                                   /\ e.type # "worker_registered"
      PROVE  LiveWorkers'
  <2>1. CASE UNCHANGED ledger
    BY <1>3, <2>1 DEF LiveWorkers
  <2>2. ASSUME NEW e \in Event, ledger' = Append(ledger, e), e.type # "worker_registered"
        PROVE  LiveWorkers'
    <3>1. RebuiltWorkerTable(ledger') = RebuiltWorkerTable(ledger)
      BY <1>2, <2>2
    <3> QED
      BY <1>3, <3>1 DEF LiveWorkers
  <2> QED
    BY <1>3, <2>1, <2>2
<1>4. ASSUME ~RegistryStep PROVE LiveWorkers'
  <2>1. ("workers" \in stale' <=> "workers" \in stale) /\ UNCHANGED <<workers, workerTable>>
    BY <1>4, StaleStep DEF registryVars
  <2>2. UNCHANGED ledger \/ \E e \in Event : ledger' = Append(ledger, e)
                                             /\ e.type # "worker_registered"
    BY <2>1, LedgerStep DEF OneMore, Arrives
  <2> QED
    BY <1>3, <2>1, <2>2
<1>5. ASSUME NEW n \in Names \union {NoName}, UNCHANGED workerTable,
             Record(RegistrationEvent("worker_registration_rejected", n))
      PROVE  LiveWorkers'
  <2> DEFINE e == RegistrationEvent("worker_registration_rejected", n)
  <2>1. e \in Event /\ e.type = "worker_registration_rejected"
    BY DEF RegistrationEvent, EventAbout, Event, NoId, EventTypes
  <2>2. Record(e)
    BY <1>5
  <2> HIDE DEF e
  <2>3. UNCHANGED ledger \/ \E x \in Event : ledger' = Append(ledger, x)
                                              /\ x.type # "worker_registered"
    BY <2>1, <2>2, AppendedEvent DEF Record, AppendFails
  <2> QED
    BY <1>3, <1>5, <2>2, <2>3 DEF Record, AppendFails
<1>6. ASSUME NEW n \in Names, Append1(RegistrationEvent("worker_registered", n)),
             TableWrite("workers", InsertWorkerRow(n), UNCHANGED workerTable)
      PROVE  LiveWorkers'
  <2>1. RegistrationEvent("worker_registered", n) \in Event
        /\ RegistrationEvent("worker_registered", n).type = "worker_registered"
        /\ RegistrationEvent("worker_registered", n).name = n
    BY DEF RegistrationEvent, EventAbout, Event, NoId, EventTypes
  <2>2. PICK x \in Event : ledger' = Append(ledger, x) /\ x.type = "worker_registered" /\ x.name = n
    BY <1>6, <2>1, AppendedEvent
  <2>3. RebuiltWorkerTable(ledger') =
          [m \in Names |-> IF n = m /\ RebuiltWorkerTable(ledger)[m] = NoId
                           THEN Here ELSE RebuiltWorkerTable(ledger)[m]]
    BY <1>1, <2>2, OneMoreWorker DEF Here
  <2>4. CASE InsertWorkerRow(n) /\ UNCHANGED stale
    <3> SUFFICES ASSUME workerTable = RebuiltWorkerTable(ledger)
                 PROVE  workerTable' = RebuiltWorkerTable(ledger')
      BY <2>4 DEF LiveWorkers
    <3>1. workerTable' = [m \in Names |-> IF n = m /\ workerTable[m] = NoId THEN Here ELSE workerTable[m]]
      BY <1>1, <2>4 DEF InsertWorkerRow
    <3> QED
      BY <2>3, <3>1
  <2>5. CASE "workers" \in stale'
    BY <2>5 DEF LiveWorkers
  <2> QED
    BY <1>6, <2>4, <2>5 DEF TableWrite
<1>7. ASSUME NEW n \in Names, RegisterWorker(n) PROVE LiveWorkers'
  <2>1. CASE n \in workers
    BY <1>5, <1>7, <2>1 DEF RegisterWorker, registryVars
  <2>2. CASE AppendFails /\ UNCHANGED registryVars
    BY <1>3, <2>2 DEF AppendFails, registryVars
  <2> QED
    BY <1>6, <1>7, <2>1, <2>2 DEF RegisterWorker
<1>8. CASE RegisterInvalid
  BY <1>5, <1>8 DEF RegisterInvalid, registryVars
<1>9. CASE Restart
  BY <1>3, <1>9 DEF Restart, ledgerVars
<1>10. CASE RebuildWorkerProjection
  BY <1>10 DEF RebuildWorkerProjection, Rebuild, LiveWorkers
<1> QED
  BY <1>4, <1>7, <1>8, <1>9, <1>10 DEF RegistryStep

LiveSessions ==
  "sessions" \notin stale =>
    sessionTable = RebuiltSessionTable(ledger) /\ memberTable = RebuiltMemberTable(ledger)

(* The tables up to the last event but one do not depend on the last.      *)
LEMMA TablesBefore ==
  ASSUME NEW L \in Seq(Event), NEW e \in Event
  PROVE  LET M == Append(L, e) IN
         /\ SessionsTo(M, Len(L)) = SessionsTo(L, Len(L))
         /\ MembersTo(M, Len(L)) = MembersTo(L, Len(L))
         /\ \A s, k : k \in 1 .. Len(L) => AddedTo(M, s, k) = AddedTo(L, s, k)
         /\ \A s : AddedTo(M, s, Len(L)) = AddedTo(L, s, Len(L))
<1> DEFINE M == Append(L, e)
<1>1. /\ DOMAIN M = DOMAIN L \union {Len(L) + 1} /\ \A m \in DOMAIN L : M[m] = L[m]
      /\ DOMAIN L = 1 .. Len(L) /\ Len(L) \in Nat
  BY Appended, Positions
<1>2. \A k \in DOMAIN M : k <= Len(L) <=> k \in DOMAIN L
  BY <1>1
<1> HIDE DEF M
<1>3. /\ {c \in Created(M) : c <= Len(L)} = Created(L)
      /\ {c \in Created(L) : c <= Len(L)} = Created(L)
      /\ {c \in Added(M) : c <= Len(L)} = Added(L)
      /\ {c \in Added(L) : c <= Len(L)} = Added(L)
      /\ \A c \in Created(L) \union Added(L) : c \in DOMAIN L /\ M[c] = L[c]
  BY <1>1, <1>2 DEF Created, Added, OfType
<1>4. \A k \in 0 .. Len(L) : \A c \in DOMAIN M : c <= k => c \in DOMAIN L
  BY <1>1
<1>5. \A k \in 0 .. Len(L) : \A s : AddedTo(M, s, k) = AddedTo(L, s, k)
  BY <1>1, <1>4 DEF AddedTo, Added, OfType
<1>6. Len(L) \in 0 .. Len(L) /\ \A k \in DOMAIN L : k \in 0 .. Len(L)
  BY <1>1
<1>7. \A s : SessionRow(M, s, Len(L)) = SessionRow(L, s, Len(L))
  BY <1>5, <1>6 DEF SessionRow
<1>8. SessionsTo(M, Len(L)) = SessionsTo(L, Len(L))
  BY <1>3, <1>7 DEF SessionsTo
<1>9. \A m \in Added(L) : MemberRowOf(M, m) = MemberRowOf(L, m)
  BY <1>3, <1>5, <1>6 DEF MemberRowOf
<1>10. MembersTo(M, Len(L)) = MembersTo(L, Len(L))
  BY <1>3, <1>9 DEF MembersTo
<1> QED
  BY <1>1, <1>5, <1>6, <1>8, <1>10 DEF M

LEMMA LiveSessionsNext ==
  ASSUME Typed, Sound(ledger), Sound(ledger'), LiveSessions, [Next]_vars
  PROVE  LiveSessions'
<1> DEFINE n == Len(ledger)
<1>1. ledger \in Seq(Event) /\ n \in Nat
  BY Positions DEF Typed, TypeOK, LedgerTypeOK
<1>2. /\ RebuiltSessionTable(ledger) = SessionsTo(ledger, n)
      /\ RebuiltMemberTable(ledger) = MembersTo(ledger, n)
  BY <1>1, SessionsRebuilt
<1>3. ASSUME NEW e \in Event, ledger' = Append(ledger, e)
      PROVE  /\ ledger' \in Seq(Event) /\ Here \in 1 .. Len(ledger') /\ Here - 1 = n
             /\ ledger'[Here] = e /\ Here \in DOMAIN ledger'
             /\ RebuiltSessionTable(ledger') = SessionsTo(ledger', Here)
             /\ RebuiltMemberTable(ledger') = MembersTo(ledger', Here)
             /\ SessionsTo(ledger', n) = SessionsTo(ledger, n)
             /\ MembersTo(ledger', n) = MembersTo(ledger, n)
             /\ \A s : AddedTo(ledger', s, n) = AddedTo(ledger, s, n)
  <2>1. /\ ledger' \in Seq(Event) /\ Len(ledger') = Here
        /\ ledger'[Here] = e /\ Here \in DOMAIN ledger'
    BY <1>1, <1>3, Appended DEF Here
  <2>2. Here \in 1 .. Len(ledger') /\ Here - 1 = n
    BY <1>1, <2>1 DEF Here
  <2>3. /\ RebuiltSessionTable(ledger') = SessionsTo(ledger', Here)
        /\ RebuiltMemberTable(ledger') = MembersTo(ledger', Here)
    BY <2>1, SessionsRebuilt
  <2> QED
    BY <1>1, <1>3, <2>1, <2>2, <2>3, TablesBefore
<1>4. ASSUME UNCHANGED sessionVars, "sessions" \in stale' <=> "sessions" \in stale,
             UNCHANGED ledger \/ \E e \in Event :
               ledger' = Append(ledger, e) /\ e.type \notin {"session_created", "session_intent_added"}
      PROVE  LiveSessions'
  <2>1. /\ RebuiltSessionTable(ledger') = RebuiltSessionTable(ledger)
        /\ RebuiltMemberTable(ledger') = RebuiltMemberTable(ledger)
    <3>1. CASE UNCHANGED ledger
      BY <3>1
    <3>2. ASSUME NEW e \in Event, ledger' = Append(ledger, e),
                 e.type \notin {"session_created", "session_intent_added"}
          PROVE  /\ RebuiltSessionTable(ledger') = RebuiltSessionTable(ledger)
                 /\ RebuiltMemberTable(ledger') = RebuiltMemberTable(ledger)
      <4>1. Here \notin Created(ledger') /\ Here \notin Added(ledger')
        BY <1>3, <3>2 DEF Created, Added, OfType
      <4>2. /\ SessionsTo(ledger', Here) = SessionsTo(ledger', Here - 1)
            /\ MembersTo(ledger', Here) = MembersTo(ledger', Here - 1)
        BY <1>3, <3>2, <4>1, SessionsStepOther
      <4> QED
        BY <1>2, <1>3, <3>2, <4>2
    <3> QED
      BY <1>4, <3>1, <3>2
  <2> QED
    BY <1>4, <2>1 DEF LiveSessions, sessionVars
<1>5. ASSUME ~SessionStep PROVE LiveSessions'
  <2>1. ("sessions" \in stale' <=> "sessions" \in stale) /\ UNCHANGED sessionVars
    BY <1>5, StaleStep
  <2>2. UNCHANGED ledger \/ \E e \in Event :
          ledger' = Append(ledger, e) /\ e.type \notin {"session_created", "session_intent_added"}
    BY <1>5, LedgerStep DEF OneMore, Arrives
  <2> QED
    BY <1>4, <2>1, <2>2
<1>6. Here \in Nat
  BY <1>1 DEF Here
<1>7. CASE CreateSession
  <2>1. CASE AppendFails /\ UNCHANGED sessionVars
    BY <1>4, <2>1 DEF AppendFails
  <2>2. CASE /\ Append1(SessionEvent("session_created", Here, NoIntent))
             /\ TableWrite("sessions",
                  sessionTable' = sessionTable \union {[session |-> Here, count |-> 0, event |-> Here]},
                  UNCHANGED sessionTable)
             /\ UNCHANGED memberTable
    <3> DEFINE e == SessionEvent("session_created", Here, NoIntent)
    <3>1. e \in Event /\ e.type = "session_created"
      BY <1>6 DEF SessionEvent, EventAbout, Event, NoId, EventTypes
    <3>2. Append1(e)
      BY <2>2
    <3> HIDE DEF e
    <3>3. PICK x \in Event : ledger' = Append(ledger, x) /\ x.type = "session_created"
      BY <3>1, <3>2, AppendedEvent
    <3>4. Here \in Created(ledger')
      BY <1>3, <3>3 DEF Created, OfType
    <3>5. /\ SessionsTo(ledger', Here) =
               SessionsTo(ledger', Here - 1) \union {[session |-> Here, count |-> 0, event |-> Here]}
          /\ MembersTo(ledger', Here) = MembersTo(ledger', Here - 1)
      BY <1>3, <3>3, <3>4, SessionsStepCreated
    <3>6. /\ RebuiltSessionTable(ledger') =
               RebuiltSessionTable(ledger) \union {[session |-> Here, count |-> 0, event |-> Here]}
          /\ RebuiltMemberTable(ledger') = RebuiltMemberTable(ledger)
      BY <1>2, <1>3, <3>3, <3>5
    <3> QED
      BY <2>2, <3>6 DEF TableWrite, LiveSessions
  <2> QED
    BY <1>7, <2>1, <2>2 DEF CreateSession, sessionVars
<1>8. ASSUME NEW s \in Nat, NEW i \in Intents, Append1(SessionEvent("session_intent_added", s, i)),
             TableWrite("sessions", InsertMember(s, i), UNCHANGED sessionVars)
      PROVE  LiveSessions'
  <2> DEFINE e == SessionEvent("session_intent_added", s, i)
  <2>1. e \in Event /\ e.type = "session_intent_added" /\ e.id = s /\ e.intent = i
    BY DEF SessionEvent, EventAbout, Event, NoId, EventTypes
  <2>2. Append1(e)
    BY <1>8
  <2> HIDE DEF e
  <2>3. PICK x \in Event : /\ ledger' = Append(ledger, x) /\ x.type = "session_intent_added"
                           /\ x.id = s /\ x.intent = i
    BY <2>1, <2>2, AppendedEvent
  <2>4. Here \in Added(ledger') /\ ledger'[Here].id = s /\ ledger'[Here].intent = i
    BY <1>3, <2>3 DEF Added, OfType
  <2> DEFINE order == Cardinality(AddedTo(ledger, s, n)) + 1
             was == SessionRow(ledger', s, n)
             now == [session |-> s, count |-> order, event |-> Here]
  <2>5. /\ was \in SessionsTo(ledger, n) /\ was.session = s
        /\ \A row \in SessionsTo(ledger, n) : row.session = s => row = was
        /\ RebuiltSessionTable(ledger') = (RebuiltSessionTable(ledger) \ {was}) \union {now}
        /\ RebuiltMemberTable(ledger') = RebuiltMemberTable(ledger) \union
             {[session |-> s, intent |-> i, order |-> order, event |-> Here]}
    <3> DEFINE at == ledger'[Here].id
               next == Cardinality(AddedTo(ledger', at, Here - 1)) + 1
               old == SessionRow(ledger', at, Here - 1)
    <3>1. /\ old \in SessionsTo(ledger', Here - 1) /\ old.session = at
          /\ \A row \in SessionsTo(ledger', Here - 1) : row.session = at => row = old
          /\ SessionsTo(ledger', Here) = (SessionsTo(ledger', Here - 1) \ {old})
               \union {[session |-> at, count |-> next, event |-> Here]}
          /\ MembersTo(ledger', Here) = MembersTo(ledger', Here - 1) \union
               {[session |-> at, intent |-> ledger'[Here].intent, order |-> next, event |-> Here]}
      <4>1. ledger' \in Seq(Event) /\ Sound(ledger') /\ Here \in 1 .. Len(ledger') /\ Here \in Added(ledger')
        BY <1>3, <2>3, <2>4
      <4> QED
        BY <4>1, SessionsStepAdded
    <3>2. at = s /\ ledger'[Here].intent = i /\ next = order /\ old = was
      BY <1>3, <2>3, <2>4
    <3>3. /\ SessionsTo(ledger', Here - 1) = RebuiltSessionTable(ledger)
          /\ SessionsTo(ledger', Here - 1) = SessionsTo(ledger, n)
          /\ MembersTo(ledger', Here - 1) = RebuiltMemberTable(ledger)
          /\ SessionsTo(ledger', Here) = RebuiltSessionTable(ledger')
          /\ MembersTo(ledger', Here) = RebuiltMemberTable(ledger')
      BY <1>2, <1>3, <2>3
    <3> HIDE DEF at, next, old, was, order
    <3> QED
      BY <3>1, <3>2, <3>3
  <2>6. CASE InsertMember(s, i) /\ UNCHANGED stale
    <3> SUFFICES ASSUME sessionTable = RebuiltSessionTable(ledger),
                        memberTable = RebuiltMemberTable(ledger)
                 PROVE  /\ sessionTable' = RebuiltSessionTable(ledger')
                        /\ memberTable' = RebuiltMemberTable(ledger')
      BY <2>6 DEF LiveSessions
    <3>1. NextOrder(s) = order
      BY <1>1, <1>2, MembersCounted DEF NextOrder, MembersOf
    <3>2. memberTable' = RebuiltMemberTable(ledger')
      BY <2>5, <2>6, <3>1 DEF InsertMember
    <3>3. sessionTable' =
            {IF row.session = s THEN [row EXCEPT !.count = order, !.event = Here] ELSE row :
               row \in sessionTable}
      BY <2>6, <3>1 DEF InsertMember
    <3>4. [was EXCEPT !.count = order, !.event = Here] = now
      <4> DEFINE c == Cardinality(AddedTo(ledger', s, n))
                 d == LastOf(AddedTo(ledger', s, n) \union {s})
      <4>1. was = [session |-> s, count |-> c, event |-> d]
        BY DEF SessionRow
      <4> DEFINE changed == [was EXCEPT !.count = order, !.event = Here]
      <4> HIDE DEF was, order, c, d
      <4>2. /\ DOMAIN changed = {"session", "count", "event"}
            /\ changed["session"] = s /\ changed["count"] = order /\ changed["event"] = Here
            /\ changed = [f \in DOMAIN changed |-> changed[f]]
        BY <4>1
      <4>3. now = [f \in {"session", "count", "event"} |->
                     IF f = "session" THEN s ELSE IF f = "count" THEN order ELSE Here]
        OBVIOUS
      <4> HIDE DEF changed, now
      <4>4. changed = now
        BY <4>2, <4>3
      <4> QED
        BY <4>4 DEF changed
    <3> HIDE DEF was, now, order
    <3>5. was \in sessionTable /\ \A row \in sessionTable : row.session = s <=> row = was
      BY <1>2, <2>5
    <3>6. sessionTable' = (sessionTable \ {was}) \union {now}
      BY <3>3, <3>4, <3>5
    <3> QED
      BY <2>5, <3>2, <3>6
  <2>7. CASE "sessions" \in stale'
    BY <2>7 DEF LiveSessions
  <2> QED
    BY <1>8, <2>6, <2>7 DEF TableWrite
<1>9. ASSUME NEW s \in Nat, NEW i \in Intents, UNCHANGED sessionVars,
             Record(SessionEvent("session_intent_rejected", s, i))
      PROVE  LiveSessions'
  <2> DEFINE e == SessionEvent("session_intent_rejected", s, i)
  <2>1. e \in Event /\ e.type = "session_intent_rejected"
    BY DEF SessionEvent, EventAbout, Event, NoId, EventTypes
  <2>2. Record(e)
    BY <1>9
  <2> HIDE DEF e
  <2>3. UNCHANGED ledger \/ \E x \in Event :
          ledger' = Append(ledger, x) /\ x.type \notin {"session_created", "session_intent_added"}
    BY <2>1, <2>2, AppendedEvent DEF Record, AppendFails
  <2> QED
    BY <1>4, <1>9, <2>2, <2>3 DEF Record, AppendFails
<1>10. ASSUME NEW s \in OfType(ledger, {"session_created"}) \union {NoId}, NEW i \in Intents,
              AddIntentToSession(s, i)
       PROVE  LiveSessions'
  <2>1. s \in Nat
    BY <1>1, Positions, OfTypeIsPositions DEF NoId
  <2>2. CASE AppendFails /\ UNCHANGED sessionVars
    BY <1>4, <2>2 DEF AppendFails
  <2> QED
    BY <1>8, <1>9, <1>10, <2>1, <2>2 DEF AddIntentToSession
<1>11. CASE RebuildSessionProjection
  BY <1>11 DEF RebuildSessionProjection, Rebuild, LiveSessions
<1> QED
  BY <1>5, <1>7, <1>10, <1>11 DEF SessionStep

Live == LiveWorkers /\ LiveSessions /\ LiveCaptures /\ LiveArtifacts

LEMMA LiveInit == Init => Live
<1> SUFFICES ASSUME Init PROVE Live
  OBVIOUS
<1>1. \A types : OfType(ledger, types) = {}
  BY DEF Init, LedgerInit, OfType
<1>2. \A n : Registrations(ledger, n) = {} /\ Members(ledger, n) = {}
  BY <1>1 DEF Registrations, Members
<1>3. RebuiltWorkerTable(ledger) = [n \in Names |-> NoId]
  BY <1>2 DEF RebuiltWorkerTable
<1>4. RebuiltSessionTable(ledger) = {} /\ RebuiltMemberTable(ledger) = {}
  BY <1>1, <1>2 DEF RebuiltSessionTable, RebuiltMemberTable
<1> QED
  BY <1>1, <1>3, <1>4 DEF Init, RegistryInit, SessionInit, CaptureInit, WorkspaceInit,
     Live, LiveWorkers, LiveSessions, LiveCaptures, LiveArtifacts, RebuiltArtifactTable

LEMMA LiveNext ==
  ASSUME Typed, Admitted, Admitted', Live, [Next]_vars
  PROVE  Live'
<1>1. Sound(ledger) /\ Sound(ledger')
  BY DEF Admitted
<1> QED
  BY <1>1, LiveWorkersNext, LiveSessionsNext, LiveCapturesNext, LiveArtifactsNext DEF Live

(* A table of the registry, the sessions, the captures or the workspace    *)
(* that missed no write since its last rebuild is what a rebuild makes of  *)
(* the ledger.                                                             *)
THEOREM LiveIsRebuilt == Spec => []LiveEqualsRebuilt
<1>1. Typed /\ Admitted /\ Admitted' /\ Live /\ [Next]_vars => Live'
  BY LiveNext
<1>2. Live => LiveEqualsRebuilt
  BY DEF Live, LiveWorkers, LiveSessions, LiveCaptures, LiveArtifacts, LiveEqualsRebuilt,
         RebuiltProvenanceTable, RebuiltEnvironmentTable
<1> QED
  BY <1>1, <1>2, LiveInit, AlwaysTyped, AlwaysAdmitted, PTL DEF Spec

---------------------------------------------------------------------------
(* The two tables of sessions, with or without the writes they missed.     *)

(* The members of a session are numbered without a gap, in their order.    *)
LEMMA MembersNumbered ==
  ASSUME NEW L \in Seq(Event), NEW s
  PROVE  LET S == AddedTo(L, s, Len(L))
             number(m) == Cardinality(AddedTo(L, s, m))
         IN  /\ {number(m) : m \in S} = 1 .. Cardinality(S)
             /\ \A a, b \in S : number(a) < number(b) <=> a < b
<1> DEFINE n == Len(L)
           S(k) == AddedTo(L, s, k)
           number(m) == Cardinality(AddedTo(L, s, m))
           f == [k \in 0 .. n |-> {number(m) : m \in S(k)}]
           g == [k \in 0 .. n |-> 1 .. number(k)]
<1>1. n \in Nat /\ DOMAIN L = 1 .. n /\ \A k \in 1 .. n : k - 1 \in 0 .. n
  <2>1. n \in Nat /\ DOMAIN L = 1 .. n
    BY Positions
  <2> HIDE DEF n
  <2> QED
    BY <2>1
<1>2. S(0) = {} /\ \A k \in 0 .. n : S(k) \in SUBSET DOMAIN L
  BY <1>1 DEF AddedTo, Added, OfType
<1>3. ASSUME NEW k \in 0 .. n PROVE IsFiniteSet(S(k)) /\ number(k) \in Nat
  BY <1>2, SomePositions
<1>4. f[0] = g[0]
  <2>1. number(0) = 0
    BY <1>2, FS_EmptySet
  <2>2. 0 \in 0 .. n
    BY <1>1
  <2> HIDE DEF S, number, n
  <2> QED
    BY <1>2, <2>1, <2>2
<1>5. ASSUME NEW k \in 1 .. n, f[k - 1] = g[k - 1] PROVE f[k] = g[k]
  <2>1. \/ S(k) = S(k - 1) /\ number(k) = number(k - 1)
        \/ S(k) = S(k - 1) \union {k} /\ number(k) = number(k - 1) + 1
    BY AddedToStep
  <2>2. number(k - 1) \in Nat
    BY <1>1, <1>3
  <2>3. {number(m) : m \in S(k - 1)} = 1 .. number(k - 1)
    BY <1>1, <1>5
  <2>4. {number(m) : m \in S(k)} = 1 .. number(k)
    <3>1. CASE S(k) = S(k - 1) /\ number(k) = number(k - 1)
      BY <2>3, <3>1
    <3>2. CASE S(k) = S(k - 1) \union {k} /\ number(k) = number(k - 1) + 1
      <4>1. {number(m) : m \in S(k)} = {number(m) : m \in S(k - 1)} \union {number(k)}
        BY <3>2
      <4> HIDE DEF number, S
      <4>2. 1 .. number(k) = 1 .. number(k - 1) \union {number(k)}
        BY <2>2, <3>2
      <4> QED
        BY <2>3, <4>1, <4>2
    <3> QED
      BY <2>1, <3>1, <3>2
  <2>5. k \in 0 .. n
    BY <1>1
  <2> HIDE DEF S, number, n
  <2> QED
    BY <2>4, <2>5
<1>6. f[n] = g[n]
  <2> HIDE DEF f, g, n
  <2> QED
    BY <1>1, <1>4, <1>5, WalksAgree
<1>7. {number(m) : m \in S(n)} = 1 .. number(n)
  <2>1. n \in 0 .. n
    BY <1>1
  <2> HIDE DEF n, number, S
  <2> QED
    BY <1>6, <2>1
<1>8. ASSUME NEW a \in S(n), NEW b \in S(n), a < b PROVE number(a) < number(b)
  <2>1. a \in 0 .. n /\ b \in 0 .. n /\ a \in Nat /\ b \in Nat
    <3>1. a \in DOMAIN L /\ b \in DOMAIN L
      BY <1>1, <1>2
    <3> HIDE DEF n
    <3> QED
      BY <1>1, <3>1
  <2>2. S(a) \union {b} \subseteq S(b) /\ b \notin S(a)
    <3>1. \A m \in Added(L) : m \in Nat
      BY <1>1 DEF Added, OfType
    <3>2. ~(b <= a) /\ b <= b /\ \A m \in Nat : m <= a => m <= b
      <4> HIDE DEF n
      <4> QED
        BY <1>8, <2>1
    <3> HIDE DEF n
    <3> QED
      BY <3>1, <3>2 DEF AddedTo, n
  <2>3. Cardinality(S(a) \union {b}) = number(a) + 1 /\ IsFiniteSet(S(a) \union {b})
    BY <1>3, <2>1, <2>2, FS_AddElement
  <2>4. number(a) + 1 <= number(b)
    BY <1>3, <2>1, <2>2, <2>3, FS_Subset
  <2>5. number(a) \in Nat /\ number(b) \in Nat
    BY <1>3, <2>1
  <2> HIDE DEF number
  <2> QED
    BY <2>4, <2>5
<1>9. ASSUME NEW a \in S(n), NEW b \in S(n) PROVE number(a) < number(b) <=> a < b
  <2>1. a \in 0 .. n /\ b \in 0 .. n
    <3>1. a \in DOMAIN L /\ b \in DOMAIN L
      BY <1>1, <1>2
    <3> HIDE DEF n
    <3> QED
      BY <1>1, <3>1
  <2>2. number(a) \in Nat /\ number(b) \in Nat
    BY <1>3, <2>1
  <2>3. a < b \/ a = b \/ b < a
    <3> HIDE DEF n
    <3> QED
      BY <1>1, <2>1
  <2>4. (a < b => number(a) < number(b)) /\ (b < a => number(b) < number(a))
    BY <1>8
  <2> HIDE DEF n, number
  <2> QED
    BY <1>1, <2>1, <2>2, <2>3, <2>4
<1> QED
  BY <1>7, <1>9

Numbered(members) ==
  \A s : LET mine == {row \in members : row.session = s}
         IN  /\ {row.order : row \in mine} = 1 .. Cardinality(mine)
             /\ \A a, b \in mine : a.order < b.order <=> a.event < b.event

Consistent ==
  /\ \A row \in memberTable : row.session <= Len(ledger) /\ row.event <= Len(ledger)
  /\ Numbered(memberTable)
  /\ \A row \in sessionTable : row.count = Cardinality(MembersOf(row.session))

LEMMA SessionTablesStep ==
  ASSUME Typed, [Next]_vars
  PROVE  \/ UNCHANGED sessionVars
         \/ /\ OneMore /\ UNCHANGED memberTable
            /\ sessionTable' = sessionTable \union {[session |-> Here, count |-> 0, event |-> Here]}
         \/ OneMore /\ \E s \in 0 .. Len(ledger), i \in Intents : InsertMember(s, i)
         \/ UNCHANGED ledger /\ RebuildSessionProjection
<1> DEFINE n == Len(ledger)
<1>1. ledger \in Seq(Event) /\ n \in Nat /\ DOMAIN ledger = 1 .. n
  BY Positions DEF Typed, TypeOK, LedgerTypeOK
<1>2. ASSUME NEW e, Append1(e) PROVE OneMore
  <2>1. ledger' # ledger
    <3>1. ledger' = Append(ledger, [e EXCEPT !.back = clock])
      BY <1>2 DEF Append1
    <3>2. Len(ledger') = n + 1
      BY <1>1, <3>1
    <3> HIDE DEF n
    <3> QED
      BY <1>1, <3>2 DEF n
  <2> QED
    BY <2>1, LedgerStep
<1>3. CASE CreateSession
  BY <1>2, <1>3 DEF CreateSession, TableWrite, sessionVars
<1>4. ASSUME NEW s \in OfType(ledger, {"session_created"}) \union {NoId}, NEW i \in Intents,
             AddIntentToSession(s, i), ~UNCHANGED sessionVars
      PROVE  OneMore /\ \E t \in 0 .. Len(ledger), j \in Intents : InsertMember(t, j)
  <2>1. s \in 0 .. n
    <3>1. s \in DOMAIN ledger \/ s = 0
      BY DEF OfType, NoId
    <3> HIDE DEF n
    <3> QED
      BY <1>1, <3>1
  <2> QED
    BY <1>2, <1>4, <2>1 DEF AddIntentToSession, TableWrite
<1>5. CASE RebuildSessionProjection
  BY <1>5 DEF RebuildSessionProjection, Rebuild
<1> QED
  BY <1>3, <1>4, <1>5, StaleStep DEF SessionStep

LEMMA ConsistentNext ==
  ASSUME Typed, Admitted, Consistent, [Next]_vars
  PROVE  Consistent'
<1> DEFINE n == Len(ledger)
           of(members, s) == {row \in members : row.session = s}
<1>1. /\ ledger \in Seq(Event) /\ n \in Nat /\ Sound(ledger) /\ Here = n + 1
      /\ IsFiniteSet(memberTable)
      /\ \A row \in memberTable : row \in [session : Nat, intent : Intents, order : Nat, event : Nat]
      /\ \A row \in sessionTable : row \in [session : Nat, count : Nat, event : Nat]
  BY Positions DEF Typed, TypeOK, LedgerTypeOK, SessionTypeOK, Admitted, Here
<1>2. \A row \in memberTable : row.session <= n /\ row.event <= n
  BY DEF Consistent
<1>3. \A s : MembersOf(s) = of(memberTable, s) /\ MembersOf(s)' = of(memberTable', s)
  BY DEF MembersOf
<1>4. \A s : IsFiniteSet(of(memberTable, s)) /\ Cardinality(of(memberTable, s)) \in Nat
  <2>1. \A s : of(memberTable, s) \subseteq memberTable
    OBVIOUS
  <2> HIDE DEF of
  <2> QED
    BY <1>1, <2>1, FS_Subset, FS_CardinalityType
<1>5. Len(ledger') \in Nat /\ n <= Len(ledger') /\ (OneMore => Len(ledger') = n + 1)
  <2>1. OneMore => Len(ledger') = n + 1
    BY <1>1, Appended DEF OneMore
  <2>2. OneMore \/ UNCHANGED ledger
    BY LedgerStep
  <2> QED
    BY <1>1, <2>1, <2>2
<1>6. CASE UNCHANGED sessionVars
  <2>1. \A row \in memberTable : row.session <= Len(ledger') /\ row.event <= Len(ledger')
    <3> HIDE DEF n
    <3> QED
      BY <1>1, <1>2, <1>5
  <2> QED
    BY <1>6, <2>1 DEF sessionVars, Consistent, MembersOf
<1>7. CASE /\ OneMore /\ UNCHANGED memberTable
           /\ sessionTable' = sessionTable \union {[session |-> Here, count |-> 0, event |-> Here]}
  <2>1. \A row \in memberTable : row.session <= Len(ledger') /\ row.event <= Len(ledger')
    <3> HIDE DEF n
    <3> QED
      BY <1>1, <1>2, <1>5
  <2>2. of(memberTable, Here) = {}
    <3>1. \A row \in memberTable : row.session # Here
      <4> HIDE DEF n
      <4> QED
        BY <1>1, <1>2
    <3> QED
      BY <3>1
  <2>3. Cardinality(of(memberTable, Here)) = 0
    BY <2>2, FS_EmptySet
  <2>4. \A row \in sessionTable' : row.count = Cardinality(of(memberTable, row.session))
    <3>1. \A row \in sessionTable : row.count = Cardinality(of(memberTable, row.session))
      BY <1>3 DEF Consistent
    <3> DEFINE new == [session |-> Here, count |-> 0, event |-> Here]
    <3>2. new.session = Here /\ new.count = 0
      OBVIOUS
    <3> HIDE DEF of, new
    <3>3. sessionTable' = sessionTable \union {new}
      BY <1>7 DEF new
    <3> QED
      BY <2>3, <3>1, <3>2, <3>3
  <2> QED
    BY <1>3, <1>7, <2>1, <2>4 DEF Consistent
<1>8. ASSUME OneMore, NEW s \in 0 .. n, NEW i \in Intents, InsertMember(s, i)
      PROVE  Consistent'
  <2> DEFINE mine == of(memberTable, s)
             order == Cardinality(mine) + 1
             new == [session |-> s, intent |-> i, order |-> order, event |-> Here]
  <2>1. memberTable' = memberTable \union {new}
    BY <1>3, <1>8 DEF InsertMember, NextOrder
  <2>2. new \notin memberTable
    <3>1. \A row \in memberTable : row.event # Here
      <4> HIDE DEF n
      <4> QED
        BY <1>1, <1>2
    <3> QED
      BY <3>1
  <2>3. of(memberTable', s) = mine \union {new} /\ \A x : x # s => of(memberTable', x) = of(memberTable, x)
    BY <2>1
  <2>4. IsFiniteSet(mine) /\ Cardinality(mine) \in Nat /\ new \notin mine
    BY <1>4, <2>2
  <2>5. Cardinality(of(memberTable', s)) = order /\ order \in Nat
    <3> DEFINE now == of(memberTable', s)
    <3>1. now = mine \union {new}
      BY <2>3
    <3> HIDE DEF mine, new, now
    <3>2. Cardinality(mine \union {new}) = Cardinality(mine) + 1
      BY <2>4, FS_AddElement
    <3>3. Cardinality(now) = order /\ order \in Nat
      BY <2>4, <3>1, <3>2
    <3> QED
      BY <3>3 DEF now, mine
  <2>6. \A row \in memberTable' : row.session <= Len(ledger') /\ row.event <= Len(ledger')
    <3>1. Len(ledger') = n + 1 /\ s \in Nat /\ s <= n
      BY <1>1, <1>5, <1>8
    <3> HIDE DEF n, order
    <3> QED
      BY <1>1, <1>2, <2>1, <3>1
  <2>7. Numbered(memberTable')
    <3>1. ASSUME NEW x
          PROVE  /\ {row.order : row \in of(memberTable', x)} = 1 .. Cardinality(of(memberTable', x))
                 /\ \A a, b \in of(memberTable', x) : a.order < b.order <=> a.event < b.event
      <4>1. CASE x # s
        BY <2>3, <4>1 DEF Consistent, Numbered
      <4>2. CASE x = s
        <5>1. /\ {row.order : row \in mine} = 1 .. Cardinality(mine)
              /\ \A a, b \in mine : a.order < b.order <=> a.event < b.event
          BY DEF Consistent, Numbered
        <5>2. {row.order : row \in mine \union {new}} = 1 .. order
          <6>1. {row.order : row \in mine \union {new}} = {row.order : row \in mine} \union {order}
            <7>1. new.order = order
              OBVIOUS
            <7> HIDE DEF mine, new, order
            <7> QED
              BY <7>1
          <6> DEFINE c == Cardinality(mine)
          <6>2. 1 .. c + 1 = 1 .. c \union {c + 1}
            <7>1. c \in Nat
              BY <2>4
            <7> HIDE DEF c
            <7> QED
              BY <7>1
          <6> QED
            BY <5>1, <6>1, <6>2
        <5>3. \A a \in mine : a.order \in Nat /\ a.event \in Nat /\ a.order < order /\ a.event < Here
          <6>1. \A a \in mine : a.order \in 1 .. Cardinality(mine)
            BY <5>1
          <6>2. \A a \in mine : a.event \in Nat /\ a.event <= n
            BY <1>1, <1>2
          <6> HIDE DEF n, mine
          <6> QED
            BY <1>1, <2>4, <6>1, <6>2
        <5>4. \A a, b \in mine \union {new} : a.order < b.order <=> a.event < b.event
          <6>1. new.order = order /\ new.event = Here /\ Here \in Nat
            BY <1>1
          <6> HIDE DEF new, mine, order, n
          <6> QED
            BY <2>5, <5>1, <5>3, <6>1
        <5> QED
          BY <2>3, <2>5, <4>2, <5>2, <5>4
      <4> QED
        BY <4>1, <4>2
    <3> QED
      BY <3>1 DEF Numbered
  <2>8. \A row \in sessionTable' : row.count = Cardinality(of(memberTable', row.session))
    <3>1. sessionTable' = {IF row.session = s THEN [row EXCEPT !.count = order, !.event = Here] ELSE row :
                             row \in sessionTable}
      BY <1>3, <1>8 DEF InsertMember, NextOrder
    <3>2. ASSUME NEW row \in sessionTable, row.session = s
          PROVE  /\ [row EXCEPT !.count = order, !.event = Here].session = s
                 /\ [row EXCEPT !.count = order, !.event = Here].count = order
      <4>1. row \in [session : Nat, count : Nat, event : Nat]
        BY <1>1
      <4> HIDE DEF order
      <4> QED
        BY <3>2, <4>1
    <3>3. ASSUME NEW row \in sessionTable, row.session # s
          PROVE  row.count = Cardinality(of(memberTable', row.session))
      BY <1>3, <2>3, <3>3 DEF Consistent
    <3> HIDE DEF order, of
    <3> QED
      BY <2>5, <3>1, <3>2, <3>3
  <2> QED
    BY <1>3, <2>6, <2>7, <2>8 DEF Consistent
<1>9. CASE UNCHANGED ledger /\ RebuildSessionProjection
  <2>1. sessionTable' = SessionsTo(ledger, n) /\ memberTable' = MembersTo(ledger, n)
    BY <1>1, <1>9, SessionsRebuilt DEF RebuildSessionProjection
  <2>2. ASSUME NEW s
        PROVE  /\ of(memberTable', s) = {MemberRowOf(ledger, m) : m \in AddedTo(ledger, s, n)}
               /\ Cardinality(of(memberTable', s)) = Cardinality(AddedTo(ledger, s, n))
    BY <1>1, <2>1, MembersCounted
  <2>3. \A row \in memberTable' : row.session <= Len(ledger') /\ row.event <= Len(ledger')
    <3> SUFFICES ASSUME NEW m \in Added(ledger) PROVE ledger[m].id <= n /\ m <= n
      BY <1>9, <2>1 DEF MembersTo, MemberRowOf
    <3>1. ledger[m].id < m /\ ledger[m].id \in Created(ledger)
      BY <1>1 DEF Sound
    <3>2. m \in 1 .. n /\ ledger[m].id \in 1 .. n
      BY <1>1, <3>1, Positions DEF Added, Created, OfType
    <3> HIDE DEF n
    <3> QED
      BY <1>1, <3>1, <3>2
  <2>4. Numbered(memberTable')
    <3>1. ASSUME NEW s
          PROVE  /\ {row.order : row \in of(memberTable', s)} = 1 .. Cardinality(of(memberTable', s))
                 /\ \A a, b \in of(memberTable', s) : a.order < b.order <=> a.event < b.event
      <4> DEFINE S == AddedTo(ledger, s, n)
                 number(m) == Cardinality(AddedTo(ledger, s, m))
      <4>1. /\ {number(m) : m \in S} = 1 .. Cardinality(S)
            /\ \A a, b \in S : number(a) < number(b) <=> a < b
        BY <1>1, MembersNumbered
      <4>2. \A m \in S : MemberRowOf(ledger, m).order = number(m) /\ MemberRowOf(ledger, m).event = m
        BY DEF MemberRowOf, AddedTo
      <4> HIDE DEF S, number, of
      <4> QED
        BY <2>2, <4>1, <4>2 DEF S
    <3> QED
      BY <3>1 DEF Numbered
  <2>5. \A row \in sessionTable' : row.count = Cardinality(of(memberTable', row.session))
    <3>1. \A s : SessionRow(ledger, s, n).session = s
                 /\ SessionRow(ledger, s, n).count = Cardinality(AddedTo(ledger, s, n))
      BY DEF SessionRow
    <3>2. \A row \in sessionTable' : \E s : row = SessionRow(ledger, s, n)
      BY <2>1 DEF SessionsTo
    <3> HIDE DEF of, n
    <3> QED
      BY <2>2, <3>1, <3>2
  <2> QED
    BY <1>3, <2>3, <2>4, <2>5 DEF Consistent
<1> QED
  BY <1>6, <1>7, <1>8, <1>9, SessionTablesStep

LEMMA ConsistentInit == Init => Consistent
<1> SUFFICES ASSUME Init PROVE Consistent
  OBVIOUS
<1>1. memberTable = {} /\ sessionTable = {}
  BY DEF Init, SessionInit
<1> QED
  BY <1>1, FS_EmptySet DEF Consistent, Numbered

(* Members are numbered 1, 2, ... in the order of their events, and a      *)
(* session's row counts the members in the table, whatever writes either   *)
(* table has missed.                                                       *)
THEOREM SessionTablesConsistent == Spec => []SessionTablesAgree
<1>1. Typed /\ Admitted /\ Consistent /\ [Next]_vars => Consistent'
  BY ConsistentNext
<1>2. Consistent => SessionTablesAgree
  BY DEF Consistent, Numbered, SessionTablesAgree, MembersOf
<1> QED
  BY <1>1, <1>2, ConsistentInit, AlwaysTyped, AlwaysAdmitted, PTL DEF Spec

===========================================================================
