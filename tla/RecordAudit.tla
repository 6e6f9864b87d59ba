---------------------------- MODULE RecordAudit ----------------------------
(***************************************************************************)
(* The auditor's checks of the record-keeping parts: each works out from   *)
(* the events, with a walk of its own, what a table should say, and the    *)
(* disagreements are its errors.  Every operator takes the ledger and what *)
(* it is compared with, so that the same audit is made of the live ledger  *)
(* and of an imported one.  An error is <<code, what it is about>>.        *)
(***************************************************************************)
EXTENDS RecordLedger

CheckMonotonicOrdering(L) ==
  {<<"EVENT_ORDERING_NOT_MONOTONIC", k>> : k \in {m \in DOMAIN L : L[m].back}}

---------------------------------------------------------------------------
(* Workers.                                                                *)

CheckDuplicateWorkerRegistrations(L) ==
  LET rows == OfType(L, {"worker_registered"})
  IN  {<<"DUPLICATE_WORKER_REGISTRATION", L[k].name>> :
         k \in {m \in rows : \E j \in rows : j < m /\ L[j].name = L[m].name}}

ExpectedWorkersLatest(L) ==      \* mutant: a later registration replaces the first
  [n \in Names |->
     LET rows == {k \in OfType(L, {"worker_registered"}) : L[k].name = n}
     IN  IF rows = {} THEN NoId ELSE LastOf(rows)]

(* compute_expected_worker_projection                                      *)
ExpectedWorkers(L) ==
  LET walk[k \in 0 .. Len(L)] ==
        IF k = 0 THEN [n \in Names |-> NoId]
        ELSE IF L[k].type = "worker_registered" /\ walk[k - 1][L[k].name] = NoId
             THEN [walk[k - 1] EXCEPT ![L[k].name] = k]
             ELSE walk[k - 1]
  IN  walk[Len(L)]

CheckWorkerProjection(L, table) ==
  {<<"WORKER_PROJECTION", n>> : n \in {m \in Names : table[m] # ExpectedWorkers(L)[m]}}

---------------------------------------------------------------------------
(* Receipts.  An event belongs to the intent it names, else to the intent  *)
(* its run was created for.  A row that is not there is never an error.    *)

RunOwner(L, r) ==
  LET created == {k \in OfType(L, {"run_created"}) : L[k].id = r}
  IN  IF created = {} THEN NoIntent ELSE L[LastOf(created)].op

AttributedTo(L, k) ==
  IF L[k].intent # NoIntent THEN L[k].intent
  ELSE IF L[k].type \in RunTypes THEN RunOwner(L, L[k].id)
  ELSE NoIntent

ExpectedReceipt(L, i) ==
  LET rows == {k \in DOMAIN L : AttributedTo(L, k) = i}
  IN  [rows |-> rows, count |-> Cardinality(rows)]

CheckReceiptProjection(L, table) ==
  {<<"RECEIPT_PROJECTION", i>> :
     i \in {j \in Intents :
              LET expected == ExpectedReceipt(L, j)
              IN  /\ table[j].count # 0
                  /\ \/ table[j].count # expected.count
                     \/ table[j].first # FirstOf(expected.rows)
                     \/ table[j].last # LastOf(expected.rows)}}

---------------------------------------------------------------------------
(* Artifact files and snapshots: a row is what its event says.             *)

RowErrors(code, expected, table) ==
  {<<code, k>> : k \in (expected \ table) \union (table \ expected)}

CheckArtifactProjection(L, table) ==
  RowErrors("ARTIFACT_PROJECTION", OfType(L, {"artifact_file_written"}), table)

CheckProvenanceProjection(L, table) ==
  RowErrors("PROVENANCE_PROJECTION", OfType(L, ProvenanceTypes), table)

CheckEnvironmentProjection(L, table) ==
  RowErrors("ENVIRONMENT_PROJECTION", OfType(L, EnvironmentTypes), table)

(* The file behind each recorded artifact is there, as it was written.     *)
CheckArtifactFiles(L, files) ==
  {<<"ARTIFACT_FILE", k>> :
     k \in {m \in OfType(L, {"artifact_file_written"}) :
              files[L[m].intent][L[m].path] # L[m].content}}

---------------------------------------------------------------------------
(* Sessions.                                                               *)

CheckSessionHistory(L) ==
  LET added == OfType(L, {"session_intent_added"})
      created(k) == \E m \in OfType(L, {"session_created"}) : m < k /\ L[m].id = L[k].id
      submitted(i) == \E m \in OfType(L, SubmissionTypes) : L[m].intent = i
  IN  {<<"SESSION_UNKNOWN_SESSION", k>> : k \in {m \in added : ~created(m)}}
        \union {<<"SESSION_UNKNOWN_INTENT", k>> : k \in {m \in added : ~submitted(L[m].intent)}}
        \union {<<"DUPLICATE_SESSION_MEMBERSHIP", k>> :
                  k \in {m \in added : \E j \in added :
                           j < m /\ L[j].id = L[m].id /\ L[j].intent = L[m].intent}}

(* compute_expected_session_projection: one walk for both tables.          *)
ExpectedSessions(L) ==
  LET walk[k \in 0 .. Len(L)] ==
        IF k = 0 THEN [sessions |-> {}, members |-> {}]
        ELSE
          LET was == walk[k - 1]
              known == {row \in was.sessions : row.session = L[k].id}
              mine == {row \in was.members : row.session = L[k].id}
          IN  CASE L[k].type = "session_created" /\ known = {} ->
                     [was EXCEPT !.sessions = @ \union
                        {[session |-> L[k].id, count |-> 0, event |-> k]}]
                [] /\ L[k].type = "session_intent_added" /\ known # {}
                   /\ \A row \in mine : row.intent # L[k].intent ->
                     LET order == (CHOOSE row \in known : TRUE).count + 1
                     IN  [sessions |-> (was.sessions \ known) \union
                            {[session |-> L[k].id, count |-> order, event |-> k]},
                          members |-> was.members \union
                            {[session |-> L[k].id, intent |-> L[k].intent,
                              order |-> order, event |-> k]}]
                [] OTHER -> was
  IN  walk[Len(L)]

CheckSessionProjection(L, sessions, members) ==
  RowErrors("SESSION_PROJECTION", ExpectedSessions(L).sessions, sessions)
    \union RowErrors("SESSION_MEMBERSHIP_PROJECTION", ExpectedSessions(L).members, members)

===========================================================================
